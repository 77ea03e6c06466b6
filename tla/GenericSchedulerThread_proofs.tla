-------------------- MODULE GenericSchedulerThread_proofs --------------------
(* Theorems about GenericSchedulerThread, for any clients and tasks. *)
EXTENDS GenericSchedulerThread, Subsequences_proofs

USE CallersAssumption, TasksAssumption, ParametersAssumption

(* The two ways a client leaves a step keep its label and its locals typed. *)
LEMMA MoveAndReturn ==
  ASSUME CallsOK, NEW c \in Callers, NEW l \in CallLabels
  PROVE  /\ Move(c, l) => cpc' \in [Callers -> CallLabels]
         /\ Return(c) => CallsOK'
<1>1. Move(c, l) => cpc' \in [Callers -> CallLabels]
  BY DEF CallsOK, Move
<1>2. "idle" \in CallLabels
  BY DEF CallLabels
<1>3. NoLocals \in Locals
  BY DEF NoLocals, Locals
<1>. QED
  BY <1>1, <1>2, <1>3 DEF CallsOK, Return

(* A client may change its own locals to any other locals. *)
LEMMA LocalsUpdate ==
  ASSUME CallsOK, NEW c \in Callers, NEW r \in Locals,
         local' = [local EXCEPT ![c] = r]
  PROVE  local' \in [Callers -> Locals]
BY DEF CallsOK

OnlyOnce(q) == \A i, j \in DOMAIN q : q[i] \in Tasks /\ q[i] = q[j] => i = j

(* SkipToMostRecent takes a task of the queue, and leaves or drops other   *)
(* ones of it; what it takes it does not keep as well.                     *)
LEMMA MostRecentIsTaken ==
  ASSUME QueuesOK, PickMostRecent
  PROVE  /\ args' \in Tasks \cup {Stub} /\ args' \in Range(enqueuedTasks)
         /\ enqueuedTasks' \in Seq(Tasks \cup {Stub})
         /\ Range(enqueuedTasks') \subseteq Range(enqueuedTasks) \cap Tasks
         /\ \E ts \in SUBSET (Range(enqueuedTasks) \cap Tasks) :
              /\ dropped' = dropped \cup ts
              /\ ts \cap Range(enqueuedTasks') = {}
              /\ OnlyOnce(enqueuedTasks) => args' \notin ts
         /\ OnlyOnce(enqueuedTasks) =>
              /\ OnlyOnce(enqueuedTasks')
              /\ args' \in Tasks => args' \notin Range(enqueuedTasks')
<1>. DEFINE q == enqueuedTasks
            n == Len(q) - 1
            older == SubSeq(q, 1, n)
            kept == Unskippable(older)
            ts == Tasks \cap (Range(older) \ Range(kept))
<1>1. q \in Seq(Tasks \cup {Stub}) /\ q # <<>>
  BY DEF QueuesOK, PickMostRecent
<1>2. args' = q[Len(q)] /\ enqueuedTasks' = kept /\ dropped' = dropped \cup ts
  BY DEF PickMostRecent
<1>3. /\ Len(q) \in Nat \ {0} /\ DOMAIN q = 1 .. Len(q)
      /\ n \in 0 .. Len(q) /\ q[Len(q)] \in Tasks \cup {Stub}
  BY <1>1, LenProperties, EmptySeq
<1>4. older \in Seq(Tasks \cup {Stub}) /\ Range(older) \subseteq Range(q)
  BY <1>1, <1>3, PrefixOfList
<1>5. Len(older) = n /\ DOMAIN older = 1 .. n /\ \A i \in 1 .. n : older[i] = q[i]
  <2>1. /\ Len(older) = IF 1 <= n THEN n - 1 + 1 ELSE 0
        /\ \A i \in 1 .. n - 1 + 1 : older[i] = q[1 + i - 1]
    BY <1>1, <1>3, SubSeqProperties
  <2>2. n - 1 + 1 = n /\ n \in Nat /\ \A i \in 1 .. n : 1 + i - 1 = i
    BY <1>3
  <2>3. DOMAIN older = 1 .. Len(older)
    BY <1>4, LenProperties
  <2>. HIDE DEF older, n
  <2>. QED
    BY <2>1, <2>2, <2>3
<1>6. kept \in Seq(Tasks \cup {Stub}) /\ Range(kept) = Range(older) \cap (Tasks \ Skippable)
  BY <1>4, FilterProperties DEF Unskippable
<1>7. OnlyOnce(older) => OnlyOnce(kept)
  <2>1. (\A i, j \in DOMAIN older : older[i] \in Tasks \ Skippable /\ older[i] = older[j]
            => i = j) => IsInjective(kept)
    BY <1>4, FilterOrder DEF Unskippable
  <2>. HIDE DEF older, kept
  <2>. QED
    BY <2>1 DEF OnlyOnce, IsInjective
<1>8. args' \in Range(q)
  BY <1>2, <1>3 DEF Range
<1>9. OnlyOnce(q) => OnlyOnce(older) /\ (args' \in Tasks => args' \notin Range(older))
  BY <1>2, <1>3, <1>5 DEF OnlyOnce, Range
<1>. HIDE DEF older, kept, n
<1>10. ts \in SUBSET (Range(q) \cap Tasks) /\ ts \cap Range(kept) = {}
  BY <1>4
<1>11. OnlyOnce(q) => args' \notin ts
  BY <1>9
<1>. QED
  BY <1>1, <1>2, <1>3, <1>4, <1>6, <1>7, <1>8, <1>9, <1>10, <1>11

(* TypeOK, for both ways of choosing a task. *)
THEOREM TypeCorrect == Spec => []TypeOK
<1> USE DEF TypeOK
<1>1. Init => TypeOK
  <2> SUFFICES ASSUME Init PROVE TypeOK
    OBVIOUS
  <2>1. CallsOK
    <3>1. "idle" \in CallLabels
      BY DEF CallLabels
    <3>2. NoLocals \in Locals
      BY DEF NoLocals, Locals
    <3>. QED
      BY <3>1, <3>2 DEF Init, CallsOK
  <2>2. FlagsOK
    <3>1. 0 \in 0..MaxAborts
      BY SMT
    <3>. QED
      BY <3>1 DEF Init, FlagsOK
  <2>4. RunOK
    BY DEF Init, RunOK, ThreadStates, ThreadStateEnum, RunLabels
  <2>3. QueuesOK
    BY DEF Init, QueuesOK
  <2>. QED
    BY <2>1, <2>2, <2>3, <2>4
<1>2. ASSUME TypeOK, RunStep \/ ExecuteOnMainThread PROVE TypeOK'
  <2> USE DEF FlagsOK, QueuesOK, RunOK, CallsOK, RunLabels, ThreadStates,
       ThreadStateEnum, GoTo, quitVars, queueVars, threadVars, abortVars, callVars, boundVars
  <2>1. CASE PickTask
    <3>1. CASE PickInOrder
      <4>1. args' \in Tasks \cup {Stub} /\ enqueuedTasks' \in Seq(Tasks \cup {Stub})
        BY <1>2, <3>1, HeadTailProperties DEF PickInOrder
      <4>. QED
        BY <1>2, <2>1, <3>1, <4>1 DEF PickTask, PickInOrder
    <3>2. CASE PickNothing
      BY <1>2, <2>1, <3>2 DEF PickTask, PickNothing
    <3>3. CASE PickMostRecent
      <4>1. QueuesOK'
        BY <1>2, <2>1, <3>3, MostRecentIsTaken DEF PickTask
      <4>. QED
        BY <1>2, <2>1, <3>3, <4>1 DEF PickTask
    <3>. QED
      BY <2>1, <3>1, <3>2, <3>3 DEF PickTask
  <2>2. CASE Activate
    <3>1. handled' \in Seq(Tasks)
      <4>1. CASE args \in Tasks
        <5>1. handled' = Append(handled, args)
          BY <2>2, <4>1 DEF Activate
        <5>. QED
          BY <1>2, <4>1, <5>1, AppendProperties
      <4>2. CASE args \notin Tasks
        BY <1>2, <2>2, <4>2 DEF Activate
      <4>. QED
        BY <4>1, <4>2
    <3>. QED
      BY <1>2, <2>2, <3>1 DEF Activate
  <2>3. CASE ResetAbort
    <3>1. enqueuedTasks' \in Seq(Tasks \cup {Stub})
      <4>1. queuedTaskWhileProcessingAbort \in Seq(Tasks \cup {Stub})
        BY <1>2, SeqMonotonic
      <4>2. KeptAfterAbort(enqueuedTasks) \in Seq(Tasks \cup {Stub})
        BY <1>2 DEF KeptAfterAbort
      <4>3. CASE state = "Aborted"
        <5>1. enqueuedTasks' = KeptAfterAbort(enqueuedTasks)
                                 \o queuedTaskWhileProcessingAbort
          BY <2>3, <4>3 DEF ResetAbort, MergeQueues
        <5>. QED
          BY <4>1, <4>2, <5>1, ConcatProperties
      <4>. QED
        BY <1>2, <2>3, <4>3 DEF ResetAbort
    <3>2. queuedTaskWhileProcessingAbort' \in Seq(Tasks)
      BY <1>2, <2>3, EmptySeq, ZenonT(30) DEF ResetAbort, MergeQueues
    <3>3. dropped' \subseteq Tasks
      <4>1. dropped' = dropped \/ (dropped' \ dropped) \subseteq Tasks
        BY <2>3 DEF ResetAbort
      <4>. QED
        BY <1>2, <4>1
    <3>. QED
      BY <1>2, <2>3, <3>1, <3>2, <3>3 DEF ResetAbort, AbortsLeft
  <2>4. CASE Poll
    BY <1>2, <2>4 DEF Poll
  <2>5. CASE LoopOnceReturns
    BY <1>2, <2>5 DEF LoopOnceReturns
  <2>6. CASE RequestExecutionOnMainThread
    BY <1>2, <2>6 DEF RequestExecutionOnMainThread
  <2>7. CASE MainThreadExecuted
    BY <1>2, <2>7 DEF MainThreadExecuted
  <2>8. CASE ResolveQuit
    BY <1>2, <2>8 DEF ResolveQuit, AllowedAfterQuit
  <2>9. CASE ResolveAbort
    BY <1>2, <2>9 DEF ResolveAbort
  <2>10. CASE PublishState
    BY <1>2, <2>10 DEF PublishState
  <2>11. CASE StopThread
    BY <1>2, <2>11 DEF StopThread
  <2>12. CASE FinishThread
    BY <1>2, <2>12 DEF FinishThread
  <2>13. CASE TakeStartRequest
    BY <1>2, <2>13 DEF TakeStartRequest, RequestsLeft
  <2>14. CASE ExecuteOnMainThread
    BY <1>2, <2>14, ZenonT(60) DEF ExecuteOnMainThread
  <2>. QED
    BY <1>2, <2>1, <2>2, <2>3, <2>4, <2>5, <2>6, <2>7, <2>8, <2>9, <2>10, <2>11, <2>12, <2>13, <2>14 DEF RunStep
<1>3. ASSUME TypeOK, NEW c \in Callers, BeginCall(c) \/ CallStep(c) PROVE TypeOK'
  <2> USE DEF quitVars, queueVars, threadVars, abortVars, boundVars
  <2>0. CallLabels = {"idle",
          "start_enqueue", "start_running", "start_thread", "start_wake",
          "abort_running", "abort_state", "abort_request",
          "quit_gate", "quit_state", "quit_clear", "quit_wake",
          "quitwait_state", "quitwait_flag", "quitwait_join",
          "abortwait_state"}
    BY DEF CallLabels
  <2>1. CASE StartGate(c)
    <3>1. FlagsOK' /\ RunOK'
      BY <1>3, <2>1 DEF StartGate, FlagsOK, RunOK
    <3>2. QueuesOK'
      BY <1>3, <2>1 DEF StartGate, QueuesOK
    <3>3. CallsOK'
      BY <1>3, <2>1, <2>0, MoveAndReturn DEF StartGate, CallsOK
    <3>. QED
      BY <3>1, <3>2, <3>3
  <2>2. CASE CallAbort(c)
    <3>1. FlagsOK' /\ RunOK'
      BY <1>3, <2>2 DEF CallAbort, FlagsOK, RunOK
    <3>2. QueuesOK'
      BY <1>3, <2>2 DEF CallAbort, QueuesOK
    <3>3. CallsOK'
      <4>1. cpc' \in [Callers -> CallLabels]
        BY <1>3, <2>2, <2>0, MoveAndReturn DEF CallAbort
      <4>2. PICK keep \in BOOLEAN : local' = [local EXCEPT ![c] = [NoLocals EXCEPT !.keepOldestRender = keep]]
        BY <2>2 DEF CallAbort
      <4>3. [NoLocals EXCEPT !.keepOldestRender = keep] \in Locals
        BY DEF NoLocals, Locals
      <4>. QED
        BY <1>3, <4>1, <4>2, <4>3, LocalsUpdate DEF CallsOK
    <3>. QED
      BY <3>1, <3>2, <3>3
  <2>3. CASE CallQuit(c)
    <3>1. FlagsOK' /\ RunOK'
      BY <1>3, <2>3 DEF CallQuit, FlagsOK, RunOK
    <3>2. QueuesOK'
      BY <1>3, <2>3 DEF CallQuit, QueuesOK
    <3>3. CallsOK'
      <4>1. cpc' \in [Callers -> CallLabels]
        BY <1>3, <2>3, <2>0, MoveAndReturn DEF CallQuit
      <4>2. PICK allow \in BOOLEAN : local' = [local EXCEPT ![c] = [NoLocals EXCEPT !.allowRestarts = allow, !.inQuit = TRUE]]
        BY <2>3 DEF CallQuit
      <4>3. [NoLocals EXCEPT !.allowRestarts = allow, !.inQuit = TRUE] \in Locals
        BY DEF NoLocals, Locals
      <4>. QED
        BY <1>3, <4>1, <4>2, <4>3, LocalsUpdate DEF CallsOK
    <3>. QED
      BY <3>1, <3>2, <3>3
  <2>4. CASE CallQuitWait(c)
    <3>1. FlagsOK' /\ RunOK'
      BY <1>3, <2>4 DEF CallQuitWait, FlagsOK, RunOK
    <3>2. QueuesOK'
      BY <1>3, <2>4 DEF CallQuitWait, QueuesOK
    <3>3. CallsOK'
      BY <1>3, <2>4, <2>0, MoveAndReturn DEF CallQuitWait, CallsOK
    <3>. QED
      BY <3>1, <3>2, <3>3
  <2>5. CASE CallAbortWait(c)
    <3>1. FlagsOK' /\ RunOK'
      BY <1>3, <2>5 DEF CallAbortWait, FlagsOK, RunOK
    <3>2. QueuesOK'
      BY <1>3, <2>5 DEF CallAbortWait, QueuesOK
    <3>3. CallsOK'
      BY <1>3, <2>5, <2>0, MoveAndReturn DEF CallAbortWait, CallsOK
    <3>. QED
      BY <3>1, <3>2, <3>3
  <2>6. CASE Enqueue(c)
    <3>1. FlagsOK' /\ RunOK'
      BY <1>3, <2>6 DEF Enqueue, AbortPending, FlagsOK, RunOK
    <3>2. QueuesOK'
      <4>1. PICK t \in Tasks \ Range(posted) :
              /\ posted' = Append(posted, t)
              /\ \/ /\ queuedTaskWhileProcessingAbort' =
                           Append(queuedTaskWhileProcessingAbort, t)
                    /\ UNCHANGED enqueuedTasks
                 \/ /\ enqueuedTasks' = Append(enqueuedTasks, t)
                    /\ UNCHANGED queuedTaskWhileProcessingAbort
        BY <2>6 DEF Enqueue
      <4>2. UNCHANGED <<handled, dropped, args>>
        BY <2>6 DEF Enqueue
      <4>3. \A S : \A q \in Seq(S) : t \in S => Append(q, t) \in Seq(S)
        BY AppendProperties
      <4>4. posted' \in Seq(Tasks)
        BY <1>3, <4>1, <4>3 DEF QueuesOK
      <4>5. queuedTaskWhileProcessingAbort' \in Seq(Tasks)
        BY <1>3, <4>1, <4>3 DEF QueuesOK
      <4>6. enqueuedTasks' \in Seq(Tasks \cup {Stub})
        BY <1>3, <4>1, <4>3 DEF QueuesOK
      <4>. QED
        BY <1>3, <4>2, <4>4, <4>5, <4>6 DEF QueuesOK
    <3>3. CallsOK'
      BY <1>3, <2>6, <2>0, MoveAndReturn DEF Enqueue, AbortPending, CallsOK
    <3>. QED
      BY <3>1, <3>2, <3>3
  <2>7. CASE StartReadRunning(c)
    <3>1. FlagsOK' /\ RunOK'
      BY <1>3, <2>7 DEF StartReadRunning, FlagsOK, RunOK
    <3>2. QueuesOK'
      BY <1>3, <2>7 DEF StartReadRunning, QueuesOK
    <3>3. CallsOK'
      BY <1>3, <2>7, <2>0, MoveAndReturn DEF StartReadRunning, CallsOK
    <3>. QED
      BY <3>1, <3>2, <3>3
  <2>8. CASE StartThread(c)
    <3>1. FlagsOK' /\ RunOK'
      BY <1>3, <2>8 DEF StartThread, FlagsOK, RunOK, RunLabels
    <3>2. QueuesOK'
      BY <1>3, <2>8 DEF StartThread, QueuesOK
    <3>3. CallsOK'
      BY <1>3, <2>8, <2>0, MoveAndReturn DEF StartThread, CallsOK
    <3>. QED
      BY <3>1, <3>2, <3>3
  <2>9. CASE PostStartRequest(c)
    <3>1. FlagsOK' /\ RunOK'
      BY <1>3, <2>9 DEF PostStartRequest, MoreRequests, FlagsOK, RunOK
    <3>2. QueuesOK'
      BY <1>3, <2>9 DEF PostStartRequest, MoreRequests, QueuesOK
    <3>3. CallsOK'
      BY <1>3, <2>9, <2>0, MoveAndReturn DEF PostStartRequest, MoreRequests, CallsOK
    <3>. QED
      BY <3>1, <3>2, <3>3
  <2>10. CASE AbortReadRunning(c)
    <3>1. FlagsOK' /\ RunOK'
      BY <1>3, <2>10 DEF AbortReadRunning, AbortReturns, FlagsOK, RunOK
    <3>2. QueuesOK'
      BY <1>3, <2>10 DEF AbortReadRunning, AbortReturns, QueuesOK
    <3>3. CallsOK'
      BY <1>3, <2>10, <2>0, MoveAndReturn DEF AbortReadRunning, AbortReturns, CallsOK
    <3>. QED
      BY <3>1, <3>2, <3>3
  <2>11. CASE AbortReadState(c)
    <3>1. FlagsOK' /\ RunOK'
      BY <1>3, <2>11 DEF AbortReadState, AbortReturns, FlagsOK, RunOK
    <3>2. QueuesOK'
      BY <1>3, <2>11 DEF AbortReadState, AbortReturns, QueuesOK
    <3>3. CallsOK'
      <4> DEFINE should == threadState \notin {"Aborted", "Idle"}
      <4>1. CASE local[c].keepOldestRender /\ ~should
        BY <1>3, <2>11, <4>1, <2>0, MoveAndReturn DEF AbortReadState, AbortReturns, CallsOK
      <4>2. CASE ~(local[c].keepOldestRender /\ ~should)
        <5>1. cpc' \in [Callers -> CallLabels]
          BY <1>3, <2>11, <4>2, <2>0, MoveAndReturn DEF AbortReadState
        <5>2. [local[c] EXCEPT !.shouldRequestAbort = should] \in Locals
          BY <1>3, ZenonT(30) DEF CallsOK, Locals
        <5>3. local' = [local EXCEPT ![c] = [local[c] EXCEPT !.shouldRequestAbort = should]]
          BY <2>11, <4>2 DEF AbortReadState
        <5>. QED
          BY <1>3, <5>1, <5>2, <5>3, LocalsUpdate DEF CallsOK
      <4>. QED
        BY <4>1, <4>2
    <3>. QED
      BY <3>1, <3>2, <3>3
  <2>12. CASE AbortRequest(c)
    <3>1. FlagsOK' /\ RunOK'
      BY <1>3, <2>12 DEF AbortRequest, AbortReturns, FlagsOK, RunOK
    <3>2. QueuesOK'
      BY <1>3, <2>12 DEF AbortRequest, AbortReturns, QueuesOK
    <3>3. CallsOK'
      BY <1>3, <2>12, <2>0, MoveAndReturn DEF AbortRequest, AbortReturns, CallsOK
    <3>. QED
      BY <3>1, <3>2, <3>3
  <2>13. CASE QuitGate(c)
    <3>1. FlagsOK' /\ RunOK'
      BY <1>3, <2>13 DEF QuitGate, CallsOK, Locals, FlagsOK, RunOK
    <3>2. QueuesOK'
      BY <1>3, <2>13 DEF QuitGate, CallsOK, Locals, QueuesOK
    <3>3. CallsOK'
      BY <1>3, <2>13, <2>0, MoveAndReturn DEF QuitGate, CallsOK, Locals, CallsOK
    <3>. QED
      BY <3>1, <3>2, <3>3
  <2>14. CASE QuitReadState(c)
    <3>1. FlagsOK' /\ RunOK'
      BY <1>3, <2>14 DEF QuitReadState, FlagsOK, RunOK
    <3>2. QueuesOK'
      BY <1>3, <2>14 DEF QuitReadState, QueuesOK
    <3>3. CallsOK'
      BY <1>3, <2>14, <2>0, MoveAndReturn DEF QuitReadState, CallsOK
    <3>. QED
      BY <3>1, <3>2, <3>3
  <2>15. CASE QuitClear(c)
    <3>1. FlagsOK' /\ RunOK'
      BY <1>3, <2>15 DEF QuitClear, FlagsOK, RunOK
    <3>2. QueuesOK'
      BY <1>3, <2>15 DEF QuitClear, QueuesOK
    <3>3. CallsOK'
      BY <1>3, <2>15, <2>0, MoveAndReturn DEF QuitClear, CallsOK
    <3>. QED
      BY <3>1, <3>2, <3>3
  <2>16. CASE QuitWake(c)
    <3>1. FlagsOK' /\ RunOK'
      BY <1>3, <2>16 DEF QuitWake, MoreRequests, FlagsOK, RunOK
    <3>2. QueuesOK'
      BY <1>3, <2>16 DEF QuitWake, MoreRequests, QueuesOK
    <3>3. CallsOK'
      BY <1>3, <2>16, <2>0, MoveAndReturn DEF QuitWake, MoreRequests, CallsOK
    <3>. QED
      BY <3>1, <3>2, <3>3
  <2>17. CASE QuitWaitReadState(c)
    <3>1. FlagsOK' /\ RunOK'
      BY <1>3, <2>17 DEF QuitWaitReadState, FlagsOK, RunOK
    <3>2. QueuesOK'
      BY <1>3, <2>17 DEF QuitWaitReadState, QueuesOK
    <3>3. CallsOK'
      BY <1>3, <2>17, <2>0, MoveAndReturn DEF QuitWaitReadState, CallsOK
    <3>. QED
      BY <3>1, <3>2, <3>3
  <2>18. CASE QuitWaitFlag(c)
    <3>1. FlagsOK' /\ RunOK'
      BY <1>3, <2>18 DEF QuitWaitFlag, FlagsOK, RunOK
    <3>2. QueuesOK'
      BY <1>3, <2>18 DEF QuitWaitFlag, QueuesOK
    <3>3. CallsOK'
      BY <1>3, <2>18, <2>0, MoveAndReturn DEF QuitWaitFlag, CallsOK
    <3>. QED
      BY <3>1, <3>2, <3>3
  <2>19. CASE QuitWaitJoin(c)
    <3>1. FlagsOK' /\ RunOK'
      BY <1>3, <2>19 DEF QuitWaitJoin, FlagsOK, RunOK
    <3>2. QueuesOK'
      BY <1>3, <2>19 DEF QuitWaitJoin, QueuesOK
    <3>3. CallsOK'
      BY <1>3, <2>19, <2>0, MoveAndReturn DEF QuitWaitJoin, CallsOK
    <3>. QED
      BY <3>1, <3>2, <3>3
  <2>20. CASE AbortWaitReadState(c)
    <3>1. FlagsOK' /\ RunOK'
      BY <1>3, <2>20 DEF AbortWaitReadState, FlagsOK, RunOK
    <3>2. QueuesOK'
      BY <1>3, <2>20 DEF AbortWaitReadState, QueuesOK
    <3>3. CallsOK'
      BY <1>3, <2>20, <2>0, MoveAndReturn DEF AbortWaitReadState, CallsOK
    <3>. QED
      BY <3>1, <3>2, <3>3
  <2>. QED
    BY <1>3, <2>1, <2>2, <2>3, <2>4, <2>5, <2>6, <2>7, <2>8, <2>9, <2>10, <2>11, <2>12, <2>13, <2>14, <2>15, <2>16, <2>17, <2>18, <2>19, <2>20 DEF BeginCall, CallStep
<1>4. ASSUME TypeOK, UNCHANGED vars PROVE TypeOK'
  BY <1>4 DEF FlagsOK, QueuesOK, RunOK, CallsOK, vars, quitVars, queueVars,
     threadVars, abortVars, callVars, boundVars
<1>5. TypeOK /\ [Next]_vars => TypeOK'
  BY <1>2, <1>3, <1>4 DEF Next
<1>. QED
  BY <1>1, <1>5, PTL DEF Spec

-----------------------------------------------------------------------------
(* Each task is in one place *)

(* A step that changes no queue and picks no task up keeps PlacementInv. *)
LEMMA NothingMoves ==
  ASSUME PlacementInv, UNCHANGED <<queueVars, handled>>,
         pc' = "activate" => pc = "activate" /\ args' = args
  PROVE  PlacementInv'
BY DEF PlacementInv, EachTaskInOnePlace, QueuesAreDisjoint, Queued, PickedUp,
       queueVars

(* startTask(), pickTaskInOrder(), the abort and the quit move a task from *)
(* one of the two queues to another, to the thread or nowhere, and never   *)
(* copy one: a task waits at most once, and not while it is being handled. *)
THEOREM PlacementInvariant == Spec => []PlacementInv
<1>1. Init => PlacementInv
  BY DEF Init, PlacementInv, EachTaskInOnePlace, QueuesAreDisjoint, Queued,
         PickedUp, Range
<1>2. ASSUME TypeOK, PlacementInv, PickTask PROVE PlacementInv'
  <2>1. CASE PickInOrder
    <3>. DEFINE q == enqueuedTasks
    <3>1. /\ q \in Seq(Tasks \cup {Stub}) /\ q # <<>>
          /\ args' = Head(q) /\ enqueuedTasks' = Tail(q)
      BY <1>2, <2>1 DEF TypeOK, QueuesOK, PickInOrder
    <3>2. /\ Len(q) \in Nat \ {0} /\ DOMAIN q = 1..Len(q) /\ Head(q) = q[1]
          /\ DOMAIN Tail(q) = 1..(Len(q) - 1)
          /\ \A i \in 1..(Len(q) - 1) : Tail(q)[i] = q[i + 1]
      BY <3>1, HeadTailProperties, LenProperties, EmptySeq
    <3>3. /\ Range(Tail(q)) \subseteq Range(q) /\ Head(q) \in Range(q)
      <4>1. ASSUME NEW i \in 1..(Len(q) - 1)
            PROVE  i + 1 \in DOMAIN q /\ Tail(q)[i] = q[i + 1]
        BY <3>2
      <4>2. Range(Tail(q)) \subseteq Range(q)
        BY <4>1, <3>2 DEF Range
      <4>3. 1 \in DOMAIN q /\ Head(q) = q[1]
        BY <3>2
      <4>. QED
        BY <4>2, <4>3 DEF Range
    <3>4. Head(q) \in Tasks => Head(q) \notin Range(Tail(q))
      BY <1>2, <3>2 DEF PlacementInv, QueuesAreDisjoint, Range
    <3>5. \A i, j \in DOMAIN Tail(q) :
            Tail(q)[i] \in Tasks /\ Tail(q)[i] = Tail(q)[j] => i = j
      BY <1>2, <3>2 DEF PlacementInv, QueuesAreDisjoint
    <3>6. /\ UNCHANGED <<queuedTaskWhileProcessingAbort, posted, dropped, handled>>
          /\ pc' = "activate" /\ pc = "pick"
      BY <1>2, <2>1 DEF PickTask, PickInOrder, GoTo
    <3>7. Queued' \cup PickedUp' \subseteq Queued
      BY <3>1, <3>3, <3>6 DEF Queued, PickedUp
    <3>8. EachTaskInOnePlace'
      BY <1>2, <3>6, <3>7 DEF PlacementInv, EachTaskInOnePlace
    <3>9. PickedUp' \cap Queued' = {}
      <4>1. PickedUp' = {Head(q)} \cap Tasks
        BY <3>1, <3>6 DEF PickedUp
      <4>2. Queued' = (Range(Tail(q)) \cup Range(queuedTaskWhileProcessingAbort))
                        \cap Tasks
        BY <3>1, <3>6 DEF Queued
      <4>3. Head(q) \notin Range(queuedTaskWhileProcessingAbort)
        BY <1>2, <3>3 DEF PlacementInv, QueuesAreDisjoint
      <4>. QED
        BY <3>4, <4>1, <4>2, <4>3
    <3>. QED
      BY <1>2, <3>1, <3>3, <3>5, <3>6, <3>7, <3>8, <3>9
         DEF PlacementInv, QueuesAreDisjoint
  <2>2. CASE PickNothing
    <3>1. /\ UNCHANGED <<queueVars, handled>> /\ args' = NoTask
      BY <1>2, <2>2 DEF PickTask, PickNothing, queueVars
    <3>2. PickedUp' = {}
      BY <3>1 DEF PickedUp
    <3>. QED
      BY <1>2, <3>1, <3>2 DEF PlacementInv, EachTaskInOnePlace,
         QueuesAreDisjoint, Queued, queueVars
  <2>3. CASE PickMostRecent
    <3>. DEFINE q == enqueuedTasks
                w == queuedTaskWhileProcessingAbort
    <3>1. QueuesOK /\ OnlyOnce(q)
      BY <1>2 DEF TypeOK, PlacementInv, QueuesAreDisjoint, OnlyOnce
    <3>2. /\ UNCHANGED <<queuedTaskWhileProcessingAbort, posted, handled>>
          /\ pc' = "activate"
      BY <1>2, <2>3 DEF PickTask, GoTo
    <3>3. PICK ts \in SUBSET (Range(q) \cap Tasks) :
            /\ dropped' = dropped \cup ts
            /\ ts \cap Range(enqueuedTasks') = {} /\ args' \notin ts
      BY <2>3, <3>1, MostRecentIsTaken
    <3>4. /\ args' \in Range(q) /\ Range(q') \subseteq Range(q) \cap Tasks
          /\ OnlyOnce(q') /\ (args' \in Tasks => args' \notin Range(q'))
      BY <2>3, <3>1, MostRecentIsTaken
    <3>5. PickedUp' = {args'} \cap Tasks /\ Queued' = (Range(q') \cup Range(w)) \cap Tasks
      BY <3>2 DEF PickedUp, Queued
    <3>6. Queued' \cup PickedUp' \cup ts \subseteq Queued /\ Range(q) \cap Range(w) = {}
      BY <1>2, <3>3, <3>4, <3>5 DEF Queued, PlacementInv, QueuesAreDisjoint
    <3>7. ts \cap (Queued' \cup PickedUp') = {}
      BY <3>3, <3>5, <3>6
    <3>8. EachTaskInOnePlace'
      BY <1>2, <3>2, <3>3, <3>6, <3>7 DEF PlacementInv, EachTaskInOnePlace
    <3>9. PickedUp' \cap Queued' = {}
      BY <3>4, <3>5, <3>6
    <3>10. Queued' \cup PickedUp' \cup Range(handled') \cup dropped' \subseteq Range(posted')
      BY <1>2, <3>2, <3>3, <3>6 DEF PlacementInv, QueuesAreDisjoint
    <3>11. Range(q') \cap Range(w') = {}
      BY <3>2, <3>4, <3>6
    <3>. QED
      BY <1>2, <3>2, <3>4, <3>8, <3>9, <3>10, <3>11
         DEF PlacementInv, QueuesAreDisjoint, OnlyOnce
  <2>. QED
    BY <1>2, <2>1, <2>2, <2>3 DEF PickTask
<1>3. ASSUME TypeOK, PlacementInv, Activate PROVE PlacementInv'
  <2>1. UNCHANGED queueVars /\ pc = "activate" /\ pc' # "activate"
    BY <1>3 DEF Activate, GoTo
  <2>2. CASE args \in Tasks
    <3>1. handled' = Append(handled, args) /\ handled \in Seq(Tasks)
      BY <1>3, <2>2 DEF Activate, TypeOK, QueuesOK
    <3>2. /\ DOMAIN handled = 1..Len(handled) /\ Len(handled) \in Nat
          /\ DOMAIN handled' = 1..(Len(handled) + 1)
          /\ handled'[Len(handled) + 1] = args
          /\ \A i \in 1..Len(handled) : handled'[i] = handled[i]
      BY <2>2, <3>1, AppendProperties, LenProperties
    <3>3. Range(handled') = Range(handled) \cup {args}
      BY <3>2 DEF Range
    <3>4. args \in PickedUp
      BY <2>1, <2>2 DEF PickedUp
    <3>5. \A i, j \in DOMAIN handled' : handled'[i] = handled'[j] => i = j
      <4>1. \A i \in 1..Len(handled) : handled[i] # args
        BY <1>3, <3>2, <3>4 DEF PlacementInv, EachTaskInOnePlace, Range
      <4>. QED
        BY <1>3, <3>2, <4>1 DEF PlacementInv, EachTaskInOnePlace
    <3>6. PickedUp' = {} /\ Queued' = Queued
      BY <2>1 DEF PickedUp, Queued, queueVars
    <3>. QED
      BY <1>3, <2>1, <3>3, <3>4, <3>5, <3>6 DEF PlacementInv, EachTaskInOnePlace,
         QueuesAreDisjoint, queueVars
  <2>3. CASE args \notin Tasks
    BY <1>3, <2>1, <2>3, NothingMoves DEF Activate
  <2>. QED
    BY <2>2, <2>3
<1>4. ASSUME TypeOK, PlacementInv, ResetAbort PROVE PlacementInv'
  <2>1. CASE state # "Aborted"
    BY <1>4, <2>1, NothingMoves DEF ResetAbort, GoTo, queueVars
  <2>2. CASE state = "Aborted" /\ Behaviour = "ProcessInOrder"
    <3>. DEFINE e == enqueuedTasks
                w == queuedTaskWhileProcessingAbort
    <3>1. /\ enqueuedTasks' = <<>> \o w /\ queuedTaskWhileProcessingAbort' = <<>>
          /\ dropped' = dropped \cup (Range(e) \cap Tasks)
          /\ UNCHANGED <<posted, handled>> /\ pc' # "activate"
      <4>1. KeptAfterAbort(e) = <<>> /\ Range(<<>>) = {}
        BY <2>2 DEF KeptAfterAbort, Range
      <4>. QED
        BY <1>4, <2>2, <4>1 DEF ResetAbort, MergeQueues, GoTo
    <3>2. enqueuedTasks' = w /\ Range(w) \subseteq Tasks /\ DOMAIN w = 1..Len(w)
      <4>1. w \in Seq(Tasks)
        BY <1>4 DEF TypeOK, QueuesOK
      <4>. QED
        BY <3>1, <4>1, ConcatEmptySeq, RangeOfSeq, LenProperties
    <3>3. Queued' = Range(w) /\ PickedUp' = {} /\ Range(<<>>) = {} /\ DOMAIN <<>> = {}
      BY <3>1, <3>2 DEF Queued, PickedUp, Range
    <3>4. Range(w) \subseteq Queued /\ Range(e) \cap Tasks \subseteq Queued
      BY <3>2 DEF Queued
    <3>5. EachTaskInOnePlace'
      BY <1>4, <3>1, <3>2, <3>3, <3>4
         DEF PlacementInv, EachTaskInOnePlace, QueuesAreDisjoint
    <3>. QED
      BY <1>4, <3>1, <3>2, <3>3, <3>4, <3>5 DEF PlacementInv, QueuesAreDisjoint
  <2>3. CASE state = "Aborted" /\ Behaviour # "ProcessInOrder"
    <3>. DEFINE e == enqueuedTasks
                w == queuedTaskWhileProcessingAbort
                all == e \o w
    <3>1. /\ enqueuedTasks' = all /\ queuedTaskWhileProcessingAbort' = <<>>
          /\ UNCHANGED <<posted, handled, dropped>> /\ pc' # "activate"
      <4>1. KeptAfterAbort(e) = e
        BY <2>3 DEF KeptAfterAbort
      <4>. QED
        BY <1>4, <2>3, <4>1 DEF ResetAbort, MergeQueues, GoTo
    <3>2. e \in Seq(Tasks \cup {Stub}) /\ w \in Seq(Tasks \cup {Stub})
      BY <1>4, SeqMonotonic DEF TypeOK, QueuesOK
    <3>3. /\ Len(e) \in Nat /\ Len(w) \in Nat
          /\ DOMAIN e = 1 .. Len(e) /\ DOMAIN w = 1 .. Len(w)
      BY <3>2, LenProperties
    <3>4. /\ DOMAIN all = 1 .. Len(e) + Len(w)
          /\ \A i \in 1 .. Len(e) + Len(w) :
               all[i] = IF i <= Len(e) THEN e[i] ELSE w[i - Len(e)]
      BY <3>2, ConcatProperties, LenProperties
    <3>. HIDE DEF all
    <3>5. Range(all) = Range(e) \cup Range(w)
      <4>1. \A i \in 1 .. Len(w) : i + Len(e) \in DOMAIN all /\ all[i + Len(e)] = w[i]
        BY <3>3, <3>4
      <4>2. \A i \in 1 .. Len(e) : i \in DOMAIN all /\ all[i] = e[i]
        BY <3>3, <3>4
      <4>3. \A i \in DOMAIN all : (i \in DOMAIN e /\ all[i] = e[i])
                                  \/ (i - Len(e) \in DOMAIN w /\ all[i] = w[i - Len(e)])
        BY <3>3, <3>4
      <4>. QED
        BY <3>3, <4>1, <4>2, <4>3 DEF Range
    <3>6. Range(e) \cap Range(w) = {}
      BY <1>4 DEF PlacementInv, QueuesAreDisjoint
    <3>7. \A i, j \in DOMAIN all : all[i] \in Tasks /\ all[i] = all[j] => i = j
      <4>1. \A i \in DOMAIN e, j \in DOMAIN w : e[i] # w[j]
        BY <3>6 DEF Range
      <4>2. \A i, j \in DOMAIN e : e[i] \in Tasks /\ e[i] = e[j] => i = j
        BY <1>4 DEF PlacementInv, QueuesAreDisjoint
      <4>3. \A i, j \in DOMAIN w : w[i] = w[j] => i = j
        BY <1>4 DEF PlacementInv, QueuesAreDisjoint
      <4>4. ASSUME NEW i \in DOMAIN all, NEW j \in DOMAIN all,
                   all[i] \in Tasks, all[i] = all[j]
            PROVE  i = j
        <5>1. CASE i <= Len(e) /\ j <= Len(e)
          BY <3>3, <3>4, <4>2, <4>4, <5>1
        <5>2. CASE i > Len(e) /\ j > Len(e)
          <6>1. i - Len(e) \in DOMAIN w /\ j - Len(e) \in DOMAIN w
                /\ w[i - Len(e)] = w[j - Len(e)]
            BY <3>3, <3>4, <4>4, <5>2
          <6>2. i - Len(e) = j - Len(e)
            BY <4>3, <6>1
          <6>. QED
            BY <3>3, <3>4, <6>2
        <5>3. CASE i <= Len(e) /\ j > Len(e)
          BY <3>3, <3>4, <4>1, <4>4, <5>3
        <5>4. CASE i > Len(e) /\ j <= Len(e)
          BY <3>3, <3>4, <4>1, <4>4, <5>4
        <5>. QED
          BY <3>3, <3>4, <5>1, <5>2, <5>3, <5>4
      <4>. QED
        BY <4>4
    <3>8. Queued' = Queued /\ PickedUp' = {} /\ Range(<<>>) = {} /\ DOMAIN <<>> = {}
      <4>1. DOMAIN <<>> = {} /\ Range(<<>>) = {}
        BY DEF Range
      <4>2. Queued' = (Range(all) \cup Range(<<>>)) \cap Tasks
        BY <3>1 DEF Queued
      <4>. QED
        BY <3>1, <3>5, <4>1, <4>2 DEF Queued, PickedUp
    <3>9. EachTaskInOnePlace'
      BY <1>4, <3>1, <3>8 DEF PlacementInv, EachTaskInOnePlace
    <3>. QED
      BY <1>4, <3>1, <3>7, <3>8, <3>9 DEF PlacementInv, QueuesAreDisjoint
  <2>. QED
    BY <2>1, <2>2, <2>3
<1>5. ASSUME TypeOK, PlacementInv, NEW c \in Callers, Enqueue(c) PROVE PlacementInv'
  <2>1. PICK t \in Tasks \ Range(posted) :
          /\ posted' = Append(posted, t)
          /\ \/ /\ queuedTaskWhileProcessingAbort' =
                       Append(queuedTaskWhileProcessingAbort, t)
                /\ UNCHANGED enqueuedTasks
             \/ /\ enqueuedTasks' = Append(enqueuedTasks, t)
                /\ UNCHANGED queuedTaskWhileProcessingAbort
    BY <1>5 DEF Enqueue
  <2>2. UNCHANGED <<dropped, handled, pc, args>>
    BY <1>5 DEF Enqueue, threadVars
  <2>3. \A S : \A q \in Seq(S) : t \in S =>
          /\ DOMAIN q = 1..Len(q) /\ Len(q) \in Nat
          /\ DOMAIN Append(q, t) = 1..(Len(q) + 1)
          /\ Append(q, t)[Len(q) + 1] = t
          /\ \A i \in 1..Len(q) : Append(q, t)[i] = q[i]
    BY AppendProperties, LenProperties
  <2>4. \A S : \A q \in Seq(S) : t \in S =>
          Range(Append(q, t)) = Range(q) \cup {t}
    BY <2>3 DEF Range
  <2>5. Range(posted') = Range(posted) \cup {t} /\ t \notin Queued \cup PickedUp
          /\ t \notin Range(handled) \cup dropped
    BY <1>5, <2>1, <2>4 DEF TypeOK, QueuesOK, PlacementInv, QueuesAreDisjoint
  <2>6. PickedUp' = PickedUp
    BY <2>2 DEF PickedUp
  <2>7. CASE /\ queuedTaskWhileProcessingAbort' =
                  Append(queuedTaskWhileProcessingAbort, t)
             /\ UNCHANGED enqueuedTasks
    <3>. DEFINE w == queuedTaskWhileProcessingAbort
    <3>1. w \in Seq(Tasks) /\ w' = Append(w, t)
      BY <1>5, <2>7 DEF TypeOK, QueuesOK
    <3>2. Range(w') = Range(w) \cup {t}
      BY <2>4, <3>1
    <3>3. Queued' = Queued \cup {t}
      BY <2>7, <3>2 DEF Queued
    <3>4. t \notin Range(w) /\ t \notin Range(enqueuedTasks)
      BY <2>5 DEF Queued
    <3>5. \A i, j \in DOMAIN w' : w'[i] = w'[j] => i = j
      <4>1. /\ DOMAIN w = 1..Len(w) /\ Len(w) \in Nat
            /\ DOMAIN w' = 1..(Len(w) + 1) /\ w'[Len(w) + 1] = t
            /\ \A i \in 1..Len(w) : w'[i] = w[i]
        BY <2>3, <3>1
      <4>2. \A i \in 1..Len(w) : w[i] # t
        BY <3>4, <4>1 DEF Range
      <4>. QED
        BY <1>5, <4>1, <4>2 DEF PlacementInv, QueuesAreDisjoint
    <3>6. EachTaskInOnePlace'
      BY <1>5, <2>2, <2>5, <2>6, <3>3 DEF PlacementInv, EachTaskInOnePlace
    <3>. QED
      BY <1>5, <2>2, <2>5, <2>6, <2>7, <3>2, <3>3, <3>4, <3>5, <3>6
         DEF PlacementInv, QueuesAreDisjoint
  <2>8. CASE /\ enqueuedTasks' = Append(enqueuedTasks, t)
             /\ UNCHANGED queuedTaskWhileProcessingAbort
    <3>. DEFINE e == enqueuedTasks
    <3>1. e \in Seq(Tasks \cup {Stub}) /\ e' = Append(e, t)
      BY <1>5, <2>8 DEF TypeOK, QueuesOK
    <3>2. Range(e') = Range(e) \cup {t}
      BY <2>4, <3>1
    <3>3. Queued' = Queued \cup {t}
      BY <2>8, <3>2 DEF Queued
    <3>4. t \notin Range(e) /\ t \notin Range(queuedTaskWhileProcessingAbort)
      BY <2>5 DEF Queued
    <3>5. \A i, j \in DOMAIN e' : e'[i] \in Tasks /\ e'[i] = e'[j] => i = j
      <4>1. /\ DOMAIN e = 1..Len(e) /\ Len(e) \in Nat
            /\ DOMAIN e' = 1..(Len(e) + 1) /\ e'[Len(e) + 1] = t
            /\ \A i \in 1..Len(e) : e'[i] = e[i]
        BY <2>3, <3>1
      <4>2. \A i \in 1..Len(e) : e[i] # t
        BY <3>4, <4>1 DEF Range
      <4>. QED
        BY <1>5, <4>1, <4>2 DEF PlacementInv, QueuesAreDisjoint
    <3>6. EachTaskInOnePlace'
      BY <1>5, <2>2, <2>5, <2>6, <3>3 DEF PlacementInv, EachTaskInOnePlace
    <3>. QED
      BY <1>5, <2>2, <2>5, <2>6, <2>8, <3>2, <3>3, <3>4, <3>5, <3>6
         DEF PlacementInv, QueuesAreDisjoint
  <2>. QED
    BY <2>1, <2>7, <2>8
<1>6. ASSUME TypeOK, PlacementInv, NEW c \in Callers, QuitClear(c) PROVE PlacementInv'
  <2>1. /\ enqueuedTasks' = <<Stub>>
        /\ dropped' = dropped \cup (Range(enqueuedTasks) \cap Tasks)
        /\ UNCHANGED <<queuedTaskWhileProcessingAbort, posted, handled, pc, args>>
    BY <1>6 DEF QuitClear, threadVars
  <2>2. Range(<<Stub>>) = {Stub} /\ DOMAIN <<Stub>> = {1}
    BY DEF Range
  <2>3. Range(queuedTaskWhileProcessingAbort) \subseteq Tasks
    BY <1>6, RangeOfSeq DEF TypeOK, QueuesOK
  <2>4. /\ Queued' = Range(queuedTaskWhileProcessingAbort) /\ PickedUp' = PickedUp
        /\ Queued' \subseteq Queued
    BY <2>1, <2>2, <2>3 DEF Queued, PickedUp
  <2>5. Range(enqueuedTasks) \cap Tasks \subseteq Queued
    BY DEF Queued
  <2>6. EachTaskInOnePlace'
    BY <1>6, <2>1, <2>4, <2>5
       DEF PlacementInv, EachTaskInOnePlace, QueuesAreDisjoint
  <2>. QED
    BY <1>6, <2>1, <2>2, <2>3, <2>4, <2>5, <2>6 DEF PlacementInv, QueuesAreDisjoint
<1>7. ASSUME PlacementInv, RunStep \/ ExecuteOnMainThread,
             ~PickTask, ~Activate, ~ResetAbort
      PROVE  PlacementInv'
  <2>1. UNCHANGED <<queueVars, handled>> /\ pc' = "activate" => pc = "activate" /\ args' = args
    BY <1>7 DEF RunStep, ExecuteOnMainThread, Poll, LoopOnceReturns,
       RequestExecutionOnMainThread, MainThreadExecuted, ResolveQuit,
       ResolveAbort, PublishState, StopThread, FinishThread, TakeStartRequest,
       GoTo
  <2>2. UNCHANGED <<queueVars, handled>>
    BY <1>7 DEF RunStep, ExecuteOnMainThread, Poll, LoopOnceReturns,
       RequestExecutionOnMainThread, MainThreadExecuted, ResolveQuit,
       ResolveAbort, PublishState, StopThread, FinishThread, TakeStartRequest
  <2>. QED
    BY <1>7, <2>1, <2>2, NothingMoves
<1>8. ASSUME PlacementInv, NEW c \in Callers, BeginCall(c) \/ CallStep(c),
             ~Enqueue(c), ~QuitClear(c)
      PROVE  PlacementInv'
  <2>1. UNCHANGED <<queueVars, handled>> /\ (pc' = "activate" => pc = "activate" /\ args' = args)
    BY <1>8 DEF BeginCall, CallStep, StartGate, CallAbort, CallQuit, CallQuitWait,
       CallAbortWait, StartReadRunning, StartThread, PostStartRequest,
       AbortReadRunning, AbortReadState, AbortRequest, QuitGate, QuitReadState,
       QuitWake, QuitWaitReadState, QuitWaitFlag, QuitWaitJoin,
       AbortWaitReadState, threadVars
  <2>. QED
    BY <1>8, <2>1, NothingMoves
<1>9. ASSUME PlacementInv, UNCHANGED vars PROVE PlacementInv'
  BY <1>9, NothingMoves DEF vars, threadVars
<1>10. TypeOK /\ PlacementInv /\ [Next]_vars => PlacementInv'
  BY <1>2, <1>3, <1>4, <1>5, <1>6, <1>7, <1>8, <1>9 DEF Next
<1>. QED
  BY <1>1, <1>10, TypeCorrect, PTL DEF Spec

(* The part of PlacementInv about single queues and the running task. *)
COROLLARY OnePlaceEach == Spec => []EachTaskInOnePlace
<1>1. PlacementInv => EachTaskInOnePlace
  BY DEF PlacementInv
<1>. QED
  BY <1>1, PlacementInvariant, PTL

-----------------------------------------------------------------------------
(* No task is left behind *)

(* The accounting of start requests, when one client starts tasks and      *)
(* nobody aborts or quits: each queued task has a request, made or about   *)
(* to be made, so the thread never sleeps on a task.                       *)
StartLabels == {"start_running", "start_thread", "start_wake"}
Owed(s) == IF cpc[s] \in StartLabels THEN 1 ELSE 0
Due     == IF pc = "pick" THEN 1 ELSE 0

NeverInterrupted ==
    /\ abortRequested = 0 /\ ~mustQuit
    /\ queuedTaskWhileProcessingAbort = <<>>
    /\ pc \notin {"stop", "finish"}
    /\ pc \in {"resolveAbort", "publish"} => state = "Active"
    /\ pc = "reset" => state = "Idle"
    /\ running <=> pc # "off"

OneStarter(s) ==
    /\ \A c \in Callers :
         \/ cpc[c] \in {"idle", "quitwait_state", "quitwait_flag", "quitwait_join",
                       "abortwait_state"}
         \/ (c = s /\ cpc[c] \in StartLabels \cup {"start_enqueue"})
    /\ cpc[s] = "start_thread" => ~running

AccountingInv(s) ==
    /\ NeverInterrupted /\ OneStarter(s)
    /\ Len(enqueuedTasks) <= startRequests + Owed(s) + Due

(* With a request per queued task, a thread asleep without requests, after *)
(* all the calls returned, has an empty queue.                             *)
LEMMA AccountingImpliesCover ==
  ASSUME NEW s \in Callers, TypeOK, AccountingInv(s)
  PROVE  WakeupsCoverTasks /\ NoTaskLeftBehind
<1>1. Cardinality(Starting) = Owed(s)
  <2>1. Starting = IF cpc[s] \in StartLabels THEN {s} ELSE {}
    BY DEF Starting, AccountingInv, OneStarter, StartLabels
  <2>. QED
    BY <2>1, FS_EmptySet, FS_Singleton DEF Owed
<1>2. WakeupsCoverTasks
  BY <1>1 DEF AccountingInv, WakeupsCoverTasks, Due
<1>3. ASSUME Asleep, NoCallInProgress PROVE Queued = {}
  <2>1. Owed(s) = 0 /\ Due = 0 /\ startRequests = 0
    BY <1>3 DEF Asleep, NoCallInProgress, Owed, Due, StartLabels
  <2>2. Len(enqueuedTasks) <= 0
    BY <2>1 DEF AccountingInv
  <2>3. enqueuedTasks = <<>>
    BY <2>2, EmptySeq, LenProperties DEF TypeOK, QueuesOK
  <2>. QED
    BY <2>3 DEF Queued, Range, AccountingInv, NeverInterrupted
<1>. QED
  BY <1>2, <1>3 DEF NoTaskLeftBehind

(* A scheduler that one thread feeds and nobody aborts or quits never      *)
(* sleeps on a task it accepted: startTask() posts its request after it    *)
(* enqueues, and run() resets the counter only before it looks at the      *)
(* queue.                                                                  *)
THEOREM NoTaskIsLeftBehind ==
  ASSUME Behaviour = "ProcessInOrder", Aborters = {}, Quitters = {},
         NEW s \in Callers, Starters = {s}
  PROVE  Spec => [](WakeupsCoverTasks /\ NoTaskLeftBehind)
<1> DEFINE Inv == AccountingInv(s)
<1>1. Init => Inv
  <2> SUFFICES ASSUME Init PROVE Inv
    OBVIOUS
  <2>1. NeverInterrupted
    <3>1. mustQuit = FALSE /\ abortRequested = 0 /\ running = FALSE /\ pc = "off"
          /\ queuedTaskWhileProcessingAbort = <<>>
      BY DEF Init
    <3>. QED
      BY <3>1 DEF NeverInterrupted
  <2>2. OneStarter(s)
    <3>1. \A c \in Callers : cpc[c] = "idle"
      BY DEF Init
    <3>2. cpc[s] # "start_thread"
      BY <3>1
    <3>. QED
      BY <3>1, <3>2 DEF OneStarter
  <2>3. Len(enqueuedTasks) <= startRequests + Owed(s) + Due
    BY DEF Init, Owed, Due, StartLabels
  <2>. QED
    BY <2>1, <2>2, <2>3 DEF AccountingInv
<1>2. ASSUME TypeOK, Inv, RunStep \/ ExecuteOnMainThread PROVE Inv'
  <2>1. UNCHANGED callVars
    BY <1>2 DEF RunStep, ExecuteOnMainThread, PickTask, Activate, Poll,
       LoopOnceReturns, RequestExecutionOnMainThread, MainThreadExecuted,
       ResolveQuit, ResolveAbort, PublishState, StopThread, FinishThread,
       ResetAbort, TakeStartRequest
  <2>2. NeverInterrupted'
    BY <1>2 DEF AccountingInv, NeverInterrupted, quitVars, abortVars, queueVars,
       RunStep, ExecuteOnMainThread, PickTask, PickInOrder, PickMostRecent,
       PickNothing, Activate, Poll, LoopOnceReturns,
       RequestExecutionOnMainThread, MainThreadExecuted, ResolveQuit,
       ResolveAbort, PublishState, StopThread, FinishThread, ResetAbort,
       AbortsLeft, TakeStartRequest, GoTo
  <2>3. OneStarter(s)'
    <3>1. UNCHANGED running
      BY <1>2 DEF AccountingInv, NeverInterrupted, RunStep, ExecuteOnMainThread,
         PickTask, Activate, Poll, LoopOnceReturns,
         RequestExecutionOnMainThread, MainThreadExecuted, ResolveQuit,
         ResolveAbort, PublishState, StopThread, FinishThread, ResetAbort,
         TakeStartRequest
    <3>. QED
      BY <1>2, <2>1, <3>1 DEF AccountingInv, OneStarter, callVars
  <2>4. Len(enqueuedTasks)' <= startRequests' + Owed(s)' + Due'
    <3>0. /\ Len(enqueuedTasks) \in Nat /\ startRequests \in Nat
          /\ Owed(s)' = Owed(s) /\ Owed(s) \in {0, 1} /\ Due' \in {0, 1}
          /\ Due \in {0, 1} /\ Len(enqueuedTasks) <= startRequests + Owed(s) + Due
      BY <1>2, <2>1, LenProperties DEF TypeOK, QueuesOK, FlagsOK, AccountingInv,
         Owed, Due, callVars
    <3>1. CASE PickTask
      <4>1. Len(enqueuedTasks)' = 0 \/ Len(enqueuedTasks)' = Len(enqueuedTasks) - 1
        BY <1>2, <3>1, HeadTailProperties
           DEF TypeOK, QueuesOK, PickTask, PickInOrder, PickMostRecent, PickNothing
      <4>2. Due = 1 /\ startRequests' = startRequests
        BY <3>1 DEF PickTask, Due
      <4>. QED
        BY <3>0, <4>1, <4>2
    <3>2. CASE TakeStartRequest
      <4>1. /\ startRequests' = startRequests - 1 /\ Due' = 1 /\ Due = 0
            /\ UNCHANGED enqueuedTasks
        BY <3>2 DEF TakeStartRequest, RequestsLeft, Due, GoTo, queueVars
      <4>. QED
        BY <3>0, <4>1
    <3>3. CASE ~PickTask /\ ~TakeStartRequest
      <4>1. UNCHANGED <<enqueuedTasks, startRequests>> /\ (Due = 0 \/ Due' = Due)
        <5>1. UNCHANGED startRequests
          BY <1>2, <3>3 DEF RunStep, ExecuteOnMainThread, Activate, Poll,
             LoopOnceReturns, RequestExecutionOnMainThread, MainThreadExecuted,
             ResolveQuit, ResolveAbort, PublishState, StopThread, FinishThread,
             ResetAbort
        <5>2. UNCHANGED enqueuedTasks
          BY <1>2, <3>3 DEF RunStep, ExecuteOnMainThread, Activate, Poll,
             LoopOnceReturns, RequestExecutionOnMainThread, MainThreadExecuted,
             ResolveQuit, ResolveAbort, PublishState, StopThread, FinishThread,
             ResetAbort, queueVars, AccountingInv, NeverInterrupted
        <5>3. Due = 0 \/ Due' = Due
          BY <1>2, <3>3 DEF RunStep, ExecuteOnMainThread, Activate, Poll,
             LoopOnceReturns, RequestExecutionOnMainThread, MainThreadExecuted,
             ResolveQuit, ResolveAbort, PublishState, StopThread, FinishThread,
             ResetAbort, Due
        <5>. QED
          BY <5>1, <5>2, <5>3
      <4>. QED
        BY <3>0, <4>1
    <3>. QED
      BY <3>1, <3>2, <3>3
  <2>. QED
    BY <2>2, <2>3, <2>4 DEF AccountingInv
<1>3. ASSUME TypeOK, Inv, NEW c \in Callers, BeginCall(c) \/ CallStep(c) PROVE Inv'
  <2>1. \/ StartGate(c) \/ CallQuitWait(c) \/ CallAbortWait(c)
        \/ Enqueue(c) \/ StartReadRunning(c) \/ StartThread(c) \/ PostStartRequest(c)
        \/ QuitWaitReadState(c) \/ QuitWaitFlag(c) \/ QuitWaitJoin(c)
        \/ AbortWaitReadState(c)
    BY <1>3 DEF BeginCall, CallStep, CallAbort, CallQuit, AbortReadRunning,
       AbortReadState, AbortRequest, QuitGate, QuitReadState, QuitClear,
       QuitWake, At, AccountingInv, OneStarter, StartLabels
  <2>2. NeverInterrupted'
    BY <1>3, <2>1 DEF AccountingInv, NeverInterrupted, quitVars, abortVars,
       queueVars, threadVars, StartGate, CallQuitWait, CallAbortWait, Enqueue,
       AbortPending, StartReadRunning, StartThread, PostStartRequest,
       QuitWaitReadState, QuitWaitFlag, QuitWaitJoin, AbortWaitReadState
  <2>3. OneStarter(s)'
    <3>1. /\ cpc \in [Callers -> CallLabels] /\ OneStarter(s)
      BY <1>3 DEF TypeOK, CallsOK, AccountingInv
    <3>2. \A d \in Callers \ {c} : cpc'[d] = cpc[d]
      BY <2>1, <3>1 DEF Move, Return, StartGate, CallQuitWait, CallAbortWait,
         Enqueue, StartReadRunning, StartThread, PostStartRequest,
         QuitWaitReadState, QuitWaitFlag, QuitWaitJoin, AbortWaitReadState
    <3>3. \/ cpc'[c] \in {"idle", "quitwait_state", "quitwait_flag",
                         "quitwait_join", "abortwait_state"}
          \/ c = s /\ cpc'[c] \in StartLabels \cup {"start_enqueue"}
      <4>1. CASE StartGate(c) \/ Enqueue(c) \/ StartReadRunning(c)
        BY <1>3, <3>1, <4>1 DEF OneStarter, StartLabels, At, Move, StartGate, Enqueue,
           StartReadRunning
      <4>2. CASE ~(StartGate(c) \/ Enqueue(c) \/ StartReadRunning(c))
        BY <2>1, <3>1, <4>2 DEF Move, Return, CallQuitWait, CallAbortWait,
           StartThread, PostStartRequest, QuitWaitReadState, QuitWaitFlag,
           QuitWaitJoin, AbortWaitReadState
      <4>. QED
        BY <4>1, <4>2
    <3>4. cpc'[s] = "start_thread" => ~running'
      <4>1. CASE c = s
        BY <2>1, <3>1, <4>1 DEF Move, Return, StartGate, CallQuitWait, CallAbortWait,
           Enqueue, StartReadRunning, StartThread, PostStartRequest,
           QuitWaitReadState, QuitWaitFlag, QuitWaitJoin, AbortWaitReadState,
           threadVars
      <4>2. CASE c # s
        <5>1. ~StartThread(c)
          BY <3>1, <4>2 DEF OneStarter, StartThread, At, StartLabels
        <5>2. UNCHANGED running
          BY <2>1, <5>1 DEF StartGate, CallQuitWait, CallAbortWait,
             Enqueue, StartReadRunning, PostStartRequest,
             QuitWaitReadState, QuitWaitFlag, QuitWaitJoin, AbortWaitReadState,
             threadVars
        <5>. QED
          BY <3>1, <3>2, <4>2, <5>2 DEF OneStarter
      <4>. QED
        BY <4>1, <4>2
    <3>. QED
      <4>1. ASSUME NEW d \in Callers
            PROVE \/ cpc'[d] \in {"idle", "quitwait_state", "quitwait_flag",
                                  "quitwait_join", "abortwait_state"}
                  \/ d = s /\ cpc'[d] \in StartLabels \cup {"start_enqueue"}
        <5>1. CASE d = c
          BY <3>3, <5>1
        <5>2. CASE d # c
          BY <3>1, <3>2, <5>2 DEF OneStarter
        <5>. QED
          BY <5>1, <5>2
      <4>. QED
        BY <3>4, <4>1 DEF OneStarter
  <2>4. Len(enqueuedTasks)' <= startRequests' + Owed(s)' + Due'
    <3>0. /\ Len(enqueuedTasks) \in Nat /\ startRequests \in Nat
          /\ Owed(s) \in {0, 1} /\ Due \in {0, 1}
          /\ Owed(s)' \in {0, 1} /\ Due' \in {0, 1}
          /\ Len(enqueuedTasks) <= startRequests + Owed(s) + Due
          /\ cpc \in [Callers -> CallLabels]
      BY <1>3, LenProperties DEF TypeOK, QueuesOK, FlagsOK, CallsOK,
         AccountingInv, Owed, Due
    <3>1. CASE Enqueue(c)
      <4>1. c = s
        BY <1>3, <3>1 DEF AccountingInv, OneStarter, Enqueue, At
      <4>2. Owed(s) = 0 /\ Owed(s)' = 1 /\ UNCHANGED <<startRequests, pc>>
        BY <3>0, <3>1, <4>1 DEF Enqueue, At, Move, Owed, StartLabels, threadVars
      <4>3. Len(enqueuedTasks)' \in {Len(enqueuedTasks), Len(enqueuedTasks) + 1}
        BY <1>3, <3>1, AppendProperties DEF Enqueue, TypeOK, QueuesOK
      <4>. QED
        BY <3>0, <4>2, <4>3 DEF Due
    <3>2. CASE StartThread(c)
      <4>1. c = s /\ ~running
        BY <1>3, <3>2 DEF AccountingInv, OneStarter, StartThread, At, StartLabels
      <4>2. /\ Owed(s) = 1 /\ Owed(s)' = 0 /\ Due' = 1 /\ Due = 0
            /\ UNCHANGED <<startRequests, enqueuedTasks>>
        BY <1>3, <3>0, <3>2, <4>1 DEF StartThread, At, Return, Owed, Due,
           StartLabels, queueVars, AccountingInv, NeverInterrupted
      <4>. QED
        BY <3>0, <4>2
    <3>3. CASE PostStartRequest(c)
      <4>1. /\ startRequests' = startRequests + 1
            /\ UNCHANGED <<enqueuedTasks, pc>>
        BY <3>3 DEF PostStartRequest, MoreRequests, queueVars, threadVars
      <4>2. Due' = Due
        BY <4>1 DEF Due
      <4>. QED
        BY <3>0, <4>1, <4>2
    <3>4. CASE ~Enqueue(c) /\ ~StartThread(c) /\ ~PostStartRequest(c)
      <4>1. UNCHANGED <<startRequests, enqueuedTasks, pc>>
        BY <2>1, <3>4 DEF StartGate, CallQuitWait, CallAbortWait,
           StartReadRunning, QuitWaitReadState, QuitWaitFlag, QuitWaitJoin,
           AbortWaitReadState, queueVars, threadVars
      <4>2. Owed(s) = 1 => Owed(s)' = 1
        BY <2>1, <3>0, <3>4 DEF Owed, StartLabels, At, Move, Return, StartGate,
           CallQuitWait, CallAbortWait, StartReadRunning, QuitWaitReadState,
           QuitWaitFlag, QuitWaitJoin, AbortWaitReadState
      <4>. QED
        BY <3>0, <4>1, <4>2 DEF Due
    <3>. QED
      BY <3>1, <3>2, <3>3, <3>4
  <2>. QED
    BY <2>2, <2>3, <2>4 DEF AccountingInv
<1>4. ASSUME Inv, UNCHANGED vars PROVE Inv'
  BY <1>4 DEF AccountingInv, NeverInterrupted, OneStarter, Owed, Due, vars,
     quitVars, abortVars, queueVars, threadVars, callVars
<1>5. TypeOK /\ Inv /\ [Next]_vars => Inv'
  BY <1>2, <1>3, <1>4 DEF Next
<1>6. TypeOK /\ Inv => WakeupsCoverTasks /\ NoTaskLeftBehind
  BY AccountingImpliesCover
<1>. QED
  BY <1>1, <1>5, <1>6, TypeCorrect, PTL DEF Spec

-----------------------------------------------------------------------------
(* Quitting and calling back                                               *)

(* What follows holds whatever tasksQueueBehaviour() is: it looks at the   *)
(* labels and the flags only, never at the queues.                         *)
LabelsOK == cpc \in [Callers -> CallLabels]

StartCall == {"start_enqueue", "start_running", "start_thread", "start_wake"}

(* Each step of a client moves that client, and no other.                  *)
LEMMA ClientMoves ==
  ASSUME LabelsOK, NEW c \in Callers, BeginCall(c) \/ CallStep(c)
  PROVE  \E l \in CallLabels : cpc' = [cpc EXCEPT ![c] = l]
<1> USE DEF Move, Return, AbortReturns, CallLabels
<1>1. CASE BeginCall(c)
  BY <1>1 DEF BeginCall, StartGate, CallAbort, CallQuit, CallQuitWait, CallAbortWait
<1>2. CASE Enqueue(c) \/ StartReadRunning(c) \/ StartThread(c) \/ PostStartRequest(c)
  BY <1>2 DEF Enqueue, StartReadRunning, StartThread, PostStartRequest
<1>3. CASE AbortReadRunning(c) \/ AbortReadState(c) \/ AbortRequest(c)
  BY <1>3 DEF AbortReadRunning, AbortReadState, AbortRequest
<1>4. CASE QuitGate(c) \/ QuitReadState(c) \/ QuitClear(c) \/ QuitWake(c)
  BY <1>4 DEF QuitGate, QuitReadState, QuitClear, QuitWake
<1>5. CASE \/ QuitWaitReadState(c) \/ QuitWaitFlag(c) \/ QuitWaitJoin(c)
           \/ AbortWaitReadState(c)
  BY <1>5 DEF QuitWaitReadState, QuitWaitFlag, QuitWaitJoin, AbortWaitReadState
<1>. QED
  BY <1>1, <1>2, <1>3, <1>4, <1>5 DEF CallStep

(* The thread moves no client.                                             *)
LEMMA ThreadMovesNobody ==
  ASSUME RunStep \/ ExecuteOnMainThread
  PROVE  UNCHANGED <<callVars, lastQuitThreadAllowedRestart, boundVars>>
BY DEF RunStep, ExecuteOnMainThread, PickTask, Activate, Poll, LoopOnceReturns,
   RequestExecutionOnMainThread, MainThreadExecuted, ResolveQuit, ResolveAbort,
   PublishState, StopThread, FinishThread, ResetAbort, TakeStartRequest, quitVars

(* A client moves the thread only by starting it.                          *)
LEMMA ClientStartsThread ==
  ASSUME NEW c \in Callers, BeginCall(c) \/ CallStep(c)
  PROVE  \/ UNCHANGED threadVars
         \/ /\ StartThread(c) /\ running' = TRUE
            /\ pc' = IF running THEN pc ELSE "pick"
            /\ UNCHANGED <<threadState, executingOnMainThread, state>>
BY DEF BeginCall, CallStep, StartGate, CallAbort, CallQuit, CallQuitWait, CallAbortWait,
   Enqueue, StartReadRunning, StartThread, PostStartRequest, AbortReadRunning,
   AbortReadState, AbortRequest, QuitGate, QuitReadState, QuitClear, QuitWake,
   QuitWaitReadState, QuitWaitFlag, QuitWaitJoin, AbortWaitReadState

(* ... and the quit flags only by passing the gate of quitThread().        *)
LEMMA ClientAsksToQuit ==
  ASSUME NEW c \in Callers, BeginCall(c) \/ CallStep(c)
  PROVE  UNCHANGED quitVars \/ QuitGate(c)
BY DEF BeginCall, CallStep, StartGate, CallAbort, CallQuit, CallQuitWait, CallAbortWait,
   Enqueue, StartReadRunning, StartThread, PostStartRequest, AbortReadRunning,
   AbortReadState, AbortRequest, QuitReadState, QuitClear, QuitWake,
   QuitWaitReadState, QuitWaitFlag, QuitWaitJoin, AbortWaitReadState

(* The labels of the clients are theirs.                                   *)
LEMMA LabelsCorrect == Spec => []LabelsOK
<1>1. Init => LabelsOK
  BY DEF Init, LabelsOK, CallLabels
<1>2. LabelsOK /\ [Next]_vars => LabelsOK'
  <2>1. ASSUME LabelsOK, NEW c \in Callers, BeginCall(c) \/ CallStep(c) PROVE LabelsOK'
    <3>1. PICK l \in CallLabels : cpc' = [cpc EXCEPT ![c] = l]
      BY <2>1, ClientMoves
    <3>. QED
      BY <2>1, <3>1 DEF LabelsOK
  <2>2. ASSUME LabelsOK, RunStep \/ ExecuteOnMainThread PROVE LabelsOK'
    BY <2>2, ThreadMovesNobody DEF LabelsOK, callVars
  <2>3. ASSUME LabelsOK, UNCHANGED vars PROVE LabelsOK'
    BY <2>3 DEF LabelsOK, vars, callVars
  <2>. QED
    BY <2>1, <2>2, <2>3 DEF Next
<1>. QED
  BY <1>1, <1>2, PTL DEF Spec

(* QThread::isRunning() is true exactly while run() is on, and the state   *)
(* is Active from the activation to the end of the resolution.             *)
RunIsSound ==
    /\ running <=> pc # "off"
    /\ pc \in {"work", "mainwait", "resolveQuit", "resolveAbort"}
         => threadState = "Active"
    /\ executingOnMainThread => pc = "mainwait"

(* ... whoever starts, aborts and quits the thread.                        *)
LEMMA RunCorrect == Spec => []RunIsSound
<1>1. Init => RunIsSound
  BY DEF Init, RunIsSound
<1>2. RunIsSound /\ [Next]_vars => RunIsSound'
  <2> USE DEF RunIsSound, GoTo, threadVars
  <2>1. ASSUME RunIsSound, RunStep PROVE RunIsSound'
    BY <2>1 DEF RunStep, PickTask, Activate, Poll, LoopOnceReturns,
       RequestExecutionOnMainThread, MainThreadExecuted, MainThreadAnswered,
       ResolveQuit, ResolveAbort, PublishState, StopThread, FinishThread, ResetAbort,
       TakeStartRequest
  <2>2. ASSUME RunIsSound, ExecuteOnMainThread PROVE RunIsSound'
    BY <2>2 DEF ExecuteOnMainThread
  <2>3. ASSUME RunIsSound, NEW c \in Callers, BeginCall(c) \/ CallStep(c)
        PROVE  RunIsSound'
    BY <2>3, ClientStartsThread
  <2>4. ASSUME RunIsSound, UNCHANGED vars PROVE RunIsSound'
    BY <2>4 DEF vars
  <2>. QED
    BY <2>1, <2>2, <2>3, <2>4 DEF Next
<1>. QED
  BY <1>1, <1>2, PTL DEF Spec

(* MainThreadCallbackIsSound: the three assertions of                      *)
(* requestExecutionOnMainThread() hold, whoever starts, aborts and quits.  *)
THEOREM CallbackIsSound == Spec => []MainThreadCallbackIsSound
<1>1. RunIsSound => MainThreadCallbackIsSound
  BY DEF RunIsSound, MainThreadCallbackIsSound
<1>. QED
  BY <1>1, RunCorrect, PTL

(* After a quit that disallows restarts: the gate of startTask() is shut,  *)
(* no client is past it, and the thread that saw the request leaves.       *)
FinalQuitInv ==
    /\ running <=> pc # "off"
    /\ \A c \in Callers :
         /\ cpc[c] \in StartCall => c \in Starters /\ lastQuitThreadAllowedRestart
         /\ cpc[c] = "quit_gate" => c \in Quitters
    /\ startingThreadAllowed => lastQuitThreadAllowedRestart
    /\ ~lastQuitThreadAllowedRestart /\ ~mustQuit =>
         /\ pc \in {"resolveAbort", "publish", "stop", "finish", "off"}
         /\ pc \in {"resolveAbort", "publish"} => state = "Stopped"

(* FinalQuitIsFinal, when the client that quits the thread is the one that *)
(* starts it: it is not past the gate of startTask() when it quits.        *)
THEOREM FinalQuit ==
  ASSUME NEW s \in Callers, Starters \cup Quitters \subseteq {s}
  PROVE  Spec => []FinalQuitIsFinal
<1>1. Init => FinalQuitInv
  BY DEF Init, FinalQuitInv, StartCall
<1>2. LabelsOK /\ FinalQuitInv /\ [Next]_vars => FinalQuitInv'
  <2> USE DEF FinalQuitInv
  <2>1. ASSUME FinalQuitInv, RunStep \/ ExecuteOnMainThread PROVE FinalQuitInv'
    <3>1. UNCHANGED <<cpc, lastQuitThreadAllowedRestart>>
      BY <2>1, ThreadMovesNobody DEF callVars
    <3>2. /\ running' <=> pc' # "off"
          /\ startingThreadAllowed' => lastQuitThreadAllowedRestart
          /\ ~lastQuitThreadAllowedRestart /\ ~mustQuit' =>
               /\ pc' \in {"resolveAbort", "publish", "stop", "finish", "off"}
               /\ pc' \in {"resolveAbort", "publish"} => state' = "Stopped"
      BY <2>1 DEF RunStep, ExecuteOnMainThread, PickTask, Activate, Poll, LoopOnceReturns,
         RequestExecutionOnMainThread, MainThreadExecuted, ResolveQuit, AllowedAfterQuit,
         ResolveAbort, PublishState, StopThread, FinishThread, ResetAbort,
         TakeStartRequest, GoTo, quitVars
    <3>. QED
      BY <2>1, <3>1, <3>2
  <2>2. ASSUME LabelsOK, FinalQuitInv, NEW c \in Callers, BeginCall(c) \/ CallStep(c)
        PROVE  FinalQuitInv'
    <3>1. PICK l \in CallLabels : cpc' = [cpc EXCEPT ![c] = l]
      BY <2>2, ClientMoves
    <3>2. cpc'[c] = l /\ \A d \in Callers \ {c} : cpc'[d] = cpc[d]
      BY <2>2, <3>1 DEF LabelsOK
    <3>3. l = "quit_gate" => c \in Quitters
      BY <2>2, <3>2 DEF LabelsOK, BeginCall, CallStep, StartGate, CallAbort, CallQuit,
         CallQuitWait, CallAbortWait, Enqueue, StartReadRunning, StartThread,
         PostStartRequest, AbortReadRunning, AbortReadState, AbortRequest, QuitGate,
         QuitReadState, QuitClear, QuitWake, QuitWaitReadState, QuitWaitFlag,
         QuitWaitJoin, AbortWaitReadState, AbortReturns, Move, Return
    <3>4. l \in StartCall => c \in Starters /\ lastQuitThreadAllowedRestart
      BY <2>2, <3>2, ZenonT(30) DEF LabelsOK, BeginCall, CallStep, StartGate, CallAbort, CallQuit,
         CallQuitWait, CallAbortWait, Enqueue, StartReadRunning, StartThread,
         PostStartRequest, AbortReadRunning, AbortReadState, AbortRequest, QuitGate,
         QuitReadState, QuitClear, QuitWake, QuitWaitReadState, QuitWaitFlag,
         QuitWaitJoin, AbortWaitReadState, AbortReturns, Move, Return, At, StartCall
    <3>5. CASE QuitGate(c)
      <4>1. c = s /\ cpc[c] = "quit_gate" /\ l \notin StartCall \cup {"quit_gate"}
        BY <2>2, <3>2, <3>5 DEF QuitGate, At, Move, Return, LabelsOK, StartCall
      <4>2. \A d \in Callers : cpc'[d] \notin StartCall
        BY <2>2, <3>2, <4>1 DEF StartCall
      <4>3. UNCHANGED threadVars
        BY <3>5 DEF QuitGate
      <4>4. \/ UNCHANGED quitVars
            \/ mustQuit' = TRUE /\ startingThreadAllowed' = FALSE
        BY <3>5 DEF QuitGate
      <4>. QED
        BY <2>2, <3>2, <3>3, <4>2, <4>3, <4>4 DEF threadVars, quitVars
    <3>6. CASE ~QuitGate(c)
      <4>1. UNCHANGED quitVars
        BY <2>2, <3>6, ClientAsksToQuit
      <4>2. UNCHANGED threadVars \/ (lastQuitThreadAllowedRestart /\ running' = TRUE
                                       /\ pc' = IF running THEN pc ELSE "pick")
        <5>1. CASE StartThread(c)
          BY <2>2, <5>1, ClientStartsThread DEF StartThread, At, StartCall
        <5>2. CASE ~StartThread(c)
          BY <2>2, <5>2, ClientStartsThread
        <5>. QED
          BY <5>1, <5>2
      <4>. QED
        BY <2>2, <3>2, <3>3, <3>4, <4>1, <4>2 DEF threadVars, quitVars
    <3>. QED
      BY <3>5, <3>6
  <2>3. ASSUME FinalQuitInv, UNCHANGED vars PROVE FinalQuitInv'
    BY <2>3 DEF vars, quitVars, threadVars, callVars
  <2>. QED
    BY <2>1, <2>2, <2>3 DEF Next
<1>3. FinalQuitInv => FinalQuitIsFinal
  BY DEF FinalQuitInv, FinalQuitIsFinal
<1>. QED
  BY <1>1, <1>2, <1>3, LabelsCorrect, PTL DEF Spec

(* With one quit: until it passes its gate the thread does not leave; when *)
(* it has passed, the thread has yet to see it, or has seen it.            *)
NotLeaving ==
    /\ pc \notin {"stop", "finish"}
    /\ pc \in {"resolveAbort", "publish"} => state # "Stopped"

AtQuitGate == \E c \in Callers : cpc[c] = "quit_gate"

OneQuitInv ==
    /\ quits = 0 \/ AtQuitGate =>
         /\ ~mustQuit /\ startingThreadAllowed /\ lastQuitThreadAllowedRestart
         /\ NotLeaving
    /\ AtQuitGate => running /\ quits # 0
    /\ \A c, d \in Callers : cpc[c] = "quit_gate" /\ cpc[d] = "quit_gate" => c = d
    /\ mustQuit => running /\ NotLeaving
    /\ lastQuitThreadAllowedRestart /\ ~mustQuit => startingThreadAllowed
    /\ quits \in Nat

(* RestartAllowedAfterQuit, when the thread is quit at most once: a quit   *)
(* that allows restarts leaves the gate of startTask() open.  (A second    *)
(* quit may come when the thread is leaving, and nothing reads its flag.)  *)
THEOREM RestartAllowed ==
  ASSUME MaxQuits <= 1
  PROVE  Spec => []RestartAllowedAfterQuit
<1>1. Init => OneQuitInv
  BY DEF Init, OneQuitInv, AtQuitGate, NotLeaving
<1>2. LabelsOK /\ OneQuitInv /\ [Next]_vars => OneQuitInv'
  <2> USE DEF OneQuitInv, AtQuitGate, NotLeaving
  <2>1. ASSUME OneQuitInv, RunStep \/ ExecuteOnMainThread PROVE OneQuitInv'
    <3>1. UNCHANGED <<cpc, quits, lastQuitThreadAllowedRestart>>
      BY <2>1, ThreadMovesNobody DEF callVars, boundVars
    <3>2. CASE PickTask \/ Activate \/ Poll \/ LoopOnceReturns
                 \/ RequestExecutionOnMainThread \/ MainThreadExecuted
                 \/ ResetAbort \/ TakeStartRequest \/ ExecuteOnMainThread
      <4>1. /\ UNCHANGED <<quitVars, running>>
            /\ \/ pc' \notin {"stop", "finish", "resolveAbort", "publish"}
               \/ UNCHANGED <<pc, state>>
        BY <3>2 DEF PickTask, Activate, Poll, LoopOnceReturns, GoTo,
           RequestExecutionOnMainThread, MainThreadExecuted, ResetAbort,
           TakeStartRequest, ExecuteOnMainThread
      <4>. QED
        BY <2>1, <3>1, <4>1 DEF quitVars
    <3>3. CASE ResolveQuit
      BY <2>1, <3>1, <3>3 DEF ResolveQuit, AllowedAfterQuit, GoTo
    <3>4. CASE ResolveAbort \/ PublishState \/ StopThread \/ FinishThread
      BY <2>1, <3>1, <3>4 DEF ResolveAbort, PublishState, StopThread, FinishThread,
         GoTo, quitVars
    <3>. QED
      BY <2>1, <3>2, <3>3, <3>4 DEF RunStep
  <2>2. ASSUME LabelsOK, OneQuitInv, NEW c \in Callers, BeginCall(c) \/ CallStep(c)
        PROVE  OneQuitInv'
    <3>1. PICK l \in CallLabels : cpc' = [cpc EXCEPT ![c] = l]
      BY <2>2, ClientMoves
    <3>2. cpc'[c] = l /\ \A d \in Callers \ {c} : cpc'[d] = cpc[d]
      BY <2>2, <3>1 DEF LabelsOK
    <3>3. CASE CallQuit(c)
      <4>1. quits = 0 /\ quits' = 1 /\ running /\ l = "quit_gate"
        BY <2>2, <3>2, <3>3 DEF CallQuit, Move, LabelsOK
      <4>2. UNCHANGED <<quitVars, threadVars>>
        BY <3>3 DEF CallQuit
      <4>. QED
        BY <2>2, <3>2, <4>1, <4>2 DEF quitVars, threadVars
    <3>4. CASE QuitGate(c)
      <4>1. cpc[c] = "quit_gate" /\ l # "quit_gate"
        BY <2>2, <3>2, <3>4 DEF QuitGate, At, Move, Return, LabelsOK
      <4>2. ~ AtQuitGate'
        BY <2>2, <3>2, <4>1
      <4>3. UNCHANGED <<threadVars, quits>> /\ mustQuit' = TRUE
        BY <2>2, <3>4, <4>1 DEF QuitGate, boundVars
      <4>. QED
        BY <2>2, <4>1, <4>2, <4>3 DEF threadVars
    <3>5. CASE ~CallQuit(c) /\ ~QuitGate(c)
      <4>1. UNCHANGED quitVars
        BY <2>2, <3>5, ClientAsksToQuit
      <4>2. UNCHANGED quits
        BY <2>2, <3>5 DEF boundVars, BeginCall, CallStep, StartGate, CallAbort,
           CallQuitWait, CallAbortWait, Enqueue, StartReadRunning, StartThread,
           PostStartRequest, AbortReadRunning, AbortReadState, AbortRequest,
           QuitReadState, QuitClear, QuitWake, QuitWaitReadState, QuitWaitFlag,
           QuitWaitJoin, AbortWaitReadState
      <4>3. l # "quit_gate"
        BY <2>2, <3>2, <3>5 DEF LabelsOK, BeginCall, CallStep, StartGate, CallAbort,
           CallQuitWait, CallAbortWait, Enqueue, StartReadRunning, StartThread,
           PostStartRequest, AbortReadRunning, AbortReadState, AbortRequest,
           QuitReadState, QuitClear, QuitWake, QuitWaitReadState, QuitWaitFlag,
           QuitWaitJoin, AbortWaitReadState, AbortReturns, Move, Return
      <4>4. UNCHANGED threadVars \/ (running' = TRUE /\ UNCHANGED state
                                       /\ pc' = IF running THEN pc ELSE "pick")
        BY <2>2, ClientStartsThread
      <4>. QED
        BY <2>2, <3>2, <4>1, <4>2, <4>3, <4>4 DEF quitVars, threadVars
    <3>. QED
      BY <3>3, <3>4, <3>5
  <2>3. ASSUME OneQuitInv, UNCHANGED vars PROVE OneQuitInv'
    BY <2>3 DEF vars, quitVars, threadVars, callVars, boundVars
  <2>. QED
    BY <2>1, <2>2, <2>3 DEF Next
<1>3. OneQuitInv => RestartAllowedAfterQuit
  BY DEF OneQuitInv, RestartAllowedAfterQuit
<1>. QED
  BY <1>1, <1>2, <1>3, LabelsCorrect, PTL DEF Spec

(* QuitIsRemembered: both halves, for one client that starts and quits.    *)
THEOREM QuitRemembered ==
  ASSUME NEW s \in Callers, Starters \cup Quitters \subseteq {s}, MaxQuits <= 1
  PROVE  Spec => []QuitIsRemembered
<1>1. FinalQuitIsFinal /\ RestartAllowedAfterQuit => QuitIsRemembered
  BY DEF QuitIsRemembered
<1>. QED
  BY <1>1, FinalQuit, RestartAllowed, PTL

-----------------------------------------------------------------------------
(* Aborting                                                                *)

(* Of the steps of the thread, three move a task, and one ends an abort.   *)
LEMMA ThreadTouchesTasks ==
  ASSUME RunStep \/ ExecuteOnMainThread
  PROVE  /\ UNCHANGED <<posted, abortMark>>
         /\ \/ PickTask \/ Activate \/ ResetAbort
            \/ UNCHANGED <<queueVars, handled>>
         /\ UNCHANGED abortRequested \/ ResetAbort
BY DEF RunStep, ExecuteOnMainThread, PickTask, Activate, Poll, LoopOnceReturns,
   RequestExecutionOnMainThread, MainThreadExecuted, ResolveQuit, ResolveAbort,
   PublishState, StopThread, FinishThread, ResetAbort, TakeStartRequest, abortVars,
   queueVars

(* Of those of a client, two move a task, and one asks for an abort.       *)
LEMMA ClientTouchesTasks ==
  ASSUME NEW c \in Callers, BeginCall(c) \/ CallStep(c)
  PROVE  /\ UNCHANGED handled
         /\ UNCHANGED queueVars \/ Enqueue(c) \/ QuitClear(c)
         /\ UNCHANGED abortVars \/ AbortRequest(c)
         /\ UNCHANGED <<args, state>>
BY DEF BeginCall, CallStep, StartGate, CallAbort, CallQuit, CallQuitWait, CallAbortWait,
   Enqueue, StartReadRunning, StartThread, PostStartRequest, AbortReadRunning,
   AbortReadState, AbortRequest, QuitGate, QuitReadState, QuitClear, QuitWake,
   QuitWaitReadState, QuitWaitFlag, QuitWaitJoin, AbortWaitReadState, threadVars,
   queueVars, abortVars

(* What appending to a sequence adds to its elements, and what taking its  *)
(* head removes.                                                           *)
LEMMA RangeOfAppend ==
  ASSUME NEW S, NEW q \in Seq(S), NEW x \in S
  PROVE  Range(Append(q, x)) = Range(q) \cup {x}
<1>1. /\ DOMAIN q = 1..Len(q) /\ Len(q) \in Nat
      /\ DOMAIN Append(q, x) = 1..(Len(q) + 1)
      /\ Append(q, x)[Len(q) + 1] = x
      /\ \A i \in 1..Len(q) : Append(q, x)[i] = q[i]
  BY AppendProperties, LenProperties
<1>. QED
  BY <1>1 DEF Range

(* What taking the head of a queue leaves was in the queue.                *)
LEMMA RangeOfTail ==
  ASSUME NEW S, NEW q \in Seq(S), q # <<>>
  PROVE  Range(Tail(q)) \subseteq Range(q)
<1>1. /\ Len(q) \in Nat \ {0} /\ DOMAIN q = 1..Len(q)
      /\ DOMAIN Tail(q) = 1..(Len(q) - 1)
      /\ \A i \in 1..(Len(q) - 1) : Tail(q)[i] = q[i + 1]
  BY HeadTailProperties, LenProperties, EmptySeq
<1>. QED
  BY <1>1 DEF Range

(* While an abort is pending startTask() fills the other queue, so that    *)
(* the queue the abort will clear holds what was posted before it.         *)
OlderThanAbort(t) == \E i \in 1..abortMark : posted[i] = t

AbortInv ==
    /\ abortRequested > 0 =>
         /\ abortMark <= Len(posted)
         /\ \A t \in Range(enqueuedTasks) \cap Tasks : OlderThanAbort(t)
    /\ pc \in {"resolveAbort", "publish", "reset"} /\ state = "Aborted"
         => abortRequested > 0

(* AbortDropsOnlyOlderTasks: an aborted loop clears "the task that were    *)
(* requested prior to the abort", whoever starts tasks and aborts them     *)
(* meanwhile.  (With SkipToMostRecent it clears none.)                     *)
THEOREM AbortDropsOlder == Spec => AbortDropsOnlyOlderTasks
<1>1. ASSUME Behaviour = "ProcessInOrder" PROVE Spec => AbortDropsOnlyOlderTasks
  <2>1. Init => AbortInv
    BY DEF Init, AbortInv
  <2>2. ASSUME TypeOK, PlacementInv, AbortInv, RunStep \/ ExecuteOnMainThread
        PROVE  AbortInv'
    <3>0. enqueuedTasks \in Seq(Tasks \cup {Stub})
      BY <2>2 DEF TypeOK, QueuesOK
    <3>1. CASE ResetAbort
      BY <2>2, <3>1 DEF AbortInv, ResetAbort, AbortsLeft, GoTo
    <3>2. CASE ~ResetAbort
      <4>1. UNCHANGED <<posted, abortMark, abortRequested>>
        BY <2>2, <3>2, ThreadTouchesTasks
      <4>2. Range(enqueuedTasks') \subseteq Range(enqueuedTasks)
        <5>1. CASE PickTask
          BY <1>1, <3>0, <5>1, RangeOfTail
             DEF PickTask, PickInOrder, PickNothing, PickMostRecent
        <5>2. CASE ~PickTask
          BY <2>2, <3>2, <5>2, ThreadTouchesTasks DEF Activate, queueVars
        <5>. QED
          BY <5>1, <5>2
      <4>3. pc' \in {"resolveAbort", "publish", "reset"} /\ state' = "Aborted"
              => abortRequested > 0
        BY <2>2, <3>2 DEF AbortInv, RunStep, ExecuteOnMainThread, PickTask, Activate, Poll,
           LoopOnceReturns, RequestExecutionOnMainThread, MainThreadExecuted,
           ResolveQuit, ResolveAbort, PublishState, StopThread, FinishThread,
           TakeStartRequest, GoTo
      <4>. QED
        BY <2>2, <4>1, <4>2, <4>3 DEF AbortInv, OlderThanAbort
    <3>. QED
      BY <3>1, <3>2
  <2>3. ASSUME TypeOK, PlacementInv, AbortInv, NEW c \in Callers,
               BeginCall(c) \/ CallStep(c)
        PROVE  AbortInv'
    <3>0. /\ enqueuedTasks \in Seq(Tasks \cup {Stub}) /\ posted \in Seq(Tasks)
          /\ abortRequested \in Nat /\ abortMark \in Nat
          /\ Len(posted) \in Nat /\ DOMAIN posted = 1..Len(posted)
      BY <2>3, LenProperties DEF TypeOK, QueuesOK, FlagsOK
    <3>1. pc' \in {"resolveAbort", "publish", "reset"} /\ state' = "Aborted"
             => pc \in {"resolveAbort", "publish", "reset"} /\ state = "Aborted"
      BY <2>3, ClientStartsThread DEF threadVars
    <3>2. CASE Enqueue(c)
      <4>1. PICK t \in Tasks :
              /\ posted' = Append(posted, t)
              /\ IF AbortPending THEN UNCHANGED enqueuedTasks
                                 ELSE enqueuedTasks' = Append(enqueuedTasks, t)
        BY <3>2 DEF Enqueue
      <4>2. UNCHANGED abortVars
        BY <3>2 DEF Enqueue
      <4>3. Len(posted') = Len(posted) + 1 /\ \A i \in 1..Len(posted) : posted'[i] = posted[i]
        BY <3>0, <4>1, AppendProperties
      <4>4. abortRequested > 0 => UNCHANGED enqueuedTasks
        BY <4>1 DEF AbortPending
      <4>. QED
        BY <2>3, <3>0, <3>1, <4>2, <4>3, <4>4 DEF AbortInv, abortVars, OlderThanAbort
    <3>3. CASE QuitClear(c)
      <4>1. enqueuedTasks' = <<Stub>> /\ UNCHANGED <<abortVars, posted>>
        BY <3>3 DEF QuitClear
      <4>2. Range(enqueuedTasks') \cap Tasks = {}
        BY <4>1 DEF Range
      <4>. QED
        BY <2>3, <3>1, <4>1, <4>2 DEF AbortInv, abortVars
    <3>4. CASE AbortRequest(c)
      <4>1. UNCHANGED queueVars
        BY <3>4 DEF AbortRequest
      <4>2. \/ UNCHANGED abortVars
            \/ /\ abortRequested' = abortRequested + 1
               /\ abortMark' = IF abortRequested = 0 THEN Len(posted) ELSE abortMark
        BY <3>4 DEF AbortRequest
      <4>3. \A t \in Range(enqueuedTasks) \cap Tasks : \E i \in 1..Len(posted) : posted[i] = t
        BY <2>3, <3>0 DEF PlacementInv, QueuesAreDisjoint, Queued, Range
      <4>. QED
        BY <2>3, <3>0, <3>1, <4>1, <4>2, <4>3 DEF AbortInv, abortVars, queueVars, OlderThanAbort
    <3>5. CASE UNCHANGED <<queueVars, abortVars>>
      BY <2>3, <3>1, <3>5 DEF AbortInv, abortVars, queueVars, OlderThanAbort
    <3>. QED
      <4>1. UNCHANGED queueVars \/ Enqueue(c) \/ QuitClear(c)
        BY <2>3, ClientTouchesTasks
      <4>2. UNCHANGED abortVars \/ AbortRequest(c)
        BY <2>3, ClientTouchesTasks
      <4>. QED
        BY <3>2, <3>3, <3>4, <3>5, <4>1, <4>2
  <2>4. ASSUME AbortInv, UNCHANGED vars PROVE AbortInv'
    BY <2>4 DEF AbortInv, OlderThanAbort, vars, abortVars, queueVars, threadVars
  <2>5. TypeOK /\ PlacementInv /\ AbortInv /\ [Next]_vars => AbortInv'
    BY <2>2, <2>3, <2>4 DEF Next
  <2>6. ASSUME AbortInv, Next, pc = "reset", pc' = "sleep"
        PROVE  \A t \in dropped' \ dropped : OlderThanAbort(t)
    <3>1. ResetAbort
      BY <2>6, ClientStartsThread DEF Next, RunStep, ExecuteOnMainThread, PickTask,
         Activate, Poll, LoopOnceReturns, RequestExecutionOnMainThread,
         MainThreadExecuted, ResolveQuit, ResolveAbort, PublishState, StopThread,
         FinishThread, TakeStartRequest, GoTo, threadVars
    <3>. QED
      BY <2>6, <3>1 DEF ResetAbort, AbortInv
  <2>7. AbortInv /\ [Next]_vars =>
          [pc = "reset" /\ pc' = "sleep" =>
             \A t \in dropped' \ dropped : \E i \in 1..abortMark : posted[i] = t]_vars
    BY <2>6 DEF OlderThanAbort
  <2>. QED
    BY <1>1, <2>1, <2>5, <2>7, TypeCorrect, PlacementInvariant, PTL
       DEF Spec, AbortDropsOnlyOlderTasks
<1>2. ASSUME Behaviour # "ProcessInOrder" PROVE Spec => AbortDropsOnlyOlderTasks
  <2>1. ASSUME Next, pc = "reset", pc' = "sleep" PROVE dropped' = dropped
    <3>1. ResetAbort
      BY <2>1, ClientStartsThread DEF Next, RunStep, ExecuteOnMainThread, PickTask,
         Activate, Poll, LoopOnceReturns, RequestExecutionOnMainThread,
         MainThreadExecuted, ResolveQuit, ResolveAbort, PublishState, StopThread,
         FinishThread, TakeStartRequest, GoTo, threadVars
    <3>. QED
      BY <1>2, <3>1 DEF ResetAbort, KeptAfterAbort
  <2>2. [Next]_vars =>
          [pc = "reset" /\ pc' = "sleep" =>
             \A t \in dropped' \ dropped : \E i \in 1..abortMark : posted[i] = t]_vars
    BY <2>1
  <2>. QED
    BY <2>2, PTL DEF Spec, AbortDropsOnlyOlderTasks
<1>. QED
  BY <1>1, <1>2

-----------------------------------------------------------------------------
(* What the client of startTask() sees                                     *)

(* As long as nobody aborts or quits the thread, what startTask() took is  *)
(* what was handled, then the task just picked, then the queue.            *)
Taken == IF pc = "activate" /\ args \in Tasks THEN <<args>> ELSE <<>>

Interruptions == {"abort_running", "abort_state", "abort_request",
                  "quit_gate", "quit_state", "quit_clear", "quit_wake"}

OrderInv ==
    /\ enqueuedTasks \in Seq(Tasks)
    /\ posted = (handled \o Taken) \o enqueuedTasks
    /\ abortRequested = 0
    /\ pc \in {"resolveAbort", "publish", "reset"} => state # "Aborted"
    /\ \A c \in Callers : cpc[c] \notin Interruptions

(* The queue of a thread that nobody interrupts keeps the order of posts.  *)
LEMMA OrderCorrect ==
  ASSUME Behaviour = "ProcessInOrder", Aborters = {}, Quitters = {}
  PROVE  Spec => []OrderInv
<1>1. Init => OrderInv
  <2> SUFFICES ASSUME Init PROVE OrderInv
    OBVIOUS
  <2>1. Taken = <<>> /\ handled = <<>> /\ enqueuedTasks = <<>> /\ posted = <<>>
    BY DEF Init, Taken
  <2>2. (<<>> \o <<>>) \o <<>> = <<>> /\ <<>> \in Seq(Tasks)
    BY ConcatEmptySeq
  <2>. QED
    BY <2>1, <2>2 DEF Init, OrderInv, Interruptions
<1>2. ASSUME TypeOK, OrderInv, RunStep \/ ExecuteOnMainThread PROVE OrderInv'
  <2>0. /\ enqueuedTasks \in Seq(Tasks) /\ handled \in Seq(Tasks)
        /\ \A x \in Tasks : <<x>> \in Seq(Tasks)
        /\ <<>> \in Seq(Tasks)
    BY <1>2 DEF TypeOK, QueuesOK, OrderInv
  <2>1. UNCHANGED <<cpc, posted>>
    BY <1>2, ThreadMovesNobody, ThreadTouchesTasks DEF callVars
  <2>2. abortRequested' = 0
    BY <1>2, ThreadTouchesTasks DEF OrderInv, ResetAbort, AbortsLeft
  <2>3. pc' \in {"resolveAbort", "publish", "reset"} => state' # "Aborted"
    BY <1>2 DEF OrderInv, RunStep, ExecuteOnMainThread, PickTask, Activate, Poll,
       LoopOnceReturns, RequestExecutionOnMainThread, MainThreadExecuted, ResolveQuit,
       ResolveAbort, PublishState, StopThread, FinishThread, ResetAbort,
       TakeStartRequest, GoTo
  <2>4. enqueuedTasks' \in Seq(Tasks) /\ posted = (handled' \o Taken') \o enqueuedTasks'
    <3>1. CASE PickTask
      <4>1. Taken = <<>> /\ UNCHANGED handled /\ pc' = "activate"
        BY <3>1 DEF PickTask, Taken, GoTo
      <4>2. handled \o Taken = handled
        BY <2>0, <4>1, ConcatEmptySeq
      <4>3. CASE PickInOrder
        <5>1. /\ enqueuedTasks # <<>> /\ args' = Head(enqueuedTasks)
              /\ enqueuedTasks' = Tail(enqueuedTasks)
          BY <4>3 DEF PickInOrder
        <5>2. args' \in Tasks /\ enqueuedTasks' \in Seq(Tasks)
          BY <2>0, <5>1, HeadTailProperties
        <5>3. Taken' = <<args'>>
          BY <4>1, <5>2 DEF Taken
        <5>4. enqueuedTasks = <<args'>> \o enqueuedTasks'
          BY <2>0, <5>1, <5>2
        <5>5. (handled \o <<args'>>) \o enqueuedTasks'
                = handled \o (<<args'>> \o enqueuedTasks')
          BY <2>0, <5>2, ConcatAssociative, SMTT(30)
        <5>. QED
          BY <1>2, <4>1, <4>2, <5>2, <5>3, <5>4, <5>5 DEF OrderInv
      <4>4. CASE PickNothing
        <5>1. UNCHANGED enqueuedTasks /\ args' \notin Tasks
          BY <4>4 DEF PickNothing
        <5>. QED
          BY <1>2, <2>0, <4>1, <5>1 DEF OrderInv, Taken
      <4>. QED
        BY <3>1, <4>3, <4>4 DEF PickTask, PickMostRecent
    <3>2. CASE Activate
      <4>1. UNCHANGED <<enqueuedTasks, args>> /\ pc = "activate" /\ pc' # "activate"
        BY <3>2 DEF Activate, GoTo, queueVars
      <4>2. Taken' = <<>>
        BY <4>1 DEF Taken
      <4>3. CASE args \in Tasks
        <5>1. Taken = <<args>> /\ handled' = Append(handled, args)
          BY <3>2, <4>1, <4>3 DEF Activate, Taken
        <5>2. handled' = handled \o Taken /\ handled' \in Seq(Tasks)
          BY <2>0, <4>3, <5>1, AppendIsConcat, AppendProperties
        <5>3. handled' \o <<>> = handled'
          BY <5>2, ConcatEmptySeq
        <5>. QED
          BY <1>2, <2>0, <4>1, <4>2, <5>2, <5>3 DEF OrderInv
      <4>4. CASE args \notin Tasks
        <5>1. Taken = <<>> /\ UNCHANGED handled
          BY <3>2, <4>4 DEF Activate, Taken
        <5>. QED
          BY <1>2, <2>0, <4>1, <4>2, <5>1 DEF OrderInv
      <4>. QED
        BY <4>3, <4>4
    <3>3. CASE ~PickTask /\ ~Activate
      <4>1. UNCHANGED <<enqueuedTasks, handled, args>>
        BY <1>2, <3>3 DEF OrderInv, RunStep, ExecuteOnMainThread, Poll, LoopOnceReturns,
           RequestExecutionOnMainThread, MainThreadExecuted, ResolveQuit, ResolveAbort,
           PublishState, StopThread, FinishThread, ResetAbort, TakeStartRequest,
           queueVars
      <4>2. UNCHANGED pc \/ (pc # "activate" /\ pc' # "activate")
        BY <1>2, <3>3 DEF RunStep, ExecuteOnMainThread, Poll, LoopOnceReturns,
           RequestExecutionOnMainThread, MainThreadExecuted, ResolveQuit, ResolveAbort,
           PublishState, StopThread, FinishThread, ResetAbort, TakeStartRequest, GoTo
      <4>. QED
        BY <1>2, <2>0, <4>1, <4>2 DEF OrderInv, Taken
    <3>. QED
      BY <3>1, <3>2, <3>3
  <2>. QED
    BY <1>2, <2>1, <2>2, <2>3, <2>4 DEF OrderInv
<1>3. ASSUME TypeOK, RunIsSound, OrderInv, NEW c \in Callers, BeginCall(c) \/ CallStep(c)
      PROVE  OrderInv'
  <2>0. /\ enqueuedTasks \in Seq(Tasks) /\ handled \in Seq(Tasks) /\ posted \in Seq(Tasks)
        /\ Taken \in Seq(Tasks) /\ LabelsOK
    BY <1>3 DEF TypeOK, QueuesOK, CallsOK, LabelsOK, OrderInv, Taken
  <2>1. \A d \in Callers : cpc'[d] \notin Interruptions
    <3>1. PICK l \in CallLabels : cpc' = [cpc EXCEPT ![c] = l]
      BY <1>3, <2>0, ClientMoves
    <3>2. l \notin Interruptions
      BY <1>3, <2>0, <3>1 DEF LabelsOK, OrderInv, BeginCall, CallStep, StartGate, CallAbort,
         CallQuit, CallQuitWait, CallAbortWait, Enqueue, StartReadRunning, StartThread,
         PostStartRequest, AbortReadRunning, AbortReadState, AbortRequest, QuitGate,
         QuitReadState, QuitClear, QuitWake, QuitWaitReadState, QuitWaitFlag,
         QuitWaitJoin, AbortWaitReadState, Move, Return, At, Interruptions
    <3>. QED
      BY <1>3, <2>0, <3>1, <3>2 DEF LabelsOK, OrderInv
  <2>2. UNCHANGED abortVars /\ ~QuitClear(c)
    BY <1>3, ClientTouchesTasks DEF OrderInv, Interruptions, AbortRequest, QuitClear, At
  <2>3. UNCHANGED <<args, state, handled>>
    BY <1>3, ClientTouchesTasks
  <2>5. Taken' = Taken
    <3>1. pc' = "activate" <=> pc = "activate"
      BY <1>3, ClientStartsThread DEF threadVars, RunIsSound
    <3>. QED
      BY <2>3, <3>1 DEF Taken
  <2>6. CASE Enqueue(c)
    <3>1. PICK t \in Tasks : /\ posted' = Append(posted, t)
                             /\ enqueuedTasks' = Append(enqueuedTasks, t)
      BY <1>3, <2>6 DEF Enqueue, AbortPending, OrderInv
    <3>  DEFINE h == handled \o Taken
    <3>2. posted = h \o enqueuedTasks
      BY <1>3 DEF OrderInv
    <3>3. h \in Seq(Tasks) /\ <<t>> \in Seq(Tasks)
      BY <2>0, ConcatProperties
    <3>  HIDE DEF h
    <3>4. (h \o enqueuedTasks) \o <<t>> = h \o (enqueuedTasks \o <<t>>)
      BY <2>0, <3>3, ConcatAssociative, SMTT(30)
    <3>5. posted' = posted \o <<t>> /\ enqueuedTasks' = enqueuedTasks \o <<t>>
          /\ enqueuedTasks' \in Seq(Tasks)
      BY <2>0, <3>1, AppendIsConcat, AppendProperties
    <3>6. posted' = h \o enqueuedTasks'
      BY <3>2, <3>4, <3>5
    <3>7. posted' = (handled' \o Taken') \o enqueuedTasks'
      BY <2>3, <2>5, <3>6 DEF h
    <3>. QED
      BY <1>3, <2>1, <2>2, <2>3, <3>5, <3>7, ClientStartsThread
         DEF OrderInv, abortVars, threadVars
  <2>7. CASE UNCHANGED queueVars
    BY <1>3, <2>1, <2>2, <2>3, <2>5, <2>7, ClientStartsThread
       DEF OrderInv, abortVars, queueVars, threadVars
  <2>. QED
    BY <1>3, <2>2, <2>6, <2>7, ClientTouchesTasks
<1>4. ASSUME OrderInv, UNCHANGED vars PROVE OrderInv'
  BY <1>4 DEF OrderInv, Taken, vars, abortVars, queueVars, threadVars, callVars
<1>5. TypeOK /\ RunIsSound /\ OrderInv /\ [Next]_vars => OrderInv'
  BY <1>2, <1>3, <1>4 DEF Next
<1>. QED
  BY <1>1, <1>5, TypeCorrect, RunCorrect, PTL DEF Spec

(* What a queue holds is accepted, not started and not lost: the service   *)
(* may start it, or give it up.                                            *)
LEMMA WhatQueuesHoldWaits ==
  ASSUME PlacementInv
  PROVE  Queued \cup PickedUp \subseteq Service!Waiting
BY DEF PlacementInv, EachTaskInOnePlace, QueuesAreDisjoint, Service!Waiting,
       Service!Range, Range

(* A task that is started in order is older than every task that waits.    *)
LEMMA TakenIsNext ==
  ASSUME TypeOK, PlacementInv, OrderInv, pc = "activate", args \in Tasks
  PROVE  Service!IsNext(args)
<1>. DEFINE n == Len(handled)
            done == handled \o <<args>>
<1>1. /\ handled \in Seq(Tasks) /\ enqueuedTasks \in Seq(Tasks) /\ <<args>> \in Seq(Tasks)
      /\ n \in Nat /\ Len(enqueuedTasks) \in Nat
      /\ DOMAIN handled = 1..n /\ DOMAIN enqueuedTasks = 1..Len(enqueuedTasks)
  BY LenProperties DEF TypeOK, QueuesOK, OrderInv
<1>2. done \in Seq(Tasks) /\ Len(done) = n + 1 /\ DOMAIN done = 1..(n + 1)
      /\ \A i \in 1..n : done[i] = handled[i]
  BY <1>1, ConcatProperties, LenProperties
<1>3. posted = done \o enqueuedTasks
  BY DEF OrderInv, Taken
<1>. HIDE DEF done
<1>4. /\ DOMAIN posted = 1..(n + 1 + Len(enqueuedTasks))
      /\ \A i \in 1..n : posted[i] = handled[i]
      /\ \A i \in (n + 2)..(n + 1 + Len(enqueuedTasks)) : posted[i] = enqueuedTasks[i - (n + 1)]
  <2>1. /\ posted \in Seq(Tasks) /\ Len(posted) = n + 1 + Len(enqueuedTasks)
        /\ \A i \in 1..(n + 1 + Len(enqueuedTasks)) :
             posted[i] = IF i <= n + 1 THEN done[i] ELSE enqueuedTasks[i - (n + 1)]
    <3>. DEFINE m == Len(enqueuedTasks)
                all == done \o enqueuedTasks
    <3>1. /\ all \in Seq(Tasks) /\ Len(all) = Len(done) + m
          /\ \A i \in 1..(Len(done) + m) :
               all[i] = IF i <= Len(done) THEN done[i] ELSE enqueuedTasks[i - Len(done)]
      BY <1>1, <1>2, ConcatProperties
    <3>2. all = posted
      BY <1>3
    <3>. HIDE DEF all
    <3>. QED
      BY <1>2, <3>1, <3>2
  <2>. QED
    BY <1>1, <1>2, <2>1, LenProperties
<1>5. args \notin Range(enqueuedTasks)
  BY DEF PlacementInv, QueuesAreDisjoint, PickedUp, Queued
<1>6. ASSUME NEW i \in DOMAIN posted, NEW j \in DOMAIN posted, i < j, posted[j] = args
      PROVE  posted[i] \in Range(handled)
  <2>1. j \notin (n + 2)..(n + 1 + Len(enqueuedTasks))
    <3>1. ASSUME j \in (n + 2)..(n + 1 + Len(enqueuedTasks)) PROVE FALSE
      <4>1. j - (n + 1) \in DOMAIN enqueuedTasks /\ enqueuedTasks[j - (n + 1)] = args
        BY <1>1, <1>4, <1>6, <3>1
      <4>. QED
        BY <1>5, <4>1 DEF Range
    <3>. QED
      BY <3>1
  <2>2. i \in 1..n
    BY <1>1, <1>4, <1>6, <2>1
  <2>. QED
    BY <1>1, <1>4, <2>2 DEF Range
<1>. QED
  BY <1>6 DEF Service!IsNext, Service!Waiting, Service!Range, Range

(* ImplementsService: the detailed thread implements TaskService, in the   *)
(* order of startTask() when nobody aborts or quits it.  (That no accepted *)
(* task waits for ever is left to TLC.)                                    *)
THEOREM ServiceIsImplemented == Spec => ImplementsService
<1>. DEFINE Calm == Behaviour = "ProcessInOrder" /\ Aborters = {} /\ Quitters = {}
            Inv == TypeOK /\ PlacementInv /\ (Calm => OrderInv)
<1>1. Init => Service!Init
  BY DEF Init, Service!Init
<1>2. ASSUME Inv, RunStep \/ ExecuteOnMainThread
      PROVE  Service!Next \/ UNCHANGED Service!vars
  <2>1. CASE PickTask
    <3>1. CASE PickMostRecent
      <4>1. PICK ts \in SUBSET (Range(enqueuedTasks) \cap Tasks) : dropped' = dropped \cup ts
        BY <1>2, <3>1, MostRecentIsTaken DEF TypeOK
      <4>2. ts \in SUBSET Service!Waiting
        BY <1>2, <4>1, WhatQueuesHoldWaits DEF Queued
      <4>. QED
        BY <2>1, <4>1, <4>2 DEF PickTask, Service!Next, Service!GiveUp
    <3>2. CASE ~PickMostRecent
      BY <2>1, <3>2 DEF PickTask, PickInOrder, PickNothing, Service!vars
    <3>. QED
      BY <3>1, <3>2
  <2>2. CASE Activate
    <3>1. CASE args \in Tasks
      <4>1. /\ pc = "activate" /\ handled' = Append(handled, args)
            /\ UNCHANGED <<posted, dropped>>
        BY <2>2, <3>1 DEF Activate, queueVars
      <4>2. args \in Service!Waiting
        BY <1>2, <3>1, <4>1, WhatQueuesHoldWaits DEF PickedUp
      <4>3. Calm => Service!IsNext(args)
        BY <1>2, <3>1, <4>1, TakenIsNext
      <4>. QED
        BY <3>1, <4>1, <4>2, <4>3 DEF Service!Next, Service!Start
    <3>2. CASE args \notin Tasks
      BY <2>2, <3>2 DEF Activate, queueVars, Service!vars
    <3>. QED
      BY <3>1, <3>2
  <2>3. CASE ResetAbort
    <3>1. UNCHANGED <<posted, handled>>
      BY <2>3 DEF ResetAbort
    <3>2. PICK ts \in SUBSET Queued : dropped' = dropped \cup ts
      <4>1. CASE state = "Aborted"
        <5>. DEFINE ts == {t \in Range(enqueuedTasks) \cap Tasks :
                             t \notin Range(KeptAfterAbort(enqueuedTasks))}
        <5>1. dropped' = dropped \cup ts
          BY <2>3, <4>1 DEF ResetAbort
        <5>2. ts \in SUBSET Queued
          BY DEF Queued
        <5>. QED
          BY <5>1, <5>2
      <4>2. CASE state # "Aborted"
        <5>1. dropped' = dropped \cup {}
          BY <2>3, <4>2 DEF ResetAbort
        <5>. QED
          BY <5>1
      <4>. QED
        BY <4>1, <4>2
    <3>3. ts \in SUBSET Service!Waiting
      BY <1>2, <3>2, WhatQueuesHoldWaits
    <3>. QED
      BY <3>1, <3>2, <3>3 DEF Service!Next, Service!GiveUp
  <2>4. CASE UNCHANGED <<queueVars, handled>>
    BY <1>2, <2>4, ThreadTouchesTasks DEF queueVars, Service!vars
  <2>. QED
    BY <1>2, <2>1, <2>2, <2>3, <2>4, ThreadTouchesTasks
<1>3. ASSUME Inv, NEW c \in Callers, BeginCall(c) \/ CallStep(c)
      PROVE  Service!Next \/ UNCHANGED Service!vars
  <2>1. CASE Enqueue(c)
    <3>1. PICK t \in Tasks \ Range(posted) : posted' = Append(posted, t)
      BY <2>1 DEF Enqueue
    <3>2. UNCHANGED <<handled, dropped>>
      BY <2>1 DEF Enqueue, threadVars
    <3>. QED
      BY <3>1, <3>2 DEF Service!Next, Service!Accept, Service!Range, Range
  <2>2. CASE QuitClear(c)
    <3>1. UNCHANGED <<posted, handled>>
      BY <2>2 DEF QuitClear, threadVars
    <3>2. PICK ts \in SUBSET Queued : dropped' = dropped \cup ts
      BY <2>2 DEF QuitClear, Queued
    <3>3. ts \in SUBSET Service!Waiting
      BY <1>3, <3>2, WhatQueuesHoldWaits
    <3>. QED
      BY <3>1, <3>2, <3>3 DEF Service!Next, Service!GiveUp
  <2>3. CASE UNCHANGED queueVars
    BY <1>3, <2>3, ClientTouchesTasks DEF queueVars, Service!vars
  <2>. QED
    BY <1>3, <2>1, <2>2, <2>3, ClientTouchesTasks
<1>4. UNCHANGED vars => UNCHANGED Service!vars
  BY DEF vars, queueVars, threadVars, Service!vars
<1>5. Inv /\ [Next]_vars => [Service!Next]_(Service!vars)
  BY <1>2, <1>3, <1>4 DEF Next
<1>6. Spec => []Inv
  <2>1. CASE Calm
    BY <2>1, TypeCorrect, PlacementInvariant, OrderCorrect, PTL
  <2>2. CASE ~Calm
    BY <2>2, TypeCorrect, PlacementInvariant, PTL
  <2>. QED
    BY <2>1, <2>2
<1>. QED
  BY <1>1, <1>5, <1>6, PTL DEF Spec, ImplementsService, Service!Spec

-----------------------------------------------------------------------------
(* What SkipToMostRecent skips                                             *)

(* The task taken is the last one; what stays keeps its order, and what is *)
(* dropped was before the task taken and may be skipped.                   *)
LEMMA MostRecentKeepsOrder ==
  ASSUME QueuesOK, PickMostRecent
  PROVE  /\ \A k, l \in DOMAIN enqueuedTasks' : k < l =>
              \E i, j \in DOMAIN enqueuedTasks :
                 /\ i < j /\ enqueuedTasks'[k] = enqueuedTasks[i]
                 /\ enqueuedTasks'[l] = enqueuedTasks[j]
         /\ \A t \in dropped' \ dropped :
              /\ t \in Skippable
              /\ \E i, j \in DOMAIN enqueuedTasks :
                    i < j /\ enqueuedTasks[i] = t /\ enqueuedTasks[j] = args'
<1>. DEFINE q == enqueuedTasks
            n == Len(q) - 1
            older == SubSeq(q, 1, n)
            kept == Unskippable(older)
            ts == Tasks \cap (Range(older) \ Range(kept))
<1>1. q \in Seq(Tasks \cup {Stub}) /\ q # <<>>
  BY DEF QueuesOK, PickMostRecent
<1>2. args' = q[Len(q)] /\ enqueuedTasks' = kept /\ dropped' = dropped \cup ts
  BY DEF PickMostRecent
<1>3. /\ Len(q) \in Nat \ {0} /\ DOMAIN q = 1 .. Len(q)
      /\ n \in 0 .. Len(q) /\ n < Len(q)
  BY <1>1, LenProperties, EmptySeq
<1>4. older \in Seq(Tasks \cup {Stub})
  BY <1>1, <1>3, PrefixOfList
<1>5. DOMAIN older = 1 .. n /\ \A i \in 1 .. n : older[i] = q[i]
  <2>1. /\ Len(older) = IF 1 <= n THEN n - 1 + 1 ELSE 0
        /\ \A i \in 1 .. n - 1 + 1 : older[i] = q[1 + i - 1]
    BY <1>1, <1>3, SubSeqProperties
  <2>2. n - 1 + 1 = n /\ n \in Nat /\ \A i \in 1 .. n : 1 + i - 1 = i
    BY <1>3
  <2>3. DOMAIN older = 1 .. Len(older)
    BY <1>4, LenProperties
  <2>. HIDE DEF older, n
  <2>. QED
    BY <2>1, <2>2, <2>3
<1>6. /\ Range(kept) = Range(older) \cap (Tasks \ Skippable)
      /\ \A k, l \in DOMAIN kept : k < l =>
           \E i, j \in DOMAIN older : i < j /\ kept[k] = older[i] /\ kept[l] = older[j]
  <2>. HIDE DEF older, n
  <2>1. kept = Filter(older, Tasks \ Skippable)
    BY DEF Unskippable
  <2>. HIDE DEF kept
  <2>2. Range(kept) = Range(older) \cap (Tasks \ Skippable)
    BY <1>4, <2>1, FilterProperties
  <2>3. \A k, l \in DOMAIN kept : k < l =>
          \E i, j \in DOMAIN older : i < j /\ kept[k] = older[i] /\ kept[l] = older[j]
    BY <1>4, <2>1, FilterOrder
  <2>. QED
    BY <2>2, <2>3
<1>. HIDE DEF older, kept, n
<1>7. ASSUME NEW k \in DOMAIN kept, NEW l \in DOMAIN kept, k < l
      PROVE  \E i, j \in DOMAIN q : i < j /\ kept[k] = q[i] /\ kept[l] = q[j]
  <2>1. PICK i \in DOMAIN older, j \in DOMAIN older :
          i < j /\ kept[k] = older[i] /\ kept[l] = older[j]
    BY <1>6, <1>7
  <2>. QED
    BY <1>3, <1>5, <2>1
<1>8. ASSUME NEW t \in ts
      PROVE  /\ t \in Skippable
             /\ \E i, j \in DOMAIN q : i < j /\ q[i] = t /\ q[j] = args'
  <2>1. PICK i \in DOMAIN older : older[i] = t
    BY DEF Range
  <2>2. i < Len(q) /\ i \in DOMAIN q /\ Len(q) \in DOMAIN q /\ q[i] = t
    BY <1>3, <1>5, <2>1
  <2>. QED
    BY <1>2, <1>6, <1>8, <2>2
<1>. QED
  BY <1>2, <1>7, <1>8

AbortLabels == {"abort_running", "abort_state", "abort_request"}
QuitLabels  == {"quit_gate", "quit_state", "quit_clear", "quit_wake"}
TheSecondQueue == queuedTaskWhileProcessingAbort

(* Nobody quits the thread, and of the one abort there is a client is on   *)
(* its way to ask, or it was asked; before it is asked nothing is in the   *)
(* second queue, which only its end merges.                                *)
OneAbort ==
    /\ \A c \in Callers : cpc[c] \notin QuitLabels
    /\ \A c \in Callers : cpc[c] \in AbortLabels =>
         /\ ~local[c].inQuit /\ aborts > 0
         /\ abortRequested = 0 /\ TheSecondQueue = <<>>
         /\ \A d \in Callers : cpc[d] \in AbortLabels => c = d
    /\ aborts = 0 => abortRequested = 0 /\ TheSecondQueue = <<>>
    /\ pc \in {"resolveAbort", "publish", "reset"} /\ state = "Aborted"
         => abortRequested > 0

InPostingOrder(q) == \A i, j \in DOMAIN q : i < j => PostedBefore(q[i], q[j])

(* Both queues are in the order of startTask(), and as long as they may be *)
(* merged the second one comes after the first.                            *)
QueuesInOrder ==
    /\ enqueuedTasks \in Seq(Tasks)
    /\ InPostingOrder(enqueuedTasks) /\ InPostingOrder(TheSecondQueue)
    /\ abortRequested > 0 =>
         \A x \in Range(enqueuedTasks), y \in Range(TheSecondQueue) : PostedBefore(x, y)

(* What startTask() adds is after all that was posted, and changes nothing *)
(* of the order before.                                                    *)
LEMMA AppendIsLast ==
  ASSUME posted \in Seq(Tasks), NEW t, posted' = Append(posted, t), t \in Tasks
  PROVE  /\ \A x \in Range(posted) : PostedBefore(x, t)'
         /\ \A x, y : PostedBefore(x, y) => PostedBefore(x, y)'
<1>1. /\ Len(posted) \in Nat /\ DOMAIN posted = 1 .. Len(posted)
      /\ DOMAIN posted' = 1 .. (Len(posted) + 1)
      /\ posted'[Len(posted) + 1] = t
      /\ \A i \in 1 .. Len(posted) : posted'[i] = posted[i]
  BY AppendProperties, LenProperties
<1>2. ASSUME NEW x \in Range(posted) PROVE PostedBefore(x, t)'
  <2>1. PICK i \in DOMAIN posted : posted[i] = x
    BY DEF Range
  <2>2. /\ i \in DOMAIN posted' /\ Len(posted) + 1 \in DOMAIN posted'
        /\ i < Len(posted) + 1 /\ posted'[i] = x
    BY <1>1, <2>1
  <2>. QED
    BY <1>1, <2>2 DEF PostedBefore
<1>3. ASSUME NEW x, NEW y, PostedBefore(x, y) PROVE PostedBefore(x, y)'
  <2>1. PICK i \in DOMAIN posted, j \in DOMAIN posted :
          i < j /\ posted[i] = x /\ posted[j] = y
    BY <1>3 DEF PostedBefore
  <2>2. i \in DOMAIN posted' /\ j \in DOMAIN posted' /\ posted'[i] = x /\ posted'[j] = y
    BY <1>1, <2>1
  <2>. QED
    BY <2>1, <2>2 DEF PostedBefore
<1>. QED
  BY <1>2, <1>3

(* A list in posting order stays so when the newest task is appended.      *)
LEMMA OrderedAppend ==
  ASSUME posted \in Seq(Tasks), NEW t \in Tasks, posted' = Append(posted, t),
         NEW q \in Seq(Tasks), Range(q) \subseteq Range(posted), InPostingOrder(q)
  PROVE  /\ \A i, j \in DOMAIN q : i < j => PostedBefore(q[i], q[j])'
         /\ \A i, j \in DOMAIN Append(q, t) : i < j =>
              PostedBefore(Append(q, t)[i], Append(q, t)[j])'
<1>. DEFINE r == Append(q, t)
<1>1. /\ Len(q) \in Nat /\ DOMAIN q = 1 .. Len(q) /\ DOMAIN r = 1 .. (Len(q) + 1)
      /\ r[Len(q) + 1] = t /\ \A i \in 1 .. Len(q) : r[i] = q[i]
  BY AppendProperties, LenProperties
<1>. HIDE DEF r
<1>2. \A i \in DOMAIN q : q[i] \in Range(posted)
  BY DEF Range
<1>3. \A i, j \in DOMAIN q : i < j => PostedBefore(q[i], q[j])'
  BY AppendIsLast DEF InPostingOrder
<1>4. ASSUME NEW i \in DOMAIN r, NEW j \in DOMAIN r, i < j
      PROVE  PostedBefore(r[i], r[j])'
  <2>1. i \in DOMAIN q /\ r[i] = q[i]
    BY <1>1, <1>4
  <2>2. CASE j \in DOMAIN q
    BY <1>1, <1>3, <1>4, <2>1, <2>2
  <2>3. CASE j \notin DOMAIN q
    <3>1. r[j] = t
      BY <1>1, <2>3
    <3>. QED
      BY <1>2, <2>1, <3>1, AppendIsLast
  <2>. QED
    BY <2>2, <2>3
<1>. QED
  BY <1>3, <1>4 DEF r

(* The merge of two ordered lists is ordered, if the second one is later.  *)
LEMMA OrderedConcat ==
  ASSUME NEW q \in Seq(Tasks), NEW w \in Seq(Tasks), InPostingOrder(q), InPostingOrder(w),
         \A x \in Range(q), y \in Range(w) : PostedBefore(x, y)
  PROVE  InPostingOrder(q \o w) /\ q \o w \in Seq(Tasks)
<1>. DEFINE r == q \o w
<1>1. /\ Len(q) \in Nat /\ Len(w) \in Nat /\ r \in Seq(Tasks)
      /\ DOMAIN q = 1 .. Len(q) /\ DOMAIN w = 1 .. Len(w) /\ DOMAIN r = 1 .. Len(q) + Len(w)
      /\ \A i \in 1 .. Len(q) + Len(w) : r[i] = IF i <= Len(q) THEN q[i] ELSE w[i - Len(q)]
  BY ConcatProperties, LenProperties
<1>. HIDE DEF r
<1>2. ASSUME NEW i \in DOMAIN r, NEW j \in DOMAIN r, i < j PROVE PostedBefore(r[i], r[j])
  <2>1. CASE j <= Len(q)
    <3>1. i \in DOMAIN q /\ j \in DOMAIN q /\ r[i] = q[i] /\ r[j] = q[j]
      BY <1>1, <1>2, <2>1
    <3>. QED
      BY <1>2, <3>1 DEF InPostingOrder
  <2>2. CASE i > Len(q)
    <3>1. /\ i - Len(q) \in DOMAIN w /\ j - Len(q) \in DOMAIN w /\ i - Len(q) < j - Len(q)
          /\ r[i] = w[i - Len(q)] /\ r[j] = w[j - Len(q)]
      BY <1>1, <1>2, <2>2
    <3>. QED
      BY <3>1 DEF InPostingOrder
  <2>3. CASE i <= Len(q) /\ j > Len(q)
    <3>1. i \in DOMAIN q /\ j - Len(q) \in DOMAIN w /\ r[i] = q[i] /\ r[j] = w[j - Len(q)]
      BY <1>1, <1>2, <2>3
    <3>. QED
      BY <3>1 DEF Range
  <2>. QED
    BY <1>1, <2>1, <2>2, <2>3
<1>. QED
  BY <1>1, <1>2 DEF InPostingOrder, r

(* OneAbort, when there is at most one abort and nobody quits.             *)
LEMMA OneAbortCorrect ==
  ASSUME Quitters = {}, MaxAborts <= 1
  PROVE  Spec => []OneAbort
<1>1. Init => OneAbort
  BY DEF Init, OneAbort, QuitLabels, AbortLabels, TheSecondQueue
<1>2. ASSUME TypeOK, OneAbort, RunStep \/ ExecuteOnMainThread PROVE OneAbort'
  <2>1. UNCHANGED <<cpc, local, aborts>>
    BY <1>2, ThreadMovesNobody DEF callVars, boundVars
  <2>2. CASE ResetAbort
    <3>1. abortRequested' = 0 /\ pc' = "sleep"
          /\ (TheSecondQueue = <<>> => TheSecondQueue' = <<>>)
      BY <2>2 DEF ResetAbort, AbortsLeft, MergeQueues, GoTo, TheSecondQueue
    <3>. QED
      BY <1>2, <2>1, <3>1 DEF OneAbort
  <2>3. CASE ~ResetAbort
    <3>1. UNCHANGED <<abortRequested, TheSecondQueue>>
      BY <1>2, <2>3, ThreadTouchesTasks
         DEF PickTask, Activate, queueVars, TheSecondQueue
    <3>2. pc' \in {"resolveAbort", "publish", "reset"} /\ state' = "Aborted"
             => abortRequested > 0
      BY <1>2, <2>3 DEF OneAbort, RunStep, ExecuteOnMainThread, PickTask, Activate, Poll,
         LoopOnceReturns, RequestExecutionOnMainThread, MainThreadExecuted, ResolveQuit,
         ResolveAbort, PublishState, StopThread, FinishThread, TakeStartRequest, GoTo
    <3>. QED
      BY <1>2, <2>1, <3>1, <3>2 DEF OneAbort
  <2>. QED
    BY <2>2, <2>3
<1>3. ASSUME TypeOK, LabelsOK, OneAbort, NEW c \in Callers, BeginCall(c) \/ CallStep(c)
      PROVE  OneAbort'
  <2>0. /\ cpc \in [Callers -> CallLabels] /\ local \in [Callers -> Locals]
        /\ aborts \in Nat /\ abortRequested \in Nat
    BY <1>3 DEF TypeOK, CallsOK, FlagsOK
  <2>1. pc' \in {"resolveAbort", "publish", "reset"} /\ state' = "Aborted"
           => pc \in {"resolveAbort", "publish", "reset"} /\ state = "Aborted"
    BY <1>3, ClientStartsThread DEF threadVars
  <2>2. PICK l \in CallLabels : cpc' = [cpc EXCEPT ![c] = l]
    BY <1>3, ClientMoves
  <2>3. l \notin QuitLabels
    BY <1>3, <2>0, <2>2 DEF OneAbort, BeginCall, CallStep, StartGate, CallAbort,
       CallQuit, CallQuitWait, CallAbortWait, Enqueue, StartReadRunning, StartThread,
       PostStartRequest, AbortReadRunning, AbortReadState, AbortRequest, AbortReturns,
       QuitGate, QuitReadState, QuitClear, QuitWake, QuitWaitReadState, QuitWaitFlag,
       QuitWaitJoin, AbortWaitReadState, Move, Return, At, QuitLabels, AbortLabels
  <2>4. \A d \in Callers : cpc'[d] \notin QuitLabels
    BY <1>3, <2>0, <2>2, <2>3 DEF OneAbort
  <2>5. CASE CallAbort(c)
    <3>1. /\ aborts = 0 /\ aborts' = 1
          /\ UNCHANGED <<abortRequested, TheSecondQueue>>
      BY <2>0, <2>5 DEF CallAbort, abortVars, queueVars, TheSecondQueue
    <3>2. ~local'[c].inQuit
      <4>1. PICK keep \in BOOLEAN :
              local' = [local EXCEPT ![c] = [NoLocals EXCEPT !.keepOldestRender = keep]]
        BY <2>5 DEF CallAbort
      <4>2. ~[NoLocals EXCEPT !.keepOldestRender = keep].inQuit
        BY DEF NoLocals
      <4>. QED
        BY <2>0, <4>1, <4>2
    <3>3. \A d \in Callers : d # c => cpc'[d] \notin AbortLabels
      BY <1>3, <2>0, <2>2, <3>1 DEF OneAbort
    <3>. QED
      BY <1>3, <2>1, <2>4, <3>1, <3>2, <3>3 DEF OneAbort
  <2>6. CASE AbortReadRunning(c) \/ AbortReadState(c)
    <3>1. /\ UNCHANGED <<abortRequested, aborts, TheSecondQueue>>
          /\ cpc[c] \in AbortLabels
      BY <2>6 DEF AbortReadRunning, AbortReadState, At, AbortLabels, abortVars, queueVars,
         boundVars, TheSecondQueue
    <3>2. ~local'[c].inQuit /\ \A d \in Callers : d # c => local'[d] = local[d]
      <4>1. ~local[c].inQuit
        BY <1>3, <3>1 DEF OneAbort
      <4>2. ~NoLocals.inQuit
        BY DEF NoLocals
      <4>3. ~[local[c] EXCEPT !.shouldRequestAbort = TRUE].inQuit
            /\ ~[local[c] EXCEPT !.shouldRequestAbort = FALSE].inQuit
        BY <2>0, <4>1 DEF Locals
      <4>4. \/ local' = local
            \/ local' = [local EXCEPT ![c] = NoLocals]
            \/ local' = [local EXCEPT ![c] = [local[c] EXCEPT !.shouldRequestAbort = TRUE]]
            \/ local' = [local EXCEPT ![c] = [local[c] EXCEPT !.shouldRequestAbort = FALSE]]
        BY <2>6, <4>1 DEF AbortReadRunning, AbortReadState, AbortReturns, Return
      <4>. QED
        BY <2>0, <4>1, <4>2, <4>3, <4>4
    <3>3. \A d \in Callers : d # c => cpc'[d] \notin AbortLabels
      BY <1>3, <2>0, <2>2, <3>1 DEF OneAbort
    <3>. QED
      BY <1>3, <2>1, <2>4, <3>1, <3>2, <3>3 DEF OneAbort
  <2>7. CASE AbortRequest(c)
    <3>1. /\ UNCHANGED <<aborts, TheSecondQueue>> /\ cpc[c] \in AbortLabels
          /\ abortRequested' \in {abortRequested, abortRequested + 1}
      BY <2>7 DEF AbortRequest, At, AbortLabels, abortVars, queueVars, boundVars,
         TheSecondQueue
    <3>2. cpc'[c] \notin AbortLabels
      <4>1. ~local[c].inQuit
        BY <1>3, <3>1 DEF OneAbort
      <4>. QED
        BY <2>0, <2>7, <4>1 DEF AbortRequest, AbortReturns, Return, AbortLabels
    <3>3. \A d \in Callers : d # c => cpc'[d] \notin AbortLabels
      BY <1>3, <2>0, <2>2, <3>1 DEF OneAbort
    <3>4. aborts > 0 /\ abortRequested = 0
      BY <1>3, <3>1 DEF OneAbort
    <3>. QED
      BY <1>3, <2>0, <2>1, <2>4, <3>1, <3>2, <3>3, <3>4 DEF OneAbort
  <2>8. CASE ~CallAbort(c) /\ ~AbortReadRunning(c) /\ ~AbortReadState(c) /\ ~AbortRequest(c)
    <3>1. UNCHANGED <<abortRequested, aborts>>
      BY <1>3, <2>8 DEF BeginCall, CallStep, StartGate, CallQuit, CallQuitWait,
         CallAbortWait, Enqueue, StartReadRunning, StartThread, PostStartRequest, QuitGate,
         QuitReadState, QuitClear, QuitWake, QuitWaitReadState, QuitWaitFlag, QuitWaitJoin,
         AbortWaitReadState, abortVars, boundVars
    <3>2. l \notin AbortLabels
      BY <1>3, <2>0, <2>2, <2>8 DEF OneAbort, BeginCall, CallStep, StartGate,
         CallQuit, CallQuitWait, CallAbortWait, Enqueue, StartReadRunning, StartThread,
         PostStartRequest, QuitGate, QuitReadState, QuitClear, QuitWake, QuitWaitReadState,
         QuitWaitFlag, QuitWaitJoin, AbortWaitReadState, Move, Return, At, AbortLabels,
         QuitLabels
    <3>3. TheSecondQueue' = TheSecondQueue \/ (Enqueue(c) /\ abortRequested > 0)
      BY <1>3, <2>8, ClientTouchesTasks
         DEF queueVars, TheSecondQueue, Enqueue, QuitClear, AbortPending
    <3>4. \A d \in Callers : d # c => local'[d] = local[d]
      BY <1>3, <2>0, <2>8 DEF BeginCall, CallStep, StartGate, CallQuit, CallQuitWait,
         CallAbortWait, Enqueue, StartReadRunning, StartThread, PostStartRequest, QuitGate,
         QuitReadState, QuitClear, QuitWake, QuitWaitReadState, QuitWaitFlag, QuitWaitJoin,
         AbortWaitReadState, Return
    <3>5. \A d \in Callers : cpc'[d] \in AbortLabels => d # c /\ cpc[d] \in AbortLabels
      BY <2>0, <2>2, <3>2
    <3>6. (\E d \in Callers : cpc[d] \in AbortLabels) \/ aborts = 0
             => abortRequested = 0 /\ TheSecondQueue' = <<>>
      BY <1>3, <2>0, <3>3 DEF OneAbort
    <3>. QED
      BY <1>3, <2>1, <2>4, <3>1, <3>4, <3>5, <3>6 DEF OneAbort
  <2>. QED
    BY <2>5, <2>6, <2>7, <2>8
<1>4. ASSUME OneAbort, UNCHANGED vars PROVE OneAbort'
  BY <1>4 DEF OneAbort, vars, callVars, boundVars, abortVars, queueVars, threadVars,
     TheSecondQueue
<1>5. TypeOK /\ LabelsOK /\ OneAbort /\ [Next]_vars => OneAbort'
  BY <1>2, <1>3, <1>4 DEF Next
<1>. QED
  BY <1>1, <1>5, TypeCorrect, LabelsCorrect, PTL DEF Spec

(* SkipsOnlyOutdated: run() discards a task only when it may be skipped    *)
(* and for one that startTask() took later, with at most one abort,        *)
(* whenever it comes, and no quit.  (A second abort may merge the queues   *)
(* in the wrong order.)                                                    *)
THEOREM SkippedIsOutdated ==
  ASSUME Quitters = {}, MaxAborts <= 1
  PROVE  Spec => SkipsOnlyOutdated
<1>. DEFINE Inv == TypeOK /\ PlacementInv /\ OneAbort
<1>1. Init => QueuesInOrder
  <2>1. <<>> \in Seq(Tasks) /\ DOMAIN <<>> = {}
    OBVIOUS
  <2>. QED
    BY <2>1 DEF Init, QueuesInOrder, InPostingOrder, TheSecondQueue
<1>2. ASSUME Behaviour # "ProcessInOrder", Inv, QueuesInOrder, RunStep \/ ExecuteOnMainThread
      PROVE  QueuesInOrder'
  <2>0. /\ UNCHANGED posted /\ QueuesOK /\ \A x, y : PostedBefore(x, y)' <=> PostedBefore(x, y)
    BY <1>2, ThreadTouchesTasks DEF PostedBefore, TypeOK
  <2>1. CASE PickTask
    <3>1. CASE PickMostRecent
      <4>1. /\ enqueuedTasks' \in Seq(Tasks \cup {Stub})
            /\ Range(enqueuedTasks') \subseteq Range(enqueuedTasks) \cap Tasks
        BY <2>0, <3>1, MostRecentIsTaken
      <4>2. enqueuedTasks' \in Seq(Tasks)
        <5>. DEFINE e == enqueuedTasks'
        <5>1. /\ e \in Seq(Tasks \cup {Stub}) /\ Range(e) \subseteq Tasks
              /\ Len(e) \in Nat /\ DOMAIN e = 1 .. Len(e)
          BY <4>1, LenProperties
        <5>. HIDE DEF e
        <5>2. \A i \in 1 .. Len(e) : e[i] \in Tasks
          BY <5>1 DEF Range
        <5>3. e = [i \in 1 .. Len(e) |-> e[i]]
          BY <5>1
        <5>4. e \in Seq(Tasks)
          BY <5>1, <5>2, <5>3, IsASeq
        <5>. QED
          BY <5>4 DEF e
      <4>3. InPostingOrder(enqueuedTasks)'
        BY <1>2, <2>0, <3>1, MostRecentKeepsOrder DEF InPostingOrder, QueuesInOrder
      <4>4. UNCHANGED <<TheSecondQueue, abortRequested>>
        BY <2>1 DEF PickTask, TheSecondQueue, abortVars
      <4>. QED
        BY <1>2, <2>0, <4>1, <4>2, <4>3, <4>4 DEF QueuesInOrder, InPostingOrder
    <3>2. CASE PickNothing
      <4>1. UNCHANGED <<enqueuedTasks, TheSecondQueue, abortRequested>>
        BY <2>1, <3>2 DEF PickTask, PickNothing, TheSecondQueue, abortVars
      <4>. QED
        BY <1>2, <2>0, <4>1 DEF QueuesInOrder, InPostingOrder
    <3>. QED
      BY <1>2, <2>1, <3>1, <3>2 DEF PickTask, PickInOrder
  <2>2. CASE ResetAbort
    <3>1. abortRequested' = 0
      BY <2>2 DEF ResetAbort, AbortsLeft
    <3>2. CASE state = "Aborted"
      <4>1. abortRequested > 0
        BY <1>2, <2>2, <3>2 DEF OneAbort, ResetAbort
      <4>2. /\ enqueuedTasks' = enqueuedTasks \o TheSecondQueue
            /\ TheSecondQueue' = <<>>
        BY <1>2, <2>2, <3>2 DEF ResetAbort, MergeQueues, KeptAfterAbort, TheSecondQueue
      <4>3. TheSecondQueue \in Seq(Tasks) /\ DOMAIN <<>> = {}
        BY <1>2 DEF TypeOK, QueuesOK, TheSecondQueue
      <4>4. InPostingOrder(enqueuedTasks \o TheSecondQueue)
            /\ enqueuedTasks \o TheSecondQueue \in Seq(Tasks)
        BY <1>2, <4>1, <4>3, OrderedConcat DEF QueuesInOrder
      <4>5. InPostingOrder(enqueuedTasks)' /\ InPostingOrder(TheSecondQueue)'
        BY <2>0, <4>2, <4>3, <4>4 DEF InPostingOrder
      <4>. QED
        BY <3>1, <4>2, <4>4, <4>5 DEF QueuesInOrder
    <3>3. CASE state # "Aborted"
      <4>1. UNCHANGED <<enqueuedTasks, TheSecondQueue>>
        BY <2>2, <3>3 DEF ResetAbort, TheSecondQueue
      <4>. QED
        BY <1>2, <2>0, <3>1, <4>1 DEF QueuesInOrder, InPostingOrder
    <3>. QED
      BY <3>2, <3>3
  <2>3. CASE ~PickTask /\ ~ResetAbort
    <3>1. UNCHANGED <<enqueuedTasks, TheSecondQueue, abortRequested>>
      BY <1>2, <2>3, ThreadTouchesTasks DEF Activate, queueVars, TheSecondQueue
    <3>. QED
      BY <1>2, <2>0, <3>1 DEF QueuesInOrder, InPostingOrder
  <2>. QED
    BY <2>1, <2>2, <2>3
<1>3. ASSUME Inv, Inv', QueuesInOrder, NEW c \in Callers, BeginCall(c) \/ CallStep(c)
      PROVE  QueuesInOrder'
  <2>0. /\ posted \in Seq(Tasks) /\ TheSecondQueue \in Seq(Tasks) /\ enqueuedTasks \in Seq(Tasks)
        /\ abortRequested \in Nat /\ abortRequested' \in Nat
    BY <1>3 DEF TypeOK, QueuesOK, FlagsOK, TheSecondQueue, QueuesInOrder
  <2>1. CASE Enqueue(c)
    <3>1. PICK t \in Tasks :
            /\ posted' = Append(posted, t)
            /\ IF abortRequested > 0
                 THEN /\ TheSecondQueue' = Append(TheSecondQueue, t)
                      /\ UNCHANGED enqueuedTasks
                 ELSE /\ enqueuedTasks' = Append(enqueuedTasks, t)
                      /\ UNCHANGED TheSecondQueue
      BY <2>1 DEF Enqueue, AbortPending, TheSecondQueue
    <3>2. UNCHANGED abortRequested
      BY <2>1 DEF Enqueue, abortVars
    <3>3. Range(enqueuedTasks) \subseteq Range(posted) /\ Range(TheSecondQueue) \subseteq Range(posted)
      <4>1. Range(enqueuedTasks) \subseteq Tasks /\ Range(TheSecondQueue) \subseteq Tasks
        BY <2>0, RangeOfSeq
      <4>2. Queued \subseteq Range(posted)
        BY <1>3 DEF PlacementInv, QueuesAreDisjoint
      <4>. QED
        BY <4>1, <4>2 DEF Queued, TheSecondQueue
    <3>4. \A x \in Range(posted) : PostedBefore(x, t)'
      BY <2>0, <3>1, AppendIsLast
    <3>5. \A x, y : PostedBefore(x, y) => PostedBefore(x, y)'
      BY <2>0, <3>1, AppendIsLast
    <3>6. CASE abortRequested > 0
      <4>1. /\ TheSecondQueue' = Append(TheSecondQueue, t) /\ UNCHANGED enqueuedTasks
        BY <3>1, <3>6
      <4>2. InPostingOrder(enqueuedTasks)'
        BY <1>3, <3>5, <4>1 DEF InPostingOrder, QueuesInOrder
      <4>3. InPostingOrder(TheSecondQueue)'
        <5>1. PICK q : q = TheSecondQueue
          OBVIOUS
        <5>2. q \in Seq(Tasks) /\ Range(q) \subseteq Range(posted) /\ InPostingOrder(q)
          BY <1>3, <2>0, <3>3, <5>1 DEF QueuesInOrder
        <5>3. \A i, j \in DOMAIN Append(q, t) : i < j =>
                PostedBefore(Append(q, t)[i], Append(q, t)[j])'
          BY <2>0, <3>1, <5>2, OrderedAppend
        <5>4. TheSecondQueue' = Append(q, t)
          BY <4>1, <5>1
        <5>. QED
          BY <5>3, <5>4 DEF InPostingOrder
      <4>4. \A x \in Range(enqueuedTasks'), y \in Range(TheSecondQueue') : PostedBefore(x, y)'
        <5>1. Range(TheSecondQueue') = Range(TheSecondQueue) \cup {t}
          BY <2>0, <4>1, RangeOfAppend
        <5>. QED
          BY <1>3, <3>3, <3>4, <3>5, <3>6, <4>1, <5>1 DEF QueuesInOrder
      <4>. QED
        BY <2>0, <4>1, <4>2, <4>3, <4>4 DEF QueuesInOrder
    <3>7. CASE ~(abortRequested > 0)
      <4>1. enqueuedTasks' = Append(enqueuedTasks, t) /\ UNCHANGED TheSecondQueue
        BY <3>1, <3>7
      <4>2. InPostingOrder(TheSecondQueue)'
        BY <1>3, <3>5, <4>1 DEF InPostingOrder, QueuesInOrder
      <4>3. InPostingOrder(enqueuedTasks)'
        <5>1. PICK q : q = enqueuedTasks
          OBVIOUS
        <5>2. q \in Seq(Tasks) /\ Range(q) \subseteq Range(posted) /\ InPostingOrder(q)
          BY <1>3, <2>0, <3>3, <5>1 DEF QueuesInOrder
        <5>3. \A i, j \in DOMAIN Append(q, t) : i < j =>
                PostedBefore(Append(q, t)[i], Append(q, t)[j])'
          BY <2>0, <3>1, <5>2, OrderedAppend
        <5>4. enqueuedTasks' = Append(q, t)
          BY <4>1, <5>1
        <5>. QED
          BY <5>3, <5>4 DEF InPostingOrder
      <4>4. enqueuedTasks' \in Seq(Tasks)
        BY <2>0, <4>1, AppendProperties
      <4>. QED
        BY <3>2, <3>7, <4>2, <4>3, <4>4 DEF QueuesInOrder
    <3>. QED
      BY <3>6, <3>7
  <2>2. CASE UNCHANGED queueVars
    <3>1. UNCHANGED <<enqueuedTasks, TheSecondQueue>>
          /\ \A x, y : PostedBefore(x, y)' <=> PostedBefore(x, y)
      BY <2>2 DEF queueVars, TheSecondQueue, PostedBefore
    <3>2. UNCHANGED abortRequested \/ TheSecondQueue = <<>>
      BY <1>3, ClientTouchesTasks DEF abortVars, OneAbort, AbortRequest, At, AbortLabels
    <3>3. Range(<<>>) = {}
      BY DEF Range
    <3>. QED
      BY <1>3, <3>1, <3>2, <3>3 DEF QueuesInOrder, InPostingOrder
  <2>3. ~QuitClear(c)
    BY <1>3 DEF OneAbort, QuitClear, At, QuitLabels
  <2>. QED
    BY <1>3, <2>1, <2>2, <2>3, ClientTouchesTasks
<1>4. ASSUME QueuesInOrder, UNCHANGED vars PROVE QueuesInOrder'
  BY <1>4 DEF QueuesInOrder, InPostingOrder, PostedBefore, vars, abortVars, queueVars,
     TheSecondQueue
<1>5. Behaviour # "ProcessInOrder" /\ Inv /\ Inv' /\ QueuesInOrder /\ [Next]_vars
        => QueuesInOrder'
  BY <1>2, <1>3, <1>4 DEF Next
<1>6. ASSUME Inv, Behaviour # "ProcessInOrder" => QueuesInOrder, Next,
             pc = "pick", pc' = "activate"
      PROVE  \A t \in dropped' \ dropped : t \in Skippable /\ PostedBefore(t, args')
  <2>1. PickTask
    BY <1>6, ClientStartsThread DEF Next, RunStep, ExecuteOnMainThread, Activate, Poll,
       LoopOnceReturns, RequestExecutionOnMainThread, MainThreadExecuted, ResolveQuit,
       ResolveAbort, PublishState, StopThread, FinishThread, ResetAbort,
       TakeStartRequest, GoTo, threadVars
  <2>2. CASE PickMostRecent
    <3>1. QueuesOK /\ InPostingOrder(enqueuedTasks)
      BY <1>6, <2>2 DEF TypeOK, QueuesInOrder, PickMostRecent
    <3>. QED
      BY <2>2, <3>1, MostRecentKeepsOrder DEF InPostingOrder
  <2>3. CASE ~PickMostRecent
    BY <2>1, <2>3 DEF PickTask, PickInOrder, PickNothing
  <2>. QED
    BY <2>2, <2>3
<1>7. Inv /\ (Behaviour # "ProcessInOrder" => QueuesInOrder) /\ [Next]_vars =>
        [pc = "pick" /\ pc' = "activate" =>
           \A t \in dropped' \ dropped : t \in Skippable /\ PostedBefore(t, args')]_vars
  BY <1>6
<1>8. Spec => []Inv
  BY TypeCorrect, PlacementInvariant, OneAbortCorrect, PTL
<1>9. Spec => [](Behaviour # "ProcessInOrder" => QueuesInOrder)
  <2>1. CASE Behaviour = "ProcessInOrder"
    <3>1. Behaviour # "ProcessInOrder" => QueuesInOrder
      BY <2>1
    <3>. QED
      BY <3>1, PTL
  <2>2. CASE Behaviour # "ProcessInOrder"
    <3>1. Inv /\ Inv' /\ QueuesInOrder /\ [Next]_vars => QueuesInOrder'
      BY <1>5, <2>2
    <3>2. QueuesInOrder => (Behaviour # "ProcessInOrder" => QueuesInOrder)
      OBVIOUS
    <3>. HIDE DEF Inv
    <3>. QED
      BY <1>1, <1>8, <3>1, <3>2, PTL DEF Spec
  <2>. QED
    BY <2>1, <2>2
<1>. HIDE DEF Inv
<1>. QED
  BY <1>7, <1>8, <1>9, PTL DEF Spec, SkipsOnlyOutdated
=============================================================================
