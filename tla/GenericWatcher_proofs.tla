------------------------ MODULE GenericWatcher_proofs ------------------------
(* Theorems about GenericWatcher, for any tasks and number of stops. *)
EXTENDS GenericWatcher, SequenceTheorems, TLAPS

USE WatcherAssumption

(* t was scheduled before u. *)
BeforeIn(q, t, u) == \E k, l \in DOMAIN q : k < l /\ q[k] = t /\ q[l] = u
Before(t, u) == BeforeIn(scheduled, t, u)

InHand == pc \in {"handle", "emit"}
Scheduling == opc \in {"lock", "push", "pushing"}

(* What the owner schedules is new, and what the watcher pops is the front *)
(* of its list: it holds the mutex from the look to the pop.               *)
HandsOK ==
    /\ Scheduling => current \in Tasks \ Range(scheduled)
    /\ pc = "popping" => tasks # <<>> /\ taskID = Head(tasks)
    /\ InHand => taskID \in Range(scheduled)
    /\ \A i, j \in DOMAIN scheduled : scheduled[i] = scheduled[j] => i = j

(* Finished, then in hand, then waiting: each group was scheduled before   *)
(* the next, and each is in order.                                         *)
LineOK ==
    /\ Range(finished) \cup Range(tasks) \subseteq Range(scheduled)
    /\ \A i, j \in DOMAIN finished : i < j => Before(finished[i], finished[j])
    /\ \A i, j \in DOMAIN tasks : i < j => Before(tasks[i], tasks[j])
    /\ \A t \in Range(finished), u \in Range(tasks) : Before(t, u)
    /\ InHand => /\ \A t \in Range(finished) : Before(t, taskID)
                 /\ \A u \in Range(tasks) : Before(taskID, u)

(* PostStartRequest() never makes a second request; each stop makes one.   *)
RequestsOK ==
    startRequests + (IF opc \in {"stop_clear", "stop_flag"} THEN 1 ELSE 0)
        <= stops + 1

IInv == TypeOK /\ HandsOK /\ LineOK /\ RequestsOK

(* "taskFinished" is emitted once per task.                                *)
EmittedOnce == \A i, j \in DOMAIN finished : finished[i] = finished[j] => i = j

-----------------------------------------------------------------------------
(* Lemmas on the lists                                                     *)

(* What appending to a list gives.                                         *)
LEMMA AppendFacts ==
  ASSUME NEW S, NEW q \in Seq(S), NEW x \in S
  PROVE  /\ Append(q, x) \in Seq(S)
         /\ DOMAIN q = 1..Len(q) /\ Len(q) \in Nat
         /\ DOMAIN Append(q, x) = 1..(Len(q) + 1)
         /\ Append(q, x)[Len(q) + 1] = x
         /\ \A i \in DOMAIN q : Append(q, x)[i] = q[i]
         /\ Range(Append(q, x)) = Range(q) \cup {x}
<1>1. /\ Append(q, x) \in Seq(S)
      /\ DOMAIN q = 1..Len(q) /\ Len(q) \in Nat
      /\ DOMAIN Append(q, x) = 1..(Len(q) + 1)
      /\ Append(q, x)[Len(q) + 1] = x
      /\ \A i \in DOMAIN q : Append(q, x)[i] = q[i]
  BY AppendProperties, LenProperties
<1>. QED
  BY <1>1 DEF Range

(* What taking the front of a list gives.                                  *)
LEMMA TailFacts ==
  ASSUME NEW S, NEW q \in Seq(S), q # <<>>
  PROVE  /\ Tail(q) \in Seq(S) /\ Head(q) \in S /\ Head(q) \in Range(q)
         /\ DOMAIN q = 1..Len(q) /\ Len(q) \in Nat \ {0} /\ q[1] = Head(q)
         /\ DOMAIN Tail(q) = 1..(Len(q) - 1)
         /\ \A i \in 1..(Len(q) - 1) : Tail(q)[i] = q[i + 1]
         /\ Range(Tail(q)) \subseteq Range(q)
<1>1. /\ Tail(q) \in Seq(S) /\ Head(q) \in S /\ q[1] = Head(q)
      /\ DOMAIN q = 1..Len(q) /\ Len(q) \in Nat \ {0}
      /\ DOMAIN Tail(q) = 1..(Len(q) - 1)
      /\ \A i \in 1..(Len(q) - 1) : Tail(q)[i] = q[i + 1]
  BY HeadTailProperties, LenProperties, EmptySeq
<1>. QED
  BY <1>1 DEF Range

(* A task is scheduled after every task that was.                          *)
LEMMA NewIsLast ==
  ASSUME TypeOK, NEW x \in Tasks, scheduled' = Append(scheduled, x)
  PROVE  /\ \A t, u : Before(t, u) => BeforeIn(scheduled', t, u)
         /\ \A t \in Range(scheduled) : BeforeIn(scheduled', t, x)
<1>1. /\ DOMAIN scheduled = 1..Len(scheduled) /\ Len(scheduled) \in Nat
      /\ DOMAIN scheduled' = 1..(Len(scheduled) + 1)
      /\ scheduled'[Len(scheduled) + 1] = x
      /\ \A i \in DOMAIN scheduled : scheduled'[i] = scheduled[i]
  BY AppendFacts DEF TypeOK
<1>2. ASSUME NEW t, NEW u, Before(t, u) PROVE BeforeIn(scheduled', t, u)
  BY <1>1, <1>2 DEF Before, BeforeIn
<1>3. ASSUME NEW t \in Range(scheduled) PROVE BeforeIn(scheduled', t, x)
  <2>1. PICK k \in DOMAIN scheduled : scheduled[k] = t
    BY DEF Range
  <2>2. /\ k \in DOMAIN scheduled' /\ Len(scheduled) + 1 \in DOMAIN scheduled'
        /\ k < Len(scheduled) + 1
        /\ scheduled'[k] = t
    BY <1>1, <2>1
  <2>. QED
    BY <1>1, <2>2 DEF BeforeIn
<1>. QED
  BY <1>2, <1>3

-----------------------------------------------------------------------------
(* The invariant *)

(* Initially nothing is scheduled.                                         *)
LEMMA InvInit == Init => IInv
<1> SUFFICES ASSUME Init PROVE IInv
  OBVIOUS
<1>1. TypeOK
  <2>1. startRequests \in 0..(MaxStops + 1) /\ stops \in 0..MaxStops
    BY DEF Init
  <2>2. /\ tasks \in Seq(Tasks) /\ scheduled \in Seq(Tasks) /\ finished \in Seq(Tasks)
    BY DEF Init
  <2>3. pc \in RunLabels /\ opc \in OwnerLabels
    BY DEF Init, RunLabels, OwnerLabels
  <2>. QED
    BY <2>1, <2>2, <2>3 DEF Init, TypeOK
<1>2. HandsOK
  BY DEF Init, HandsOK, Scheduling, InHand
<1>3. LineOK
  BY DEF Init, LineOK, InHand, Range
<1>4. RequestsOK
  BY DEF Init, RequestsOK
<1>. QED
  BY <1>1, <1>2, <1>3, <1>4 DEF IInv

(* A step that moves no task keeps the order.                              *)
LEMMA NothingMoves ==
  ASSUME LineOK, UNCHANGED <<tasks, scheduled, finished, taskID>>, InHand' => InHand
  PROVE  LineOK'
BY DEF LineOK, Before

(* The watcher moves the front of its list to its hand, and then to the    *)
(* tasks it reported.                                                      *)
LEMMA WatcherKeepsInv ==
  ASSUME IInv, RunStep
  PROVE  IInv'
<1> USE DEF IInv
<1>1. UNCHANGED <<ownerVars, oneAtATime>>
  BY DEF RunStep, TopOfLoop, LookAtFront, PopTask, HandleBlockingTask,
     EmitTaskFinished, TakeStartRequest, Finish
<1>2. CASE LookAtFront
  <2>1. /\ UNCHANGED <<tasks, mustQuit, startRequests, running, answered, finished>>
        /\ \/ tasks = <<>> /\ taskID' = NoTask /\ pc' = "sleep"
           \/ tasks # <<>> /\ taskID' = Head(tasks) /\ pc' = "popping"
    BY <1>2 DEF LookAtFront, Front
  <2>2. TypeOK'
    BY <1>1, <2>1, TailFacts DEF TypeOK, ownerVars, RunLabels
  <2>3. HandsOK' /\ RequestsOK'
    BY <1>1, <2>1 DEF HandsOK, RequestsOK, ownerVars, Scheduling, InHand
  <2>4. LineOK'
    BY <1>1, <2>1 DEF LineOK, ownerVars, InHand, Before
  <2>. QED
    BY <2>2, <2>3, <2>4
<1>3. CASE PopTask
  <2>1. /\ pc = "popping" /\ pc' = "handle" /\ tasks' = Tail(tasks)
        /\ answered' = FALSE
        /\ UNCHANGED <<mustQuit, startRequests, running, taskID, finished>>
    BY <1>3 DEF PopTask
  <2>2. tasks \in Seq(Tasks) /\ tasks # <<>> /\ taskID = Head(tasks)
    BY <2>1 DEF TypeOK, HandsOK
  <2>3. /\ Tail(tasks) \in Seq(Tasks) /\ Head(tasks) \in Range(tasks)
        /\ DOMAIN tasks = 1..Len(tasks) /\ Len(tasks) \in Nat \ {0}
        /\ tasks[1] = taskID
        /\ DOMAIN Tail(tasks) = 1..(Len(tasks) - 1)
        /\ \A i \in 1..(Len(tasks) - 1) : Tail(tasks)[i] = tasks[i + 1]
        /\ Range(Tail(tasks)) \subseteq Range(tasks)
    BY <2>2, TailFacts
  <2>4. TypeOK'
    BY <1>1, <2>1, <2>3 DEF TypeOK, ownerVars, RunLabels
  <2>5. HandsOK' /\ RequestsOK'
    BY <1>1, <2>1, <2>2, <2>3 DEF HandsOK, LineOK, RequestsOK, ownerVars, Scheduling, InHand
  <2>6. LineOK'
    <3>0. UNCHANGED scheduled
      BY <1>1 DEF ownerVars
    <3>1. Range(finished') \cup Range(tasks') \subseteq Range(scheduled')
      BY <2>1, <2>3, <3>0 DEF LineOK
    <3>2. \A i, j \in DOMAIN tasks' : i < j => Before(tasks'[i], tasks'[j])
      BY <2>1, <2>3 DEF LineOK
    <3>3. \A u \in Range(tasks') : Before(taskID, u)
      <4>1. ASSUME NEW i \in 1..(Len(tasks) - 1) PROVE Before(taskID, Tail(tasks)[i])
        <5>1. 1 \in DOMAIN tasks /\ i + 1 \in DOMAIN tasks /\ 1 < i + 1
          BY <2>3
        <5>2. Before(tasks[1], tasks[i + 1])
          BY <5>1 DEF LineOK
        <5>. QED
          BY <2>3, <5>2
      <4>. QED
        BY <2>1, <2>3, <4>1 DEF Range
    <3>4. \A t \in Range(finished) : Before(t, taskID)
      BY <2>2, <2>3 DEF LineOK
    <3>5. \A t \in Range(finished), u \in Range(tasks') : Before(t, u)
      BY <2>1, <2>3 DEF LineOK
    <3>6. \A i, j \in DOMAIN finished : i < j => Before(finished[i], finished[j])
      BY DEF LineOK
    <3>. QED
      BY <2>1, <3>0, <3>1, <3>2, <3>3, <3>4, <3>5, <3>6 DEF LineOK, Before
  <2>. QED
    BY <2>4, <2>5, <2>6
<1>4. CASE EmitTaskFinished
  <2>1. /\ pc = "emit" /\ pc' = "sleep" /\ finished' = Append(finished, taskID)
        /\ UNCHANGED <<tasks, mustQuit, startRequests, running, taskID, answered>>
    BY <1>4 DEF EmitTaskFinished
  <2>2. taskID \in Tasks /\ taskID \in Range(scheduled)
    BY <2>1 DEF TypeOK, HandsOK, InHand, Range
  <2>3. /\ finished' \in Seq(Tasks)
        /\ DOMAIN finished = 1..Len(finished) /\ Len(finished) \in Nat
        /\ DOMAIN finished' = 1..(Len(finished) + 1)
        /\ finished'[Len(finished) + 1] = taskID
        /\ \A i \in DOMAIN finished : finished'[i] = finished[i]
        /\ Range(finished') = Range(finished) \cup {taskID}
    BY <2>1, <2>2, AppendFacts DEF TypeOK
  <2>4. TypeOK'
    BY <1>1, <2>1, <2>3 DEF TypeOK, ownerVars, RunLabels
  <2>5. HandsOK' /\ RequestsOK'
    BY <1>1, <2>1 DEF HandsOK, RequestsOK, ownerVars, Scheduling, InHand
  <2>6. LineOK'
    <3>0. UNCHANGED scheduled
      BY <1>1 DEF ownerVars
    <3>1. ASSUME NEW i \in DOMAIN finished', NEW j \in DOMAIN finished', i < j
          PROVE  Before(finished'[i], finished'[j])
      <4>1. i \in DOMAIN finished
        BY <2>3, <3>1
      <4>2. CASE j \in DOMAIN finished
        BY <2>3, <3>1, <4>1, <4>2 DEF LineOK
      <4>3. CASE j = Len(finished) + 1
        BY <2>1, <2>3, <4>1, <4>3 DEF LineOK, InHand, Range
      <4>. QED
        BY <2>3, <4>2, <4>3
    <3>2. \A t \in Range(finished'), u \in Range(tasks) : Before(t, u)
      BY <2>1, <2>3 DEF LineOK, InHand
    <3>. QED
      BY <2>1, <2>2, <2>3, <3>0, <3>1, <3>2 DEF LineOK, InHand, Before
  <2>. QED
    BY <2>4, <2>5, <2>6
<1>5. CASE TopOfLoop \/ HandleBlockingTask \/ TakeStartRequest \/ Finish
  <2>1. /\ UNCHANGED <<tasks, scheduled, finished, taskID>>
        /\ InHand' => InHand
        /\ pc' # "popping" /\ pc' \in RunLabels
        /\ startRequests' = startRequests \/ startRequests' = 0
        /\ mustQuit' \in BOOLEAN /\ running' \in BOOLEAN /\ answered' \in BOOLEAN
    BY <1>1, <1>5 DEF TypeOK, TopOfLoop, HandleBlockingTask, TakeStartRequest, Finish,
       RequestsLeft, InHand, ownerVars, RunLabels
  <2>2. LineOK'
    BY <2>1, NothingMoves
  <2>3. HandsOK'
    BY <1>1, <2>1 DEF HandsOK, ownerVars, Scheduling
  <2>4. TypeOK' /\ RequestsOK'
    BY <1>1, <2>1 DEF TypeOK, RequestsOK, ownerVars
  <2>. QED
    BY <2>2, <2>3, <2>4
<1>. QED
  BY <1>2, <1>3, <1>4, <1>5 DEF RunStep

(* The owner adds to the end of the list, or empties it.                   *)
LEMMA OwnerKeepsInv ==
  ASSUME IInv, OwnerStep \/ StopWatching \/ \E t \in Tasks : Schedule(t)
  PROVE  IInv'
<1> USE DEF IInv
<1>1. CASE PushTask
  <2>1. /\ opc = "pushing" /\ opc' = "running"
        /\ tasks' = Append(tasks, current) /\ scheduled' = Append(scheduled, current)
        /\ UNCHANGED <<mustQuit, startRequests, watcherVars, current, cleared, stops,
                       oneAtATime>>
    BY <1>1 DEF PushTask, OwnerStep, StopWatching, Schedule
  <2>2. current \in Tasks /\ current \notin Range(scheduled)
    BY <2>1 DEF HandsOK, Scheduling
  <2>3. /\ tasks' \in Seq(Tasks)
        /\ DOMAIN tasks = 1..Len(tasks) /\ Len(tasks) \in Nat
        /\ DOMAIN tasks' = 1..(Len(tasks) + 1)
        /\ tasks'[Len(tasks) + 1] = current
        /\ \A i \in DOMAIN tasks : tasks'[i] = tasks[i]
        /\ Range(tasks') = Range(tasks) \cup {current}
    BY <2>1, <2>2, AppendFacts DEF TypeOK
  <2>4. /\ scheduled' \in Seq(Tasks)
        /\ DOMAIN scheduled = 1..Len(scheduled) /\ Len(scheduled) \in Nat
        /\ DOMAIN scheduled' = 1..(Len(scheduled) + 1)
        /\ scheduled'[Len(scheduled) + 1] = current
        /\ \A i \in DOMAIN scheduled : scheduled'[i] = scheduled[i]
        /\ Range(scheduled') = Range(scheduled) \cup {current}
    BY <2>1, <2>2, AppendFacts DEF TypeOK
  <2>5. /\ \A t, u : Before(t, u) => BeforeIn(scheduled', t, u)
        /\ \A t \in Range(scheduled) : BeforeIn(scheduled', t, current)
    BY <2>1, <2>2, NewIsLast
  <2>6. UNCHANGED <<pc, taskID, finished>> /\ InHand' = InHand
    BY <2>1 DEF watcherVars, InHand
  <2>7. TypeOK' /\ RequestsOK'
    BY <2>1, <2>3, <2>4 DEF TypeOK, RequestsOK, watcherVars, OwnerLabels
  <2>8. HandsOK'
    <3>1. \A i, j \in DOMAIN scheduled' : scheduled'[i] = scheduled'[j] => i = j
      <4>1. \A i \in DOMAIN scheduled : scheduled[i] # current
        BY <2>2 DEF Range
      <4>. QED
        BY <2>4, <4>1 DEF HandsOK
    <3>2. pc' = "popping" => tasks' # <<>> /\ taskID' = Head(tasks')
      <4>1. ASSUME pc = "popping" PROVE tasks' # <<>> /\ taskID = Head(tasks')
        <5>1. tasks \in Seq(Tasks) /\ tasks # <<>> /\ taskID = Head(tasks)
          BY <4>1 DEF TypeOK, HandsOK
        <5>2. 1 \in DOMAIN tasks /\ tasks[1] = taskID
          BY <5>1, TailFacts
        <5>3. tasks' # <<>> /\ tasks'[1] = taskID
          BY <2>3, <5>2
        <5>. QED
          BY <2>3, <5>3, TailFacts
      <4>. QED
        BY <2>6, <4>1
    <3>. QED
      BY <2>1, <2>4, <2>6, <3>1, <3>2 DEF HandsOK, Scheduling
  <2>9. LineOK'
    <3>. DEFINE After(x, y) == BeforeIn(scheduled', x, y)
    <3>0. Range(finished) \cup Range(tasks) \subseteq Range(scheduled)
      BY DEF LineOK
    <3>1. Range(finished') \cup Range(tasks') \subseteq Range(scheduled')
      BY <2>3, <2>4, <2>6, <3>0
    <3>2. \A i, j \in DOMAIN finished' : i < j => After(finished'[i], finished'[j])
      BY <2>5, <2>6 DEF LineOK
    <3>3. ASSUME NEW i \in DOMAIN tasks', NEW j \in DOMAIN tasks', i < j
          PROVE  After(tasks'[i], tasks'[j])
      <4>1. i \in DOMAIN tasks /\ tasks'[i] = tasks[i]
        BY <2>3, <3>3
      <4>2. CASE j \in DOMAIN tasks
        <5>1. Before(tasks[i], tasks[j])
          BY <3>3, <4>1, <4>2 DEF LineOK
        <5>. QED
          BY <2>3, <2>5, <4>1, <4>2, <5>1
      <4>3. CASE j = Len(tasks) + 1
        <5>1. tasks[i] \in Range(scheduled)
          BY <3>0, <4>1 DEF Range
        <5>. QED
          BY <2>3, <2>5, <4>1, <4>3, <5>1
      <4>. QED
        BY <2>3, <4>2, <4>3
    <3>4. ASSUME NEW t \in Range(finished'), NEW u \in Range(tasks')
          PROVE  After(t, u)
      <4>1. t \in Range(finished) /\ t \in Range(scheduled)
        BY <2>6, <3>0
      <4>2. CASE u \in Range(tasks)
        BY <2>5, <4>1, <4>2 DEF LineOK
      <4>. QED
        BY <2>3, <2>5, <4>1, <4>2
    <3>5. ASSUME InHand'
          PROVE  /\ \A t \in Range(finished') : After(t, taskID')
                 /\ \A u \in Range(tasks') : After(taskID', u)
      <4>1. InHand /\ taskID \in Range(scheduled)
        BY <2>6, <3>5 DEF HandsOK
      <4>2. \A t \in Range(finished) : Before(t, taskID)
        BY <4>1 DEF LineOK
      <4>3. \A u \in Range(tasks) : Before(taskID, u)
        BY <4>1 DEF LineOK
      <4>. QED
        BY <2>3, <2>5, <2>6, <4>1, <4>2, <4>3
    <3>. QED
      BY <3>1, <3>2, <3>3, <3>4, <3>5 DEF LineOK, Before
  <2>. QED
    BY <2>7, <2>8, <2>9
<1>2. CASE StopClear
  <2>1. /\ opc = "stop_clear" /\ opc' = "stop_flag" /\ pc # "popping"
        /\ tasks' = <<>> /\ cleared' = cleared \cup Range(tasks)
        /\ UNCHANGED <<mustQuit, startRequests, watcherVars, current, scheduled, stops,
                       oneAtATime>>
    BY <1>2 DEF StopClear, OwnerStep, StopWatching, Schedule
  <2>2. Range(tasks') = {} /\ DOMAIN tasks' = {} /\ tasks' \in Seq(Tasks)
    BY <2>1 DEF Range
  <2>3. Range(tasks) \subseteq Tasks
    BY DEF TypeOK, Range
  <2>4. TypeOK' /\ RequestsOK'
    BY <2>1, <2>2, <2>3 DEF TypeOK, RequestsOK, watcherVars, OwnerLabels
  <2>5. HandsOK'
    BY <2>1 DEF HandsOK, watcherVars, InHand, Scheduling
  <2>6. LineOK'
    BY <2>1, <2>2 DEF LineOK, watcherVars, InHand, Before
  <2>. QED
    BY <2>4, <2>5, <2>6
<1>3. CASE ~PushTask /\ ~StopClear
  <2>1. UNCHANGED <<tasks, scheduled, finished, taskID, cleared, oneAtATime>>
    BY <1>3 DEF OwnerStep, LockAndUnlock, BeginPush, StartOrWake, PostStartRequest,
       StopFlag, StopWait, StopJoin, StopWatching, Schedule, watcherVars
  <2>2. pc' = pc \/ pc' = "top"
    BY <1>3 DEF OwnerStep, LockAndUnlock, BeginPush, StartOrWake, PostStartRequest,
       StopFlag, StopWait, StopJoin, StopWatching, Schedule, watcherVars
  <2>3. LineOK'
    BY <2>1, <2>2, NothingMoves DEF InHand
  <2>4. HandsOK'
    <3>1. Scheduling' => current' \in Tasks \ Range(scheduled)
      BY <1>3 DEF HandsOK, OwnerStep, LockAndUnlock, BeginPush, StartOrWake,
         PostStartRequest, StopFlag, StopWait, StopJoin, StopWatching, Schedule,
         Scheduling
    <3>. QED
      BY <2>1, <2>2, <3>1 DEF HandsOK, InHand
  <2>5. /\ mustQuit' \in BOOLEAN /\ running' \in BOOLEAN /\ answered' \in BOOLEAN
        /\ pc' \in RunLabels /\ opc' \in OwnerLabels /\ current' \in Tasks \cup {NoTask}
    BY <1>3 DEF TypeOK, OwnerStep, LockAndUnlock, BeginPush, StartOrWake,
       PostStartRequest, StopFlag, StopWait, StopJoin, StopWatching, Schedule,
       watcherVars, RunLabels, OwnerLabels
  <2>6. RequestsOK' /\ startRequests' \in Nat /\ stops' \in 0..MaxStops
    <3>0. startRequests \in Nat /\ stops \in Nat /\ stops <= MaxStops
      BY DEF TypeOK
    <3>1. CASE StopWatching
      BY <3>0, <3>1 DEF StopWatching, RequestsOK
    <3>2. CASE StopFlag
      BY <1>3, <3>0, <3>2 DEF StopFlag, StubRequests, RequestsOK
    <3>3. CASE PostStartRequest
      BY <1>3, <3>0, <3>3 DEF PostStartRequest, MoreRequests, RequestsOK
    <3>4. CASE ~StopWatching /\ ~StopFlag /\ ~PostStartRequest
      <4>1. UNCHANGED <<startRequests, stops>> /\ opc' \notin {"stop_clear", "stop_flag"}
        BY <1>3, <3>4 DEF OwnerStep, LockAndUnlock, BeginPush, StartOrWake,
           StopWait, StopJoin, Schedule
      <4>. QED
        BY <3>0, <4>1 DEF RequestsOK
    <3>. QED
      BY <3>1, <3>2, <3>3, <3>4
  <2>7. startRequests' \in 0..(MaxStops + 1)
    <3>. DEFINE a == startRequests'
                b == stops'
                n == IF opc' \in {"stop_clear", "stop_flag"} THEN 1 ELSE 0
    <3>1. a + n <= b + 1
      BY <2>6 DEF RequestsOK
    <3>2. a \in Nat /\ b \in Nat /\ b <= MaxStops /\ n \in Nat /\ MaxStops \in Nat
      BY <2>6
    <3>. HIDE DEF a, b, n
    <3>3. a <= MaxStops + 1
      BY <3>1, <3>2
    <3>. QED
      BY <3>2, <3>3 DEF a
  <2>8. TypeOK'
    BY <2>1, <2>5, <2>6, <2>7 DEF TypeOK
  <2>. QED
    BY <2>3, <2>4, <2>6, <2>8
<1>. QED
  BY <1>1, <1>2, <1>3

(* A task's place in line is its place in the history of schedules.        *)
LEMMA LineImpliesOrder ==
  ASSUME IInv
  PROVE  WatcherInv /\ EmittedOnce
<1>1. FinishedInOrder
  BY DEF IInv, LineOK, Before, BeforeIn, FinishedInOrder
<1>2. ASSUME NEW i \in DOMAIN finished, NEW j \in DOMAIN finished,
             finished[i] = finished[j], i < j
      PROVE  FALSE
  BY <1>2 DEF IInv, LineOK, HandsOK, Before, BeforeIn, TypeOK
<1>3. \A i \in DOMAIN finished : i \in Nat
  BY LenProperties DEF IInv, TypeOK
<1>4. EmittedOnce
  BY <1>2, <1>3 DEF EmittedOnce
<1>. QED
  BY <1>1, <1>4 DEF WatcherInv, IInv

(* WatcherInv and EmittedOnce: however scheduling, popping and stopping    *)
(* interleave, "taskFinished" is emitted once per task and in the order    *)
(* the tasks were scheduled.                                               *)
THEOREM ReportsInOrder == Spec => [](WatcherInv /\ EmittedOnce)
<1>1. IInv /\ [Next]_vars => IInv'
  <2>1. ASSUME IInv, AnswerOnMainThread PROVE IInv'
    <3>1. /\ UNCHANGED <<tasks, mustQuit, startRequests, running, pc, taskID, finished,
                         ownerVars, oneAtATime>>
          /\ answered' = TRUE
      BY <2>1 DEF AnswerOnMainThread
    <3>. QED
      BY <2>1, <3>1, NothingMoves DEF IInv, TypeOK, HandsOK, RequestsOK, ownerVars,
         InHand, Scheduling
  <2>2. ASSUME IInv, UNCHANGED vars PROVE IInv'
    BY <2>2, NothingMoves DEF IInv, TypeOK, HandsOK, RequestsOK, vars, watcherVars,
       ownerVars, InHand, Scheduling
  <2>. QED
    BY <2>1, <2>2, WatcherKeepsInv, OwnerKeepsInv DEF Next
<1>2. IInv => WatcherInv /\ EmittedOnce
  BY LineImpliesOrder
<1>. QED
  BY InvInit, <1>1, <1>2, PTL DEF Spec
=============================================================================
