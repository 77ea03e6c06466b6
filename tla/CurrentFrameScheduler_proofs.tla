-------------------- MODULE CurrentFrameScheduler_proofs --------------------
(* Theorems about CurrentFrameScheduler, for any number of requests, aborts *)
(* and quits.                                                              *)
EXTENDS CurrentFrameScheduler, Subsequences_proofs

-----------------------------------------------------------------------------
(* The requests and the threads                                            *)

(* What the constants are.                                                 *)
LEMMA AgesFacts ==
  /\ Ages \subseteq Nat \ {0}
  /\ Stub \notin Ages /\ NoTask \notin Ages /\ NoImage \notin Ages /\ Stub # NoTask
BY RequestsAssumption DEF Ages

(* The requests made are ages, and the next one is new.                    *)
LEMMA RequestedFacts ==
  ASSUME requested \in 0 .. MaxRequests
  PROVE  /\ requested \in Nat /\ 1 .. requested \subseteq Ages
         /\ requested < MaxRequests =>
              /\ requested + 1 \in Ages /\ requested + 1 \in 0 .. MaxRequests
              /\ 1 .. requested \subseteq 1 .. (requested + 1)
BY RequestsAssumption DEF Ages

(* The fields of a thread.                                                 *)
LEMMA Fields ==
  ASSUME NEW r \in Thread
  PROVE  /\ r.queue \in Seq(Ages \cup {Stub}) /\ r.late \in Seq(Ages)
         /\ r.overdue \subseteq Ages /\ r.task \in Ages \cup {Stub, NoTask}
         /\ r.label \in Labels /\ r.wakes \in Nat
         /\ r.aborting \in BOOLEAN /\ r.mustQuit \in BOOLEAN
BY DEF Thread

(* startTask(): the task is at the end of a queue, or the thread is as it  *)
(* was.                                                                    *)
LEMMA StartTaskFacts ==
  ASSUME NEW r \in Thread, NEW a \in Ages
  PROVE  /\ AfterStartTask(r, a) \in Thread
         /\ AfterStartTask(r, a).task = r.task
         /\ AfterStartTask(r, a).aborting = r.aborting
         /\ AfterStartTask(r, a).overdue = r.overdue
         /\ ~Accepts(r) => AfterStartTask(r, a) = r
         /\ Accepts(r) =>
              /\ AfterStartTask(r, a).label = IF r.label = "off" THEN "pick" ELSE r.label
              /\ AfterStartTask(r, a).queue =
                   IF r.aborting THEN r.queue ELSE Append(r.queue, a)
              /\ AfterStartTask(r, a).late =
                   IF r.aborting THEN Append(r.late, a) ELSE r.late
<1> DEFINE e == Enqueued(r, a)
<1>1. /\ Append(r.queue, a) \in Seq(Ages \cup {Stub})
      /\ Append(r.late, a) \in Seq(Ages)
  BY Fields, AppendProperties
<1>2. /\ e \in Thread /\ e.task = r.task /\ e.aborting = r.aborting
      /\ e.overdue = r.overdue /\ e.label = r.label
      /\ e.queue = IF r.aborting THEN r.queue ELSE Append(r.queue, a)
      /\ e.late = IF r.aborting THEN Append(r.late, a) ELSE r.late
  BY <1>1 DEF Enqueued, Thread
<1> HIDE DEF e
<1>3. /\ Started(e) \in Thread /\ Started(e).task = e.task
      /\ Started(e).aborting = e.aborting
      /\ Started(e).overdue = e.overdue /\ Started(e).queue = e.queue
      /\ Started(e).late = e.late
      /\ Started(e).label = IF e.label = "off" THEN "pick" ELSE e.label
  <2>1. "pick" \in Labels
    BY DEF Labels
  <2>2. CASE e.label = "off"
    BY <1>2, <2>1, <2>2 DEF Started, Thread
  <2>3. CASE e.label # "off"
    <3> DEFINE w == e.wakes + 1
    <3>1. w \in Nat
      BY <1>2, Fields
    <3>2. Started(e) = [e EXCEPT !.wakes = w]
      BY <2>3 DEF Started
    <3> HIDE DEF w
    <3>. QED
      BY <1>2, <2>3, <3>1, <3>2 DEF Thread
  <2>. QED
    BY <2>2, <2>3
<1>. QED
  BY <1>2, <1>3 DEF AfterStartTask, e

(* run() takes the last task, and keeps those that may not be skipped.     *)
LEMMA PickedFacts ==
  ASSUME NEW r \in Thread, NEW l \in Labels
  PROVE  /\ Picked(r, l) \in Thread
         /\ Picked(r, l).late = r.late
         /\ Picked(r, l).aborting = r.aborting /\ Picked(r, l).overdue = r.overdue
         /\ r.queue = <<>> =>
              Picked(r, l).label = "resolve" /\ Picked(r, l).queue = <<>>
         /\ r.queue # <<>> =>
              /\ Len(r.queue) \in DOMAIN r.queue
              /\ Picked(r, l).task = r.queue[Len(r.queue)]
              /\ Picked(r, l).task \in Ages \cup {Stub}
              /\ Picked(r, l).label = AfterPick(r.queue[Len(r.queue)], l)
              /\ Older(r) \in Seq(Ages \cup {Stub})
              /\ Picked(r, l).queue = Kept(Older(r))
              /\ Range(Picked(r, l).queue) = Range(Older(r)) \cap neat
              /\ IsInjective(r.queue) => IsInjective(Picked(r, l).queue)
         /\ Range(Picked(r, l).queue) \subseteq Range(r.queue)
<1> DEFINE n == Len(r.queue)
           S == Ages \cup {Stub}
<1>0. r.queue \in Seq(S)
  BY DEF Thread
<1>1. CASE r.queue = <<>>
  <2>1. NoTask \in Ages \cup {Stub, NoTask}
    OBVIOUS
  <2>. QED
    BY <1>1, <2>1 DEF Picked, Thread, Labels
<1>2. CASE r.queue # <<>>
  <2>1. n \in Nat \ {0} /\ n \in DOMAIN r.queue /\ n - 1 \in 0 .. n /\ r.queue[n] \in S
    BY <1>0, <1>2, LenProperties, EmptySeq, ElementOfSeq
  <2>2. /\ Older(r) \in Seq(S) /\ Range(Older(r)) \subseteq Range(r.queue)
        /\ IsInjective(r.queue) => IsInjective(Older(r))
    BY <1>0, <2>1, PrefixOfList DEF Older
  <2>3. /\ Kept(Older(r)) \in Seq(S)
        /\ Range(Kept(Older(r))) = Range(Older(r)) \cap neat
        /\ IsInjective(Older(r)) => IsInjective(Kept(Older(r)))
    BY <2>2, FilterProperties DEF Kept
  <2>4. AfterPick(r.queue[n], l) \in Labels
    BY DEF AfterPick, Labels
  <2> DEFINE k == Kept(Older(r))
             a == r.queue[n]
             m == AfterPick(a, l)
  <2>5. Picked(r, l) = [r EXCEPT !.task = a, !.queue = k, !.state = "Active", !.label = m]
    BY <1>2 DEF Picked
  <2>6. k \in Seq(S) /\ a \in S /\ m \in Labels
    BY <2>1, <2>3, <2>4
  <2> HIDE DEF k, a, m
  <2>7. /\ Picked(r, l) \in Thread /\ Picked(r, l).late = r.late
        /\ Picked(r, l).aborting = r.aborting /\ Picked(r, l).overdue = r.overdue
        /\ Picked(r, l).task = a /\ Picked(r, l).queue = k /\ Picked(r, l).label = m
    BY <2>5, <2>6 DEF Thread
  <2>. QED
    BY <1>2, <2>1, <2>2, <2>3, <2>6, <2>7 DEF k, a, m
<1>. QED
  BY <1>1, <1>2

(* resolveState() changes the flags of a quit and the result.              *)
LEMMA ResolvedFacts ==
  ASSUME NEW r \in Thread, NEW l \in Labels
  PROVE  /\ Resolved(r) \in Thread
         /\ Resolved(r).queue = r.queue /\ Resolved(r).late = r.late
         /\ Resolved(r).aborting = r.aborting /\ Resolved(r).overdue = r.overdue
         /\ Resolved(r).label = r.label /\ Resolved(r).task = r.task
         /\ [Resolved(r) EXCEPT !.label = l] \in Thread
         /\ [Resolved(r) EXCEPT !.label = l].queue = r.queue
         /\ [Resolved(r) EXCEPT !.label = l].late = r.late
         /\ [Resolved(r) EXCEPT !.label = l].aborting = r.aborting
         /\ [Resolved(r) EXCEPT !.label = l].overdue = r.overdue
         /\ [Resolved(r) EXCEPT !.label = l].label = l
         /\ [Resolved(r) EXCEPT !.label = l].task = r.task
<1> DEFINE e == Resolved(r)
<1>1. /\ e \in Thread /\ e.queue = r.queue /\ e.late = r.late /\ e.aborting = r.aborting
      /\ e.overdue = r.overdue /\ e.label = r.label /\ e.task = r.task
  BY DEF Resolved, Thread
<1> HIDE DEF e
<1>2. /\ [e EXCEPT !.label = l] \in Thread /\ [e EXCEPT !.label = l].label = l
      /\ [e EXCEPT !.label = l].queue = e.queue /\ [e EXCEPT !.label = l].late = e.late
      /\ [e EXCEPT !.label = l].aborting = e.aborting
      /\ [e EXCEPT !.label = l].overdue = e.overdue
      /\ [e EXCEPT !.label = l].task = e.task
  BY <1>1 DEF Thread
<1>. QED
  BY <1>1, <1>2 DEF e

(* The thread at the end of an iteration.                                  *)
After(r) == [Finished(r) EXCEPT !.task = NoTask, !.result = "Active"]

(* It stops, merges its queues, or sleeps with what an abort has left in   *)
(* the second one overdue.                                                 *)
LEMMA FinishedFacts ==
  ASSUME NEW r \in Thread
  PROVE  /\ After(r) \in Thread /\ After(r).task = NoTask
         /\ \/ /\ r.result = "Stopped" /\ After(r).label = "off"
               /\ After(r).queue = r.queue /\ After(r).late = r.late
               /\ After(r).aborting = r.aborting /\ After(r).overdue = r.overdue
            \/ /\ r.result # "Stopped" /\ After(r).label = "sleep"
               /\ After(r).queue = r.queue \o r.late /\ After(r).late = <<>>
               /\ After(r).overdue = r.overdue
            \/ /\ r.result # "Stopped" /\ After(r).label = "sleep"
               /\ After(r).queue = r.queue /\ After(r).late = r.late
               /\ After(r).overdue = r.overdue \cup Range(r.late)
<1> DEFINE e == Finished(r)
           q == r.queue \o r.late
           o == r.overdue \cup Range(r.late)
<1>1. q \in Seq(Ages \cup {Stub}) /\ <<>> \in Seq(Ages)
  <2>1. r.queue \in Seq(Ages \cup {Stub}) /\ r.late \in Seq(Ages \cup {Stub})
    BY Fields, SeqMonotonic
  <2>. QED
    BY <2>1, ConcatProperties
<1>2. o \subseteq Ages
  BY Fields, RangeOfSeq
<1>3. \/ /\ r.result = "Stopped"
         /\ e = [r EXCEPT !.label = "off", !.state = "Stopped", !.mustQuit = FALSE]
      \/ /\ r.result # "Stopped"
         /\ e = [r EXCEPT !.label = "sleep", !.state = "Aborted", !.aborting = FALSE,
                          !.queue = q, !.late = <<>>]
      \/ /\ r.result # "Stopped"
         /\ e = [r EXCEPT !.label = "sleep", !.state = "Idle", !.aborting = FALSE,
                          !.overdue = o]
  BY DEF Finished, Thread
<1>4. NoTask \in Ages \cup {Stub, NoTask}
  OBVIOUS
<1> HIDE DEF e, q, o
<1>5. e \in Thread
  <2>1. "off" \in Labels /\ "sleep" \in Labels
    BY DEF Labels
  <2>2. CASE e = [r EXCEPT !.label = "off", !.state = "Stopped", !.mustQuit = FALSE]
    BY <2>1, <2>2 DEF Thread
  <2>3. CASE e = [r EXCEPT !.label = "sleep", !.state = "Aborted", !.aborting = FALSE,
                          !.queue = q, !.late = <<>>]
    BY <1>1, <2>1, <2>3 DEF Thread
  <2>4. CASE e = [r EXCEPT !.label = "sleep", !.state = "Idle", !.aborting = FALSE,
                          !.overdue = o]
    BY <1>2, <2>1, <2>4 DEF Thread
  <2>. QED
    BY <1>3, <2>2, <2>3, <2>4
<1>6. /\ After(r) \in Thread /\ After(r).task = NoTask /\ After(r).label = e.label
      /\ After(r).queue = e.queue /\ After(r).late = e.late
      /\ After(r).aborting = e.aborting /\ After(r).overdue = e.overdue
  BY <1>4, <1>5 DEF After, e, Thread
<1>. QED
  BY <1>3, <1>6 DEF q, o, Thread

-----------------------------------------------------------------------------
(* The invariant                                                           *)

(* A request is new until the scheduler hands it over, it is in one queue  *)
(* or in the scheduler's hands, and only once.                             *)
InHand == {"dispatch", "look", "asleep", "leave", "mainwait"}
RequestsOK(r, st, n) ==
    /\ IsInjective(r.queue) /\ IsInjective(r.late)
    /\ Range(r.queue) \cap Range(r.late) = {}
    /\ QueuedIn(r) \subseteq 1..n
    /\ \A a \in QueuedIn(r) : st[a] = "none"
    /\ \A a \in Ages : st[a] # "none" => a \in 1..n
    /\ r.label \in InHand => r.task \in (1..n) \ QueuedIn(r)
    /\ r.label = "dispatch" => st[r.task] = "none"

(* The backup thread has what the scheduler handed over.                   *)
BackupOK(b, st, n) ==
    /\ QueuedIn(b) \subseteq 1..n
    /\ b.label = "work" => b.task \in 1..n
    /\ \A a \in QueuedIn(b) : st[a] # "none"

(* One call of the main thread is due while the scheduler waits for it.    *)
EventsOK(ev, l) ==
    /\ \A i, j \in DOMAIN ev : ev[i] = "execute" /\ ev[j] = "execute" => i = j
    /\ (\E i \in DOMAIN ev : ev[i] = "execute") <=> l = "mainwait"

(* What is in the second queue while nobody aborts is overdue.             *)
LateOK(r) == ~r.aborting => Range(r.late) \subseteq r.overdue

(* What is queued is in the order of the requests, and newer than what is  *)
(* in hand and what was displayed, but for the exceptions X; S is what is  *)
(* displayed and m what is about to be.                                    *)
InOrder(q, X) ==
    \A i, j \in DOMAIN q : i < j /\ q[i] \in Ages /\ q[j] \in Ages \ X => q[i] < q[j]
OrderOK(r, X, S, m) ==
    /\ InOrder(r.queue, X) /\ InOrder(r.late, X)
    /\ \A x \in Range(r.queue) \cap Ages, y \in Range(r.late) \ X : x < y
    /\ \A y \in QueuedIn(r) \ X : /\ r.label \in InHand => r.task < y
                                  /\ \A d \in S : d < y
    /\ r.label \in InHand /\ r.task \notin X => \A d \in S : d < r.task
    /\ r.label \in {"leave", "mainwait"} /\ m # NoImage => m = r.task

(* The frame awaited is rendered, or is the most recent of the backup      *)
(* thread's tasks that are not overdue.                                    *)
Awaits == {"look", "asleep"}
IsComing(a, b, p) ==
    \/ a \in p
    \/ b.label = "work" /\ b.task = a
    \/ b.label # "off" /\ a \in QueuedIn(b)
IsMostRecent(a, b) ==
    /\ \A i, j \in DOMAIN b.queue : i < j /\ b.queue[i] = a => b.queue[j] \in b.overdue
    /\ \A i, j \in DOMAIN b.late : i < j => b.late[i] # a
    /\ a \in Range(b.queue) => Range(b.late) \subseteq b.overdue
WaitOK(r, b, p, lo, pr, ne) ==
    r.label \in Awaits =>
        /\ \/ IsComing(r.task, b, p) \/ r.task \in lo
           \/ r.label = "look" /\ r.task \in pr
        /\ r.task \notin ne => IsMostRecent(r.task, b)

RequestsInv == RequestsOK(th["scheduler"], stage, requested)
BackupInv   == BackupOK(th["backup"], stage, requested)
EventsInv   == EventsOK(events, th["scheduler"].label)
LateInv     == LateOK(th["scheduler"]) /\ LateOK(th["backup"])
Shown       == {displayed} \cap posted
OrderInv    == OrderOK(th["scheduler"], th["scheduler"].overdue \cup neat, Shown, mtArgs)
WaitInv     == WaitOK(th["scheduler"], th["backup"], pool, lost, produced, neat)

ViewerInv == /\ TypeOK /\ RequestsInv /\ BackupInv /\ EventsInv /\ LateInv
             /\ OngoingRendersRun /\ OrderInv /\ WaitInv

-----------------------------------------------------------------------------
(* What the steps of the scheduler do to its queues                        *)

(* A step that moves no task.                                              *)
SameTasks(r, s) ==
    s.queue = r.queue /\ s.late = r.late /\ s.task = r.task /\ s.overdue = r.overdue

(* It leaves the requests where they are...                                *)
LEMMA RequestsStay ==
  ASSUME NEW r, NEW s, NEW st, NEW st2, NEW n, RequestsOK(r, st, n), SameTasks(r, s),
         s.label \in InHand => r.label \in InHand,
         s.label = "dispatch" => r.label = "dispatch",
         \A a \in Ages : st2[a] = "none" <=> st[a] = "none",
         1 .. n \subseteq Ages
  PROVE  RequestsOK(s, st2, n)
<1>1. QueuedIn(s) = QueuedIn(r) /\ QueuedIn(r) \subseteq Ages
  BY DEF SameTasks, QueuedIn
<1>2. s.label = "dispatch" => st2[s.task] = "none"
  BY DEF RequestsOK, SameTasks, InHand
<1>. QED
  BY <1>1, <1>2 DEF RequestsOK, SameTasks

(* ...and in order, if it displays nothing.                                *)
LEMMA OrderStays ==
  ASSUME NEW r, NEW s, NEW X, NEW S, NEW S2, NEW m, NEW m2, OrderOK(r, X, S, m),
         SameTasks(r, s), S2 \subseteq S, s.label \in InHand => r.label \in InHand,
         s.label \in {"leave", "mainwait"} /\ m2 # NoImage => m2 = s.task
  PROVE  OrderOK(s, X, S2, m2)
<1>1. QueuedIn(s) = QueuedIn(r)
  BY DEF SameTasks, QueuedIn
<1>. QED
  BY <1>1 DEF OrderOK, SameTasks

(* A new request is the newest.                                            *)
LEMMA RequestsGrow ==
  ASSUME NEW r \in Thread, NEW st, NEW n \in Nat, n + 1 \in Ages, 1 .. n \subseteq Ages,
         RequestsOK(r, st, n)
  PROVE  RequestsOK(AfterStartTask(r, n + 1), st, n + 1)
<1> DEFINE s == AfterStartTask(r, n + 1)
           Q == Ages \cup {Stub}
<1>1. /\ s.task = r.task
      /\ ~Accepts(r) => s = r
      /\ Accepts(r) => /\ s.label = IF r.label = "off" THEN "pick" ELSE r.label
                       /\ s.queue = IF r.aborting THEN r.queue ELSE Append(r.queue, n + 1)
                       /\ s.late = IF r.aborting THEN Append(r.late, n + 1) ELSE r.late
  BY StartTaskFacts
<1>2. n + 1 \notin 1 .. n /\ 1 .. n \subseteq 1 .. (n + 1) /\ n + 1 \in 1 .. (n + 1)
  OBVIOUS
<1>3. /\ r.queue \in Seq(Q) /\ r.late \in Seq(Ages) /\ n + 1 \in Q
      /\ Range(r.late) \subseteq Ages
  BY Fields, RangeOfSeq
<1>4. n + 1 \notin Range(r.queue) /\ n + 1 \notin Range(r.late)
  BY <1>2 DEF RequestsOK, QueuedIn
<1>5. /\ IsInjective(r.queue) /\ IsInjective(r.late)
      /\ Range(r.queue) \cap Range(r.late) = {}
  BY DEF RequestsOK
<1>6. /\ Range(Append(r.queue, n + 1)) = Range(r.queue) \cup {n + 1}
      /\ IsInjective(Append(r.queue, n + 1))
      /\ Range(Append(r.late, n + 1)) = Range(r.late) \cup {n + 1}
      /\ IsInjective(Append(r.late, n + 1))
  BY <1>3, <1>4, <1>5, AppendToList
<1> HIDE DEF s
<1>7. /\ IsInjective(s.queue) /\ IsInjective(s.late)
      /\ Range(s.queue) \cap Range(s.late) = {}
      /\ QueuedIn(r) \subseteq QueuedIn(s) /\ QueuedIn(s) \subseteq QueuedIn(r) \cup {n + 1}
  BY <1>1, <1>4, <1>5, <1>6 DEF QueuedIn
<1>8. s.label \in InHand => r.label = s.label
  BY <1>1 DEF InHand
<1>9. s.label = "dispatch" => r.label = s.label
  BY <1>8 DEF InHand
<1>10. st[n + 1] = "none"
  BY <1>2 DEF RequestsOK
<1>. QED
  BY <1>1, <1>2, <1>7, <1>8, <1>9, <1>10 DEF RequestsOK, s

(* It keeps the order.                                                     *)
LEMMA OrderGrows ==
  ASSUME NEW r \in Thread, NEW st, NEW n \in Nat, n + 1 \in Ages, 1 .. n \subseteq Ages,
         NEW ne, NEW S, S \subseteq 1 .. n, NEW m,
         RequestsOK(r, st, n), LateOK(r), OrderOK(r, r.overdue \cup ne, S, m)
  PROVE  OrderOK(AfterStartTask(r, n + 1), r.overdue \cup ne, S, m)
<1> DEFINE s == AfterStartTask(r, n + 1)
           X == r.overdue \cup ne
           Q == Ages \cup {Stub}
<1>1. /\ s.task = r.task
      /\ ~Accepts(r) => s = r
      /\ Accepts(r) => /\ s.label = IF r.label = "off" THEN "pick" ELSE r.label
                       /\ s.queue = IF r.aborting THEN r.queue ELSE Append(r.queue, n + 1)
                       /\ s.late = IF r.aborting THEN Append(r.late, n + 1) ELSE r.late
  BY StartTaskFacts
<1>2. \A a \in 1 .. n : a < n + 1
  OBVIOUS
<1>3. /\ r.queue \in Seq(Q) /\ r.late \in Seq(Ages) /\ n + 1 \in Q
      /\ Range(r.late) \subseteq Ages
  BY Fields, RangeOfSeq
<1>4. \A a \in (Range(r.queue) \cup Range(r.late)) \cap Ages : a < n + 1
  BY <1>2 DEF RequestsOK, QueuedIn
<1>5. InOrder(r.queue, X) /\ InOrder(r.late, X)
  BY DEF OrderOK
<1>6. InOrder(Append(r.queue, n + 1), X) /\ InOrder(Append(r.late, n + 1), X)
  <2>1. ASSUME NEW q \in Seq(Q), InOrder(q, X), \A a \in Range(q) \cap Ages : a < n + 1
        PROVE  InOrder(Append(q, n + 1), X)
    <3> DEFINE t == Append(q, n + 1)
    <3>1. /\ Len(q) \in Nat /\ DOMAIN q = 1 .. Len(q) /\ DOMAIN t = 1 .. (Len(q) + 1)
          /\ t[Len(q) + 1] = n + 1 /\ \A i \in 1 .. Len(q) : t[i] = q[i]
      BY <1>3, AppendProperties, LenProperties
    <3> HIDE DEF t
    <3>2. SUFFICES ASSUME NEW i \in DOMAIN t, NEW j \in DOMAIN t, i < j, t[i] \in Ages,
                          t[j] \in Ages \ X
                   PROVE  t[i] < t[j]
      BY DEF InOrder, t
    <3>3. i \in 1 .. Len(q) /\ t[i] = q[i] /\ q[i] \in Range(q)
      BY <3>1, <3>2 DEF Range
    <3>4. CASE j = Len(q) + 1
      BY <2>1, <3>1, <3>2, <3>3, <3>4
    <3>5. CASE j # Len(q) + 1
      BY <2>1, <3>1, <3>2, <3>3, <3>5 DEF InOrder
    <3>. QED
      BY <3>4, <3>5
  <2>2. r.late \in Seq(Q)
    BY <1>3, SeqMonotonic
  <2>. QED
    BY <1>3, <1>4, <1>5, <2>1, <2>2
<1>7. /\ Range(Append(r.queue, n + 1)) = Range(r.queue) \cup {n + 1}
      /\ Range(Append(r.late, n + 1)) = Range(r.late) \cup {n + 1}
  BY <1>3, AppendToList
<1> HIDE DEF s
<1>8. /\ InOrder(s.queue, X) /\ InOrder(s.late, X)
      /\ QueuedIn(s) \subseteq QueuedIn(r) \cup {n + 1}
  BY <1>1, <1>5, <1>6, <1>7 DEF QueuedIn
<1>9. \A x \in Range(s.queue) \cap Ages, y \in Range(s.late) \ X : x < y
  <2>1. \A x \in Range(r.queue) \cap Ages, y \in Range(r.late) \ X : x < y
    BY DEF OrderOK
  <2>2. CASE r.aborting
    BY <1>1, <1>4, <1>7, <2>1, <2>2
  <2>3. CASE ~r.aborting
    <3>1. Range(r.late) \ X = {} /\ (s.late = r.late \/ s = r)
      BY <1>1, <2>3 DEF LateOK
    <3>. QED
      BY <3>1, <2>1
  <2>. QED
    BY <2>2, <2>3
<1>10. s.label \in InHand => r.label = s.label /\ s.task \in 1 .. n
  BY <1>1 DEF InHand, RequestsOK
<1>11. s.label \in {"leave", "mainwait"} /\ m # NoImage => m = s.task
  BY <1>1 DEF OrderOK
<1>12. \A y \in QueuedIn(s) \ X : /\ s.label \in InHand => s.task < y
                                  /\ \A d \in S : d < y
  <2>1. \A y \in QueuedIn(r) \ X : /\ r.label \in InHand => r.task < y
                                   /\ \A d \in S : d < y
    BY DEF OrderOK
  <2>. QED
    BY <1>1, <1>2, <1>8, <1>10, <2>1
<1>13. s.label \in InHand /\ s.task \notin X => \A d \in S : d < s.task
  BY <1>1, <1>10 DEF OrderOK
<1>. QED
  BY <1>8, <1>9, <1>11, <1>12, <1>13 DEF OrderOK, s

(* run() takes the last one; what it keeps may not be skipped.             *)
LEMMA RequestsPicked ==
  ASSUME NEW r \in Thread, NEW st, NEW n \in Nat, 1 .. n \subseteq Ages,
         RequestsOK(r, st, n), r.label = "pick"
  PROVE  RequestsOK(Picked(r, "dispatch"), st, n)
<1> DEFINE s == Picked(r, "dispatch")
           Q == Ages \cup {Stub}
<1>0. "dispatch" \in Labels
  BY DEF Labels
<1>1. /\ s.late = r.late /\ Range(s.queue) \subseteq Range(r.queue)
      /\ r.queue = <<>> => s.label = "resolve" /\ s.queue = <<>>
      /\ r.queue # <<>> =>
           /\ Len(r.queue) \in DOMAIN r.queue
           /\ s.task = r.queue[Len(r.queue)] /\ s.task \in Q
           /\ s.label = AfterPick(r.queue[Len(r.queue)], "dispatch")
           /\ s.queue = Kept(Older(r))
           /\ IsInjective(r.queue) => IsInjective(s.queue)
  BY <1>0, PickedFacts
<1>2. IsInjective(s.queue) /\ IsInjective(s.late) /\ Range(s.queue) \cap Range(s.late) = {}
  BY <1>1 DEF RequestsOK
<1>3. QueuedIn(s) \subseteq QueuedIn(r)
  BY <1>1 DEF QueuedIn
<1>4. ASSUME s.label \in InHand PROVE s.label = "dispatch" /\ s.task \in QueuedIn(r) \ QueuedIn(s)
  <2>1. r.queue # <<>>
    BY <1>1, <1>4 DEF InHand
  <2>2. s.task # Stub /\ s.label = "dispatch"
    BY <1>1, <1>4, <2>1 DEF AfterPick, InHand
  <2>3. s.task \in Range(r.queue) /\ s.task \in Ages
    BY <1>1, <2>1, <2>2 DEF Range
  <2>4. s.task \notin Range(Older(r))
    <3>1. r.queue \in Seq(Q) /\ Len(r.queue) \in Nat \ {0} /\ DOMAIN r.queue = 1 .. Len(r.queue)
      BY <2>1, Fields, LenProperties, EmptySeq
    <3>2. /\ DOMAIN Older(r) = 1 .. Len(r.queue) - 1
          /\ \A i \in DOMAIN Older(r) : Older(r)[i] = r.queue[i]
      <4> DEFINE l == Len(r.queue) - 1
      <4>1. l \in 0 .. Len(r.queue)
        BY <3>1
      <4>2. /\ Older(r) \in Seq(Q) /\ Len(Older(r)) = IF 1 <= l THEN l - 1 + 1 ELSE 0
            /\ \A i \in 1 .. l - 1 + 1 : Older(r)[i] = r.queue[1 + i - 1]
        BY <3>1, <4>1, SubSeqProperties DEF Older
      <4>3. l - 1 + 1 = l /\ l \in Nat /\ \A i \in 1 .. l : 1 + i - 1 = i
        BY <4>1, <3>1
      <4> HIDE DEF l
      <4>4. Len(Older(r)) = l /\ \A i \in 1 .. l : Older(r)[i] = r.queue[i]
        BY <4>2, <4>3
      <4>. QED
        BY <4>2, <4>4, LenProperties DEF l
    <3>3. \A i, j \in DOMAIN r.queue : r.queue[i] = r.queue[j] => i = j
      BY DEF RequestsOK, IsInjective
    <3>4. SUFFICES ASSUME NEW i \in DOMAIN Older(r), Older(r)[i] = s.task PROVE FALSE
      BY DEF Range
    <3>5. i \in DOMAIN r.queue /\ i # Len(r.queue) /\ r.queue[i] = r.queue[Len(r.queue)]
      BY <1>1, <2>1, <3>1, <3>2, <3>4
    <3>. QED
      BY <1>1, <2>1, <3>3, <3>5
  <2>5. s.task \notin Range(s.queue)
    <3>1. Range(s.queue) = Range(Older(r)) \cap neat
      BY <1>0, <2>1, PickedFacts
    <3>. QED
      BY <2>4, <3>1
  <2>6. s.task \notin Range(s.late)
    BY <1>1, <2>3 DEF RequestsOK
  <2>. QED
    BY <2>2, <2>3, <2>5, <2>6 DEF QueuedIn
<1>5. s.label = "dispatch" => s.label \in InHand
  BY DEF InHand
<1> HIDE DEF s
<1>. QED
  BY <1>2, <1>3, <1>4, <1>5 DEF RequestsOK, s

(* What is left in order is newer than the one it takes.                   *)
LEMMA OrderPicked ==
  ASSUME NEW r \in Thread, NEW st, NEW n \in Nat, NEW S, NEW m,
         RequestsOK(r, st, n), OrderOK(r, r.overdue \cup neat, S, m), r.label = "pick"
  PROVE  OrderOK(Picked(r, "dispatch"), r.overdue \cup neat, S, m)
<1> DEFINE s == Picked(r, "dispatch")
           X == r.overdue \cup neat
           Q == Ages \cup {Stub}
<1>0. "dispatch" \in Labels
  BY DEF Labels
<1>1. /\ s.late = r.late /\ Range(s.queue) \subseteq Range(r.queue)
      /\ r.queue = <<>> => s.label = "resolve" /\ s.queue = <<>>
      /\ r.queue # <<>> =>
           /\ Len(r.queue) \in DOMAIN r.queue
           /\ s.task = r.queue[Len(r.queue)] /\ s.task \in Q
           /\ s.label = AfterPick(r.queue[Len(r.queue)], "dispatch")
           /\ Range(s.queue) = Range(Older(r)) \cap neat
  BY <1>0, PickedFacts
<1>2. Range(s.queue) \subseteq X
  <2>1. CASE r.queue = <<>>
    BY <1>1, <2>1 DEF Range
  <2>2. CASE r.queue # <<>>
    BY <1>1, <2>2
  <2>. QED
    BY <2>1, <2>2
<1> HIDE DEF s
<1>3. InOrder(s.queue, X)
  BY <1>2 DEF InOrder, Range
<1>4. InOrder(s.late, X) /\ \A x \in Range(s.queue) \cap Ages, y \in Range(s.late) \ X : x < y
  BY <1>1 DEF OrderOK
<1>5. QueuedIn(s) \ X \subseteq Range(r.late) \ X /\ QueuedIn(s) \subseteq QueuedIn(r)
  BY <1>1, <1>2 DEF QueuedIn
<1>6. ASSUME s.label \in InHand
      PROVE  s.label = "dispatch" /\ s.task \in Range(r.queue) \cap Ages
  <2>1. r.queue # <<>>
    BY <1>1, <1>6 DEF InHand
  <2>2. s.task # Stub /\ s.label = "dispatch"
    BY <1>1, <1>6, <2>1 DEF AfterPick, InHand
  <2>. QED
    BY <1>1, <2>1, <2>2 DEF Range
<1>7. \A y \in QueuedIn(s) \ X : /\ s.label \in InHand => s.task < y
                                 /\ \A d \in S : d < y
  BY <1>5, <1>6 DEF OrderOK
<1>8. s.label \in InHand /\ s.task \notin X => \A d \in S : d < s.task
  BY <1>6 DEF OrderOK, QueuedIn
<1>9. s.label \notin {"leave", "mainwait"}
  BY <1>6 DEF InHand
<1>. QED
  BY <1>3, <1>4, <1>7, <1>8, <1>9 DEF OrderOK, s

(* The end of an iteration.                                                *)
LEMMA RequestsFinished ==
  ASSUME NEW r \in Thread, NEW st, NEW n, RequestsOK(r, st, n)
  PROVE  RequestsOK(After(r), st, n)
<1> DEFINE s == After(r)
<1>1. s.label \notin InHand /\ s.label # "dispatch"
  BY FinishedFacts DEF InHand
<1>2. \/ s.queue = r.queue /\ s.late = r.late
      \/ s.queue = r.queue \o r.late /\ s.late = <<>>
  BY FinishedFacts
<1>3. /\ r.queue \in Seq(Ages \cup {Stub}) /\ r.late \in Seq(Ages \cup {Stub})
  BY Fields, SeqMonotonic
<1>4. /\ Range(r.queue \o r.late) = Range(r.queue) \cup Range(r.late)
      /\ IsInjective(r.queue \o r.late)
  BY <1>3, ConcatOfLists DEF RequestsOK
<1>5. Range(<<>>) = {} /\ IsInjective(<<>>)
  BY DEF Range, IsInjective
<1> HIDE DEF s
<1>6. /\ QueuedIn(s) = QueuedIn(r) /\ IsInjective(s.queue) /\ IsInjective(s.late)
      /\ Range(s.queue) \cap Range(s.late) = {}
  BY <1>2, <1>4, <1>5 DEF QueuedIn, RequestsOK
<1>. QED
  BY <1>1, <1>6 DEF RequestsOK, s

(* The merged queue is in order, but for what was overdue.                 *)
LEMMA OrderFinished ==
  ASSUME NEW r \in Thread, NEW ne, NEW S, NEW m, OrderOK(r, r.overdue \cup ne, S, m)
  PROVE  OrderOK(After(r), After(r).overdue \cup ne, S, m)
<1> DEFINE s == After(r)
           X == r.overdue \cup ne
           Y == s.overdue \cup ne
<1>1. s.label \notin InHand /\ s.label \notin {"leave", "mainwait"} /\ X \subseteq Y
  BY FinishedFacts DEF InHand
<1>2. \/ s.queue = r.queue /\ s.late = r.late
      \/ s.queue = r.queue \o r.late /\ s.late = <<>>
  BY FinishedFacts
<1> DEFINE q == r.queue
           l == r.late
           u == q \o l
<1>3. q \in Seq(Ages \cup {Stub}) /\ l \in Seq(Ages \cup {Stub})
  BY Fields, SeqMonotonic
<1>4. /\ InOrder(q, X) /\ InOrder(l, X)
      /\ \A x \in Range(q) \cap Ages, y \in Range(l) \ X : x < y
  BY DEF OrderOK
<1>5. Range(u) = Range(q) \cup Range(l)
  BY <1>3, ConcatOfLists
<1>6. InOrder(u, X)
  <2>1. /\ Len(q) \in Nat /\ Len(l) \in Nat /\ DOMAIN u = 1 .. Len(q) + Len(l)
        /\ DOMAIN q = 1 .. Len(q) /\ DOMAIN l = 1 .. Len(l)
        /\ \A i \in DOMAIN u : u[i] = IF i <= Len(q) THEN q[i] ELSE l[i - Len(q)]
    <3> HIDE DEF q, l
    <3>1. /\ u \in Seq(Ages \cup {Stub}) /\ Len(u) = Len(q) + Len(l)
          /\ \A i \in 1 .. Len(q) + Len(l) :
                u[i] = IF i <= Len(q) THEN q[i] ELSE l[i - Len(q)]
      BY <1>3, ConcatProperties
    <3> HIDE DEF u
    <3>. QED
      BY <1>3, <3>1, LenProperties
  <2> HIDE DEF u, q, l
  <2>2. SUFFICES ASSUME NEW i \in DOMAIN u, NEW j \in DOMAIN u, i < j, u[i] \in Ages,
                        u[j] \in Ages \ X
                 PROVE  u[i] < u[j]
    BY DEF InOrder
  <2>3. CASE j <= Len(q)
    <3>1. i \in DOMAIN q /\ j \in DOMAIN q /\ u[i] = q[i] /\ u[j] = q[j]
      BY <2>1, <2>2, <2>3
    <3>. QED
      BY <1>4, <2>2, <3>1 DEF InOrder
  <2>4. CASE i > Len(q)
    <3> DEFINE a == i - Len(q)
               b == j - Len(q)
    <3>1. a \in DOMAIN l /\ b \in DOMAIN l /\ a < b /\ u[i] = l[a] /\ u[j] = l[b]
      BY <2>1, <2>2, <2>4
    <3> HIDE DEF a, b
    <3>. QED
      BY <1>4, <2>2, <3>1 DEF InOrder
  <2>5. CASE i <= Len(q) /\ j > Len(q)
    <3>1. i \in DOMAIN q /\ u[i] = q[i] /\ j - Len(q) \in DOMAIN l /\ u[j] = l[j - Len(q)]
      BY <2>1, <2>2, <2>5
    <3>2. u[i] \in Range(q) /\ u[j] \in Range(l)
      BY <3>1 DEF Range
    <3>. QED
      BY <1>4, <2>2, <3>2
  <2>. QED
    BY <2>1, <2>2, <2>3, <2>4, <2>5
<1>7. Range(<<>>) = {} /\ InOrder(<<>>, X)
  BY DEF Range, InOrder
<1> HIDE DEF s, q, l, u
<1>8. /\ InOrder(s.queue, X) /\ InOrder(s.late, X) /\ QueuedIn(s) = QueuedIn(r)
      /\ \A x \in Range(s.queue) \cap Ages, y \in Range(s.late) \ X : x < y
  BY <1>2, <1>4, <1>5, <1>6, <1>7 DEF q, l, u, QueuedIn
<1>9. InOrder(s.queue, Y) /\ InOrder(s.late, Y)
  BY <1>1, <1>8 DEF InOrder
<1>10. \A x \in Range(s.queue) \cap Ages, y \in Range(s.late) \ Y : x < y
  BY <1>1, <1>8
<1>11. \A y \in QueuedIn(s) \ Y : \A d \in S : d < y
  BY <1>1, <1>8 DEF OrderOK
<1> HIDE DEF X, Y
<1>12. OrderOK(s, Y, S, m)
  BY <1>1, <1>9, <1>10, <1>11 DEF OrderOK
<1>. QED
  BY <1>12 DEF s, Y

(* quitThread() leaves its fake task in the queue.                         *)
LEMMA ClearedFacts ==
  ASSUME NEW r \in Thread
  PROVE  /\ Cleared(r) \in Thread
         /\ Cleared(r).queue = <<Stub>> /\ Cleared(r).late = r.late
         /\ Cleared(r).label = r.label /\ Cleared(r).task = r.task
         /\ Cleared(r).aborting = r.aborting /\ Cleared(r).overdue = r.overdue
<1> DEFINE w == r.wakes + 1
           q == <<Stub>>
<1>1. w \in Nat /\ q \in Seq(Ages \cup {Stub})
  BY Fields
<1>2. Cleared(r) = [r EXCEPT !.queue = q, !.wakes = w]
  BY DEF Cleared
<1> HIDE DEF w, q
<1>3. /\ Cleared(r) \in Thread
      /\ Cleared(r).queue = q /\ Cleared(r).late = r.late
      /\ Cleared(r).label = r.label /\ Cleared(r).task = r.task
      /\ Cleared(r).aborting = r.aborting /\ Cleared(r).overdue = r.overdue
  BY <1>1, <1>2 DEF Thread
<1>. QED
  BY <1>3 DEF q

(* The requests it forgets were in order.                                  *)
LEMMA QueueCleared ==
  ASSUME NEW r \in Thread, NEW st, NEW n, NEW X, NEW S, NEW m,
         RequestsOK(r, st, n), OrderOK(r, X, S, m)
  PROVE  RequestsOK(Cleared(r), st, n) /\ OrderOK(Cleared(r), X, S, m)
<1> DEFINE s == Cleared(r)
<1>1. /\ s.queue = <<Stub>> /\ s.late = r.late /\ s.label = r.label /\ s.task = r.task
  BY ClearedFacts
<1>2. Range(<<Stub>>) = {Stub} /\ IsInjective(<<Stub>>) /\ InOrder(<<Stub>>, X)
  BY AgesFacts DEF Range, IsInjective, InOrder
<1>3. Range(r.late) \subseteq Ages /\ Stub \notin Ages
  BY Fields, RangeOfSeq, AgesFacts
<1> HIDE DEF s
<1>4. QueuedIn(s) \subseteq QueuedIn(r) /\ Range(s.queue) \cap Ages = {}
      /\ Range(s.queue) \cap Range(s.late) = {}
  BY <1>1, <1>2, <1>3 DEF QueuedIn
<1>5. RequestsOK(s, st, n)
  BY <1>1, <1>2, <1>4 DEF RequestsOK
<1>6. OrderOK(s, X, S, m)
  BY <1>1, <1>2, <1>4 DEF OrderOK
<1>. QED
  BY <1>5, <1>6 DEF s

-----------------------------------------------------------------------------
(* What the steps of the backup thread do to the frame that is awaited     *)

(* A task handed over is the most recent, if it is accepted.               *)
LEMMA HandedOver ==
  ASSUME NEW b \in Thread, NEW a \in Ages \ QueuedIn(b), NEW p, LateOK(b)
  PROVE  /\ IsMostRecent(a, AfterStartTask(b, a))
         /\ Accepts(b) => IsComing(a, AfterStartTask(b, a), p)
         /\ AfterStartTask(b, a).label = "work" => b.label = "work"
         /\ QueuedIn(AfterStartTask(b, a)) \subseteq QueuedIn(b) \cup {a}
         /\ LateOK(AfterStartTask(b, a))
<1> DEFINE s == AfterStartTask(b, a)
           Q == Ages \cup {Stub}
           q == b.queue
           l == b.late
<1>1. /\ s.task = b.task /\ s.aborting = b.aborting /\ s.overdue = b.overdue
      /\ ~Accepts(b) => s = b
      /\ Accepts(b) => /\ s.label = IF b.label = "off" THEN "pick" ELSE b.label
                       /\ s.queue = IF b.aborting THEN q ELSE Append(q, a)
                       /\ s.late = IF b.aborting THEN Append(l, a) ELSE l
  BY StartTaskFacts
<1>2. q \in Seq(Q) /\ l \in Seq(Ages) /\ a \in Q
  BY Fields
<1>3. a \notin Range(q) /\ a \notin Range(l)
  BY DEF QueuedIn
<1>4. /\ Range(Append(q, a)) = Range(q) \cup {a} /\ Range(Append(l, a)) = Range(l) \cup {a}
  BY <1>2, AppendToList
<1>5. /\ Len(q) \in Nat /\ DOMAIN q = 1 .. Len(q) /\ DOMAIN Append(q, a) = 1 .. (Len(q) + 1)
      /\ \A i \in 1 .. Len(q) : Append(q, a)[i] = q[i]
  BY <1>2, AppendProperties, LenProperties
<1>6. /\ Len(l) \in Nat /\ DOMAIN l = 1 .. Len(l) /\ DOMAIN Append(l, a) = 1 .. (Len(l) + 1)
      /\ \A i \in 1 .. Len(l) : Append(l, a)[i] = l[i]
  BY <1>2, AppendProperties, LenProperties
<1>7. /\ \A i \in 1 .. Len(q) : q[i] # a
      /\ \A i \in 1 .. Len(l) : l[i] # a
  BY <1>3, <1>5, <1>6 DEF Range
<1> DEFINE qa == Append(q, a)
           la == Append(l, a)
<1> HIDE DEF s, qa, la, q, l
<1>8. \A i, j \in DOMAIN qa : ~(i < j /\ qa[i] = a)
  BY <1>5, <1>7 DEF qa
<1>9. \A i, j \in DOMAIN la : i < j => la[i] # a
  BY <1>6, <1>7 DEF la
<1>10. CASE ~Accepts(b)
  <2>1. IsMostRecent(a, b)
    BY <1>3, <1>5, <1>6, <1>7 DEF IsMostRecent, q, l
  <2>. QED
    BY <1>1, <1>10, <2>1 DEF s
<1>11. CASE Accepts(b) /\ b.aborting
  <2>1. s.queue = q /\ s.late = la
    BY <1>1, <1>11 DEF la
  <2>2. IsMostRecent(a, s)
    BY <1>3, <1>5, <1>7, <1>9, <2>1 DEF IsMostRecent
  <2>3. a \in QueuedIn(s) /\ QueuedIn(s) \subseteq QueuedIn(b) \cup {a}
    BY <1>4, <2>1 DEF QueuedIn, la, q, l
  <2>4. s.label # "off" /\ (s.label = "work" => b.label = "work")
    BY <1>1, <1>11
  <2>. QED
    BY <1>1, <1>11, <2>2, <2>3, <2>4 DEF s, IsComing, LateOK
<1>12. CASE Accepts(b) /\ ~b.aborting
  <2>1. s.queue = qa /\ s.late = l
    BY <1>1, <1>12 DEF qa
  <2>2. Range(l) \subseteq s.overdue
    BY <1>1, <1>12 DEF LateOK, l
  <2>3. IsMostRecent(a, s)
    BY <1>6, <1>7, <1>8, <2>1, <2>2 DEF IsMostRecent
  <2>4. a \in QueuedIn(s) /\ QueuedIn(s) \subseteq QueuedIn(b) \cup {a}
    BY <1>4, <2>1 DEF QueuedIn, qa, q, l
  <2>5. s.label # "off" /\ (s.label = "work" => b.label = "work")
    BY <1>1, <1>12
  <2>. QED
    BY <2>1, <2>2, <2>3, <2>4, <2>5 DEF s, IsComing, LateOK
<1>. QED
  BY <1>10, <1>11, <1>12

(* The backup thread takes a task: what it keeps are neat renders.         *)
LEMMA PickedKeepsRecent ==
  ASSUME NEW b \in Thread, NEW a, a \notin neat, IsMostRecent(a, b)
  PROVE  IsMostRecent(a, Picked(b, "work"))
<1> DEFINE s == Picked(b, "work")
<1>1. /\ s.late = b.late /\ s.overdue = b.overdue
      /\ b.queue = <<>> => s.queue = <<>>
      /\ b.queue # <<>> => Range(s.queue) = Range(Older(b)) \cap neat
  <2>1. "work" \in Labels
    BY DEF Labels
  <2>. QED
    BY <2>1, PickedFacts
<1> HIDE DEF s
<1>2. a \notin Range(s.queue)
  <2>1. CASE b.queue = <<>>
    BY <1>1, <2>1 DEF Range
  <2>2. CASE b.queue # <<>>
    BY <1>1, <2>2
  <2>. QED
    BY <2>1, <2>2
<1>3. \A i \in DOMAIN s.queue : s.queue[i] # a
  BY <1>2 DEF Range
<1>4. \A i, j \in DOMAIN s.late : i < j => s.late[i] # a
  BY <1>1 DEF IsMostRecent
<1>. QED
  BY <1>2, <1>3, <1>4 DEF IsMostRecent, s

(* The backup thread takes it, keeps it, or skips it for an overdue one.   *)
LEMMA PickedWhileAwaited ==
  ASSUME NEW b \in Thread, NEW a \in Ages, NEW p, b.label = "pick", IsComing(a, b, p),
         a \notin neat => IsMostRecent(a, b)
  PROVE  /\ IsComing(a, Picked(b, "work"), p) \/ a \in SkippedForOverdue(b)
         /\ a \notin neat => IsMostRecent(a, Picked(b, "work"))
<1> DEFINE s == Picked(b, "work")
           q == b.queue
           n == Len(b.queue)
<1>0. "work" \in Labels /\ q \in Seq(Ages \cup {Stub}) /\ a # Stub
  BY Fields, AgesFacts DEF Labels
<1>1. /\ s.late = b.late /\ s.overdue = b.overdue
      /\ q = <<>> => s.label = "resolve" /\ s.queue = <<>>
      /\ q # <<>> =>
           /\ n \in DOMAIN q /\ s.task = q[n] /\ s.label = AfterPick(q[n], "work")
           /\ s.queue = Kept(Older(b)) /\ Range(s.queue) = Range(Older(b)) \cap neat
  BY <1>0, PickedFacts
<1>2. a \in p \/ a \in QueuedIn(b)
  BY DEF IsComing
<1>3. s.label # "off"
  BY <1>1 DEF AfterPick
<1>4. /\ n \in Nat /\ DOMAIN q = 1 .. n
      /\ q # <<>> => \A x \in Range(q) : x = q[n] \/ x \in Range(Older(b))
  <2>1. n \in Nat /\ DOMAIN q = 1 .. n
    BY <1>0, LenProperties
  <2>2. ASSUME q # <<>>, NEW i \in 1 .. n, i # n PROVE q[i] \in Range(Older(b))
    <3> DEFINE k == n - 1
    <3>1. k \in 0 .. n /\ n # 0
      BY <1>0, <2>1, <2>2, EmptySeq
    <3>2. /\ Older(b) \in Seq(Ages \cup {Stub})
          /\ Len(Older(b)) = IF 1 <= k THEN k - 1 + 1 ELSE 0
          /\ \A j \in 1 .. k - 1 + 1 : Older(b)[j] = q[1 + j - 1]
      BY <1>0, <3>1, SubSeqProperties DEF Older
    <3>3. i \in 1 .. k - 1 + 1 /\ 1 + i - 1 = i /\ (1 <= k) /\ k - 1 + 1 = k /\ i \in 1 .. k
      BY <2>1, <2>2, <3>1
    <3> HIDE DEF k, q
    <3>4. Older(b)[i] = q[i] /\ Len(Older(b)) = k
      BY <3>2, <3>3
    <3>5. DOMAIN Older(b) = 1 .. k
      BY <3>2, <3>4, LenProperties
    <3>. QED
      BY <3>3, <3>4, <3>5 DEF Range
  <2> HIDE DEF q, n
  <2>. QED
    BY <2>1, <2>2 DEF Range
<1> HIDE DEF s, q, n
<1>5. a \notin neat => IsMostRecent(a, s)
  BY PickedKeepsRecent DEF s
<1>6. CASE a \in p \/ a \in Range(b.late)
  BY <1>1, <1>3, <1>5, <1>6 DEF IsComing, QueuedIn, s
<1>7. CASE a \in Range(q)
  <2>1. q # <<>>
    BY <1>7 DEF Range
  <2>2. CASE a = q[n]
    <3>1. s.label = "work" /\ s.task = a
      BY <1>0, <1>1, <2>1, <2>2 DEF AfterPick
    <3>. QED
      BY <1>5, <3>1 DEF IsComing, s
  <2>3. CASE a # q[n] /\ a \in neat
    <3>1. a \in Range(s.queue)
      BY <1>1, <1>4, <1>7, <2>1, <2>3
    <3>. QED
      BY <1>3, <1>5, <3>1 DEF IsComing, QueuedIn, s
  <2>4. CASE a # q[n] /\ a \notin neat
    <3>1. PICK i \in 1 .. n : q[i] = a
      BY <1>4, <1>7 DEF Range
    <3>2. i < n /\ n \in DOMAIN q
      BY <1>1, <1>4, <2>1, <2>4, <3>1
    <3>3. q[n] \in b.overdue
      BY <1>4, <2>4, <3>1, <3>2 DEF IsMostRecent, q
    <3>4. a \in Range(Older(b)) /\ a \notin Range(Kept(Older(b)))
      <4>1. a \in Range(Older(b))
        BY <1>4, <1>7, <2>1, <2>4
      <4>2. Range(Kept(Older(b))) = Range(Older(b)) \cap neat
        BY <1>1, <2>1
      <4>. QED
        BY <2>4, <4>1, <4>2
    <3>5. a \in SkippedForOverdue(b)
      BY <2>1, <3>3, <3>4 DEF SkippedForOverdue, Skipped, q, n
    <3>. QED
      BY <1>5, <3>5 DEF s
  <2>. QED
    BY <2>2, <2>3, <2>4
<1>. QED
  BY <1>2, <1>6, <1>7 DEF QueuedIn, q

(* At the end of an iteration it stays, unless the thread stops.           *)
LEMMA FinishedWhileAwaited ==
  ASSUME NEW b \in Thread, NEW a \in Ages, NEW p, b.label = "finish"
  PROVE  /\ IsComing(a, b, p) =>
              IsComing(a, After(b), p) \/ (b.result = "Stopped" /\ a \in QueuedIn(b))
         /\ IsMostRecent(a, b) => IsMostRecent(a, After(b))
<1> DEFINE s == After(b)
           q == b.queue
           l == b.late
           u == q \o l
<1>1. \/ /\ b.result = "Stopped" /\ s.queue = q /\ s.late = l /\ s.overdue = b.overdue
      \/ /\ b.result # "Stopped" /\ s.label = "sleep"
         /\ s.queue = u /\ s.late = <<>> /\ s.overdue = b.overdue
      \/ /\ b.result # "Stopped" /\ s.label = "sleep"
         /\ s.queue = q /\ s.late = l /\ s.overdue = b.overdue \cup Range(l)
  BY FinishedFacts
<1>2. q \in Seq(Ages \cup {Stub}) /\ l \in Seq(Ages \cup {Stub})
  BY Fields, SeqMonotonic
<1>3. Range(u) = Range(q) \cup Range(l)
  BY <1>2, ConcatOfLists
<1>4. /\ Len(q) \in Nat /\ Len(l) \in Nat /\ DOMAIN u = 1 .. Len(q) + Len(l)
      /\ DOMAIN q = 1 .. Len(q) /\ DOMAIN l = 1 .. Len(l)
      /\ \A i \in DOMAIN u : u[i] = IF i <= Len(q) THEN q[i] ELSE l[i - Len(q)]
  <2> HIDE DEF q, l
  <2>1. /\ u \in Seq(Ages \cup {Stub}) /\ Len(u) = Len(q) + Len(l)
        /\ \A i \in 1 .. Len(q) + Len(l) :
              u[i] = IF i <= Len(q) THEN q[i] ELSE l[i - Len(q)]
    BY <1>2, ConcatProperties
  <2> HIDE DEF u
  <2>. QED
    BY <1>2, <2>1, LenProperties
<1> HIDE DEF s, u, q, l
<1>5. ASSUME IsComing(a, b, p)
      PROVE  IsComing(a, s, p) \/ (b.result = "Stopped" /\ a \in QueuedIn(b))
  <2>1. a \in p \/ a \in QueuedIn(b)
    BY <1>5 DEF IsComing
  <2>2. CASE b.result # "Stopped"
    <3>1. QueuedIn(s) = QueuedIn(b) /\ s.label # "off"
      BY <1>1, <1>3, <2>2 DEF QueuedIn, Range, q, l
    <3>. QED
      BY <2>1, <3>1 DEF IsComing
  <2>. QED
    BY <2>1, <2>2 DEF IsComing
<1>6. ASSUME IsMostRecent(a, b) PROVE IsMostRecent(a, s)
  <2>1. /\ \A i, j \in DOMAIN q : i < j /\ q[i] = a => q[j] \in b.overdue
        /\ \A i, j \in DOMAIN l : i < j => l[i] # a
        /\ a \in Range(q) => Range(l) \subseteq b.overdue
    BY <1>6 DEF IsMostRecent, q, l
  <2>2. CASE s.queue = q /\ s.late = l /\ b.overdue \subseteq s.overdue
    BY <2>1, <2>2 DEF IsMostRecent
  <2>3. CASE s.queue = u /\ s.late = <<>> /\ s.overdue = b.overdue
    <3>1. ASSUME NEW i \in DOMAIN u, NEW j \in DOMAIN u, i < j, u[i] = a
          PROVE  u[j] \in b.overdue
      <4>1. CASE j <= Len(q)
        <5>1. i \in DOMAIN q /\ j \in DOMAIN q /\ q[i] = a /\ u[j] = q[j]
          BY <1>4, <3>1, <4>1
        <5>. QED
          BY <2>1, <3>1, <5>1
      <4>2. CASE i > Len(q)
        <5> DEFINE c == i - Len(q)
                   d == j - Len(q)
        <5>1. c \in DOMAIN l /\ d \in DOMAIN l /\ c < d /\ l[c] = a
          BY <1>4, <3>1, <4>2
        <5> HIDE DEF c, d
        <5>. QED
          BY <2>1, <5>1
      <4>3. CASE i <= Len(q) /\ j > Len(q)
        <5>1. i \in DOMAIN q /\ q[i] = a /\ j - Len(q) \in DOMAIN l /\ u[j] = l[j - Len(q)]
          BY <1>4, <3>1, <4>3
        <5>2. a \in Range(q) /\ u[j] \in Range(l)
          BY <5>1 DEF Range
        <5>. QED
          BY <2>1, <5>2
      <4>. QED
        BY <1>4, <4>1, <4>2, <4>3
    <3>2. Range(<<>>) = {} /\ DOMAIN <<>> = {}
      BY DEF Range
    <3>. QED
      BY <2>3, <3>1, <3>2 DEF IsMostRecent
  <2>. QED
    BY <1>1, <2>2, <2>3
<1>. QED
  BY <1>5, <1>6 DEF s

-----------------------------------------------------------------------------
(* The invariant and its parts                                             *)

ThreadsOK ==
    /\ th \in [Threads -> Thread]
    /\ th["backup"].label \notin InHand
    /\ th["scheduler"].label # "work"
SetsOK ==
    /\ pool \subseteq 1..requested /\ hasImage \subseteq 1..requested
    /\ ongoing \subseteq 1..requested /\ aborted \subseteq 1..requested
    /\ produced \subseteq 1..requested /\ posted \subseteq 1..requested
    /\ settled \subseteq 1..requested /\ lost \subseteq 1..requested
    /\ threw \subseteq 1..requested
StagesOK == stage \in [Ages -> Stages] /\ requested \in 0..MaxRequests
CallsOK == at \in [Clients -> CallLabels] /\ keep \in [Clients -> BOOLEAN]
ViewerOK ==
    /\ displayed \in (1..requested) \cup {NoImage}
    /\ mtArgs \in (1..requested) \cup {NoImage}
    /\ events \in Seq({"execute", "disconnect"})

Works(a, b, p) == a \in p \/ (b.label = "work" /\ b.task = a)
OngoingOK(o, p, b, st) == \A a \in o : Works(a, b, p) /\ st[a] = "begun"

(* The type invariant in parts.                                            *)
LEMMA TypeParts ==
  TypeOK <=> ThreadsOK /\ SetsOK /\ StagesOK /\ CallsOK /\ ViewerOK
<1>1. (th["backup"].label \notin InHand)
        <=> (th["backup"].label \notin {"dispatch", "look", "asleep", "leave", "mainwait"})
  BY DEF InHand
<1>2. (UNION {pool, hasImage, ongoing, aborted, produced, posted, settled, lost, threw}
        \subseteq 1..requested) <=> SetsOK
  BY DEF SetsOK
<1>. QED
  BY <1>1, <1>2 DEF TypeOK, ThreadsOK, StagesOK, CallsOK, ViewerOK

(* The parts of the invariant.                                             *)
LEMMA Parts ==
  ASSUME ViewerInv
  PROVE  /\ ThreadsOK /\ SetsOK /\ StagesOK /\ CallsOK /\ ViewerOK
         /\ RequestsOK(th["scheduler"], stage, requested)
         /\ BackupOK(th["backup"], stage, requested)
         /\ EventsOK(events, th["scheduler"].label)
         /\ LateOK(th["scheduler"]) /\ LateOK(th["backup"])
         /\ OngoingOK(ongoing \ threw, pool, th["backup"], stage)
         /\ OrderOK(th["scheduler"], th["scheduler"].overdue \cup neat,
                    {displayed} \cap posted, mtArgs)
         /\ WaitOK(th["scheduler"], th["backup"], pool, lost, produced, neat)
         /\ requested \in Nat /\ 1..requested \subseteq Ages
         /\ th["scheduler"] \in Thread /\ th["backup"] \in Thread
<1>1. ThreadsOK /\ SetsOK /\ StagesOK /\ CallsOK /\ ViewerOK
  BY TypeParts DEF ViewerInv
<1>2. OngoingOK(ongoing \ threw, pool, th["backup"], stage)
  BY DEF ViewerInv, OngoingRendersRun, OngoingOK, Works, Runs, backup
<1>3. requested \in Nat /\ 1..requested \subseteq Ages
  BY <1>1, RequestedFacts DEF StagesOK
<1>4. th["scheduler"] \in Thread /\ th["backup"] \in Thread
  BY <1>1 DEF ThreadsOK, Threads
<1>. QED
  BY <1>1, <1>2, <1>3, <1>4
     DEF ViewerInv, RequestsInv, BackupInv, EventsInv, LateInv, OrderInv, Shown, WaitInv

(* A step keeps the invariant when it keeps each part.                     *)
LEMMA PartsNext ==
  ASSUME ThreadsOK', SetsOK', StagesOK', CallsOK', ViewerOK',
         RequestsOK(th'["scheduler"], stage', requested'),
         BackupOK(th'["backup"], stage', requested'),
         EventsOK(events', th'["scheduler"].label),
         LateOK(th'["scheduler"]), LateOK(th'["backup"]),
         OngoingOK(ongoing' \ threw', pool', th'["backup"], stage'),
         OrderOK(th'["scheduler"], th'["scheduler"].overdue \cup neat',
                 {displayed'} \cap posted', mtArgs'),
         WaitOK(th'["scheduler"], th'["backup"], pool', lost', produced', neat')
  PROVE  ViewerInv'
<1>1. TypeOK'
  <2>1. (th'["backup"].label \notin InHand)
          <=> (th'["backup"].label \notin {"dispatch", "look", "asleep", "leave", "mainwait"})
    BY DEF InHand
  <2>2. UNION {pool', hasImage', ongoing', aborted', produced', posted', settled', lost',
               threw'} \subseteq 1..requested'
    BY DEF SetsOK
  <2>. QED
    BY <2>1, <2>2 DEF TypeOK, ThreadsOK, StagesOK, CallsOK, ViewerOK, InHand
<1>2. OngoingRendersRun'
  BY DEF OngoingRendersRun, OngoingOK, Works, Runs, backup
<1>3. RequestsInv'
  BY DEF RequestsInv
<1>4. BackupInv'
  BY DEF BackupInv
<1>5. EventsInv'
  BY DEF EventsInv
<1>6. LateInv'
  BY DEF LateInv
<1>7. OrderInv'
  BY DEF OrderInv, Shown
<1>8. WaitInv'
  BY DEF WaitInv
<1>. QED
  BY <1>1, <1>2, <1>3, <1>4, <1>5, <1>6, <1>7, <1>8 DEF ViewerInv

(* The scheduler changes, and the backup thread does not...                *)
LEMMA SchedulerChanges ==
  ASSUME ThreadsOK, NEW s \in Thread, th' = [th EXCEPT !["scheduler"] = s]
  PROVE  /\ th'["scheduler"] = s /\ th'["backup"] = th["backup"]
         /\ s.label # "work" => ThreadsOK'
BY DEF ThreadsOK, Threads

(* ...or the other way round.                                              *)
LEMMA BackupChanges ==
  ASSUME ThreadsOK, NEW s \in Thread, th' = [th EXCEPT !["backup"] = s]
  PROVE  /\ th'["backup"] = s /\ th'["scheduler"] = th["scheduler"]
         /\ s.label \notin InHand => ThreadsOK'
BY DEF ThreadsOK, Threads

(* More is requested.                                                      *)
LEMMA MoreRequested ==
  ASSUME NEW n \in Nat, NEW m \in Nat, n <= m
  PROVE  1..n \subseteq 1..m
OBVIOUS

(* Tasks that stay where they are, or are handed over.                     *)
LEMMA BackupStays ==
  ASSUME NEW b, NEW s, NEW st, NEW st2, NEW n \in Nat, NEW m \in Nat, n <= m,
         BackupOK(b, st, n), SameTasks(b, s), s.label = "work" => b.label = "work",
         \A a \in Ages : st[a] # "none" => st2[a] # "none"
  PROVE  BackupOK(s, st2, m)
<1>1. QueuedIn(s) = QueuedIn(b) /\ QueuedIn(b) \subseteq Ages
  BY DEF SameTasks, QueuedIn
<1>2. 1..n \subseteq 1..m
  OBVIOUS
<1>. QED
  BY <1>1, <1>2 DEF BackupOK, SameTasks

(* The awaited frame keeps coming.                                         *)
LEMMA WaitStays ==
  ASSUME NEW r, NEW r2, NEW b, NEW s, NEW p, NEW p2, NEW lo, NEW lo2, NEW pr, NEW pr2,
         NEW ne, WaitOK(r, b, p, lo, pr, ne), SameTasks(b, s),
         b.label = "work" => s.label = "work", b.label # "off" => s.label # "off",
         r2.task = r.task, r2.label \in Awaits => r2.label = r.label,
         p \subseteq p2, lo \subseteq lo2, pr \subseteq pr2
  PROVE  WaitOK(r2, s, p2, lo2, pr2, ne)
<1>1. QueuedIn(s) = QueuedIn(b)
  BY DEF SameTasks, QueuedIn
<1>2. IsComing(r.task, b, p) => IsComing(r.task, s, p2)
  BY <1>1 DEF IsComing, SameTasks
<1>3. IsMostRecent(r.task, b) => IsMostRecent(r.task, s)
  BY DEF IsMostRecent, SameTasks
<1>. QED
  BY <1>2, <1>3 DEF WaitOK

(* A step that moves no task and starts or ends no work: of a client, or   *)
(* of a thread between two tasks.                                          *)
Resting == {"sleep", "pick", "resolve", "finish"}
CalmFor(r, s) ==
    /\ SameTasks(r, s) /\ (r.aborting => s.aborting)
    /\ s.label = r.label \/ {s.label, r.label} \subseteq Resting
ViewUnchanged ==
    UNCHANGED <<pool, stage, hasImage, ongoing, threw, histVars, viewerVars, requested,
                neat, produced>>

(* It keeps the invariant.                                                 *)
LEMMA CalmKeeps ==
  ASSUME ViewerInv, th' \in [Threads -> Thread], CallsOK', ViewUnchanged,
         CalmFor(th["scheduler"], th'["scheduler"]), CalmFor(th["backup"], th'["backup"]),
         aborted' \subseteq aborted \cup ongoing
  PROVE  ViewerInv'
<1> DEFINE r == th["scheduler"]
           r2 == th'["scheduler"]
           b == th["backup"]
           b2 == th'["backup"]
<1>1. /\ UNCHANGED <<pool, stage, hasImage, ongoing, threw, posted, settled, lost>>
      /\ UNCHANGED <<displayed, mtArgs, events, requested, neat, produced>>
  BY DEF ViewUnchanged, histVars, viewerVars
<1>2. /\ SameTasks(r, r2) /\ (r2.label \in InHand <=> r.label \in InHand)
      /\ r2.label \in InHand => r2.label = r.label
      /\ r2.label = "dispatch" => r.label = "dispatch"
      /\ r2.label = "mainwait" <=> r.label = "mainwait"
      /\ r2.label = "work" <=> r.label = "work"
      /\ r2.overdue = r.overdue /\ r2.task = r.task
  BY DEF CalmFor, Resting, InHand, SameTasks
<1>3. /\ SameTasks(b, b2) /\ (b2.label \in InHand <=> b.label \in InHand)
      /\ b2.label = "work" <=> b.label = "work"
      /\ b2.label = "off" <=> b.label = "off"
      /\ b2.task = b.task
  BY DEF CalmFor, Resting, InHand, SameTasks
<1>4. LateOK(r) => LateOK(r2)
  BY DEF CalmFor, LateOK, SameTasks
<1>5. LateOK(b) => LateOK(b2)
  BY DEF CalmFor, LateOK, SameTasks
<1> HIDE DEF r, r2, b, b2
<1>6. ThreadsOK' /\ SetsOK' /\ StagesOK' /\ ViewerOK'
  <2>1. ThreadsOK'
    BY <1>2, <1>3, Parts DEF ThreadsOK, r, r2, b, b2
  <2>2. SetsOK'
    BY <1>1, Parts DEF SetsOK
  <2>3. StagesOK' /\ ViewerOK'
    BY <1>1, Parts DEF StagesOK, ViewerOK
  <2>. QED
    BY <2>1, <2>2, <2>3
<1>7. RequestsOK(r2, stage', requested')
  BY <1>1, <1>2, Parts, RequestsStay DEF r
<1>8. BackupOK(b2, stage', requested')
  <2>1. BackupOK(b, stage, requested) /\ requested \in Nat /\ requested <= requested
    BY Parts DEF b
  <2>2. BackupOK(b2, stage, requested)
    BY <1>3, <2>1, BackupStays
  <2>. QED
    BY <1>1, <2>2
<1>9. EventsOK(events', r2.label)
  BY <1>1, <1>2, Parts DEF EventsOK, r
<1>10. LateOK(r2) /\ LateOK(b2)
  BY <1>4, <1>5, Parts DEF r, b
<1>11. OngoingOK(ongoing' \ threw', pool', b2, stage')
  BY <1>1, <1>3, Parts DEF OngoingOK, Works, b
<1>12. OrderOK(r2, r2.overdue \cup neat', {displayed'} \cap posted', mtArgs')
  <2>1. OrderOK(r, r.overdue \cup neat, {displayed} \cap posted, mtArgs)
    BY Parts DEF r
  <2>2. r2.label \in {"leave", "mainwait"} /\ mtArgs # NoImage => mtArgs = r2.task
    BY <1>2, <2>1 DEF OrderOK, InHand
  <2>3. OrderOK(r2, r.overdue \cup neat, {displayed} \cap posted, mtArgs)
    BY <1>2, <2>1, <2>2, OrderStays
  <2>. QED
    BY <1>1, <1>2, <2>3
<1>13. WaitOK(r2, b2, pool', lost', produced', neat')
  <2>1. WaitOK(r, b, pool, lost, produced, neat)
    BY Parts DEF r, b
  <2>2. r2.label \in Awaits => r2.label = r.label
    BY <1>2 DEF Awaits, InHand
  <2>3. WaitOK(r2, b2, pool, lost, produced, neat)
    BY <1>2, <1>3, <2>1, <2>2, WaitStays
  <2>. QED
    BY <1>1, <2>3
<1>. QED
  BY <1>6, <1>7, <1>8, <1>9, <1>10, <1>11, <1>12, <1>13, PartsNext DEF r2, b2

(* quitThread() and abortThreadedTask() on one thread touch its flags.     *)
LEMMA FlagFacts ==
  ASSUME NEW r \in Thread, NEW k \in BOOLEAN
  PROVE  /\ Quitting(r, k) \in Thread /\ CalmFor(r, Quitting(r, k))
         /\ [r EXCEPT !.aborting = TRUE] \in Thread
         /\ CalmFor(r, [r EXCEPT !.aborting = TRUE])
         /\ CalmFor(r, r)
<1>1. /\ Quitting(r, k).queue = r.queue /\ Quitting(r, k).late = r.late
      /\ Quitting(r, k).task = r.task /\ Quitting(r, k).overdue = r.overdue
      /\ Quitting(r, k).aborting = r.aborting /\ Quitting(r, k).label = r.label
      /\ Quitting(r, k) \in Thread
  BY DEF Quitting, Thread
<1> DEFINE e == [r EXCEPT !.aborting = TRUE]
<1>2. /\ e.queue = r.queue /\ e.late = r.late /\ e.task = r.task
      /\ e.overdue = r.overdue /\ e.aborting = TRUE /\ e.label = r.label
      /\ e \in Thread
  BY DEF Thread
<1>. QED
  BY <1>1, <1>2 DEF CalmFor, SameTasks

(* The calls of the two clients, but for those that empty a queue.         *)
LEMMA CallsAreCalm ==
  ASSUME ViewerInv, NEW c \in Clients,
         CallAbort \/ CallQuit \/ AbortStep(c) \/ QuitReadState \/ QuitBackup
           \/ QuitBackupReadState \/ QuitBackupRaise \/ WaitForQuit \/ Join
           \/ WaitForRunnableTasks \/ WaitForBackup
  PROVE  ViewerInv'
<1> USE DEF histVars, threadVars, renderVars, viewerVars, callVars, countVars, ViewUnchanged
<1>1. /\ th \in [Threads -> Thread] /\ CallsOK
      /\ th["scheduler"] \in Thread /\ th["backup"] \in Thread
      /\ "scheduler" \in Threads /\ "backup" \in Threads
      /\ "main" \in Clients /\ "watcher" \in Clients
  BY Parts DEF ThreadsOK, Threads, Clients
<1>2. CalmFor(th["scheduler"], th["scheduler"]) /\ CalmFor(th["backup"], th["backup"])
  BY <1>1, FlagFacts
<1>3. ASSUME NEW d \in Clients, NEW l \in CallLabels, Move(d, l), keep' = keep
      PROVE  CallsOK'
  BY <1>1, <1>3 DEF CallsOK, Move
<1>4. ASSUME NEW d \in Clients, AbortReturns(d)  PROVE CallsOK'
  BY <1>1, <1>4 DEF CallsOK, AbortReturns, Move, CallLabels
<1>5. ASSUME NEW t \in Threads, Raise(t)
      PROVE  /\ th' \in [Threads -> Thread]
             /\ CalmFor(th["scheduler"], th'["scheduler"])
             /\ CalmFor(th["backup"], th'["backup"])
  <2>1. th[t] \in Thread /\ th' = [th EXCEPT ![t] = [th[t] EXCEPT !.aborting = TRUE]]
    BY <1>1, <1>5 DEF Raise
  <2>2. [th[t] EXCEPT !.aborting = TRUE] \in Thread
        /\ CalmFor(th[t], [th[t] EXCEPT !.aborting = TRUE])
    BY <2>1, FlagFacts
  <2>. QED
    BY <1>1, <1>2, <2>1, <2>2 DEF Threads
<1>6. ASSUME NEW t \in Threads, NEW k \in BOOLEAN, th' = [th EXCEPT ![t] = Quitting(th[t], k)]
      PROVE  /\ th' \in [Threads -> Thread]
             /\ CalmFor(th["scheduler"], th'["scheduler"])
             /\ CalmFor(th["backup"], th'["backup"])
  <2>1. Quitting(th[t], k) \in Thread /\ CalmFor(th[t], Quitting(th[t], k))
    BY <1>1, FlagFacts
  <2>. QED
    BY <1>1, <1>2, <1>6, <2>1 DEF Threads
<1>7. CASE CallAbort
  <2>1. CallsOK' /\ ViewUnchanged /\ UNCHANGED <<th, aborted>>
    BY <1>1, <1>7 DEF CallAbort, CallsOK, Move, CallLabels
  <2>. QED
    BY <1>1, <1>2, <2>1, CalmKeeps
<1>8. CASE CallQuit
  <2>1. CallsOK' /\ ViewUnchanged /\ UNCHANGED aborted
    BY <1>1, <1>3, <1>8 DEF CallQuit, CallLabels
  <2>2. PICK k \in AllowRestarts : th' = [th EXCEPT !["scheduler"] = Quitting(@, k)]
    BY <1>8 DEF CallQuit
  <2>3. k \in BOOLEAN
    BY RequestsAssumption
  <2>. QED
    BY <1>1, <1>6, <2>1, <2>2, <2>3, CalmKeeps
<1>9. CASE RaiseAbort(c)
  <2>1. CallsOK' /\ ViewUnchanged /\ UNCHANGED aborted /\ Raise("scheduler")
    BY <1>1, <1>3, <1>4, <1>9 DEF RaiseAbort, CallLabels
  <2>. QED
    BY <1>1, <1>5, <2>1, CalmKeeps
<1>10. CASE MarkOngoing(c)
  <2>1. CallsOK' /\ ViewUnchanged /\ UNCHANGED th /\ aborted' \subseteq aborted \cup ongoing
    BY <1>1, <1>3, <1>10 DEF MarkOngoing, CallLabels
  <2>. QED
    BY <1>1, <1>2, <2>1, CalmKeeps
<1>11. CASE AbortBackup(c)
  <2>1. CallsOK' /\ ViewUnchanged /\ UNCHANGED <<th, aborted>>
    BY <1>1, <1>3, <1>4, <1>11 DEF AbortBackup, CallLabels
  <2>. QED
    BY <1>1, <1>2, <2>1, CalmKeeps
<1>12. CASE RaiseBackup(c)
  <2>1. CallsOK' /\ ViewUnchanged /\ UNCHANGED aborted /\ Raise("backup")
    BY <1>1, <1>4, <1>12 DEF RaiseBackup
  <2>. QED
    BY <1>1, <1>5, <2>1, CalmKeeps
<1>13. CASE QuitBackup
  <2>1. CallsOK' /\ ViewUnchanged /\ UNCHANGED aborted
    BY <1>1, <1>3, <1>13 DEF QuitBackup, CallLabels
  <2>2. scheduler.restart \in BOOLEAN
    BY <1>1 DEF Thread, scheduler
  <2>3. th' = [th EXCEPT !["backup"] = Quitting(@, scheduler.restart)] \/ th' = th
    BY <1>13 DEF QuitBackup
  <2>. QED
    BY <1>1, <1>2, <1>6, <2>1, <2>2, <2>3, CalmKeeps
<1>14. CASE QuitBackupRaise
  <2>1. CallsOK' /\ ViewUnchanged /\ UNCHANGED aborted /\ Raise("backup")
    BY <1>1, <1>3, <1>14 DEF QuitBackupRaise, CallLabels
  <2>. QED
    BY <1>1, <1>5, <2>1, CalmKeeps
<1>15. CASE QuitReadState \/ QuitBackupReadState \/ WaitForQuit \/ Join
             \/ WaitForRunnableTasks \/ WaitForBackup
  <2>1. PICK l \in CallLabels : Move("watcher", l)
    BY <1>15 DEF QuitReadState, QuitBackupReadState, WaitForQuit, Join,
                 WaitForRunnableTasks, WaitForBackup, CallLabels
  <2>2. ViewUnchanged /\ UNCHANGED <<th, aborted, keep>>
    BY <1>15 DEF QuitReadState, QuitBackupReadState, WaitForQuit, Join,
                 WaitForRunnableTasks, WaitForBackup
  <2>3. CallsOK'
    BY <1>1, <1>3, <2>1, <2>2
  <2>. QED
    BY <1>1, <1>2, <2>2, <2>3, CalmKeeps
<1>. QED
  BY <1>7, <1>8, <1>9, <1>10, <1>11, <1>12, <1>13, <1>14, <1>15 DEF AbortStep

(* What a thread does between two tasks, without touching its queues.      *)
LEMMA RestsAreCalm ==
  ASSUME ViewerInv, NEW t \in Threads, Resolve(t) \/ TakeStartRequest(t)
  PROVE  ViewerInv'
<1> USE DEF histVars, threadVars, renderVars, viewerVars, callVars, countVars, ViewUnchanged
<1> DEFINE r == th[t]
           s == th'[t]
<1>1. /\ th \in [Threads -> Thread] /\ CallsOK /\ r \in Thread
      /\ CalmFor(th["scheduler"], th["scheduler"]) /\ CalmFor(th["backup"], th["backup"])
  BY Parts, FlagFacts DEF ThreadsOK
<1>2. ViewUnchanged /\ UNCHANGED <<aborted, at, keep>>
  BY DEF Resolve, TakeStartRequest
<1>3. CallsOK'
  BY <1>1, <1>2 DEF CallsOK
<1>4. th' = [th EXCEPT ![t] = s] /\ s \in Thread /\ CalmFor(r, s)
  <2>1. CASE Resolve(t)
    <3>1. "finish" \in Labels
      BY DEF Labels
    <3>2. s = [Resolved(r) EXCEPT !.label = "finish"] /\ r.label = "resolve"
          /\ th' = [th EXCEPT ![t] = s]
      BY <1>1, <2>1 DEF Resolve
    <3>3. /\ s \in Thread /\ s.queue = r.queue /\ s.late = r.late
          /\ s.aborting = r.aborting /\ s.overdue = r.overdue
          /\ s.label = "finish" /\ s.task = r.task
      BY <1>1, <3>1, <3>2, ResolvedFacts
    <3>. QED
      BY <3>2, <3>3 DEF CalmFor, SameTasks, Resting
  <2>2. CASE TakeStartRequest(t)
    <3>1. r.wakes \in Nat /\ r.wakes > 0 /\ r.label = "sleep" /\ "pick" \in Labels
      BY <1>1, <2>2 DEF TakeStartRequest, Thread, Labels
    <3>2. s = [r EXCEPT !.wakes = @ - 1, !.label = "pick"] /\ th' = [th EXCEPT ![t] = s]
      BY <1>1, <2>2 DEF TakeStartRequest
    <3> DEFINE w == r.wakes - 1
    <3>3. w \in Nat
      BY <3>1
    <3> HIDE DEF w
    <3>4. s = [r EXCEPT !.wakes = w, !.label = "pick"]
      BY <3>2 DEF w
    <3>5. /\ s \in Thread /\ s.queue = r.queue /\ s.late = r.late
          /\ s.aborting = r.aborting /\ s.overdue = r.overdue
          /\ s.label = "pick" /\ s.task = r.task
      BY <1>1, <3>1, <3>3, <3>4 DEF Thread
    <3>. QED
      BY <3>1, <3>2, <3>5 DEF CalmFor, SameTasks, Resting
  <2>. QED
    BY <2>1, <2>2
<1> HIDE DEF s
<1>5. /\ th' \in [Threads -> Thread]
      /\ CalmFor(th["scheduler"], th'["scheduler"]) /\ CalmFor(th["backup"], th'["backup"])
  BY <1>1, <1>4 DEF Threads
<1>. QED
  BY <1>2, <1>3, <1>5, CalmKeeps

-----------------------------------------------------------------------------
(* The steps that move a task, start work or end it                        *)

(* The events of the main thread: one is queued...                         *)
LEMMA EventQueued ==
  ASSUME NEW ev \in Seq({"execute", "disconnect"}), NEW l, EventsOK(ev, l)
  PROVE  /\ Append(ev, "execute") \in Seq({"execute", "disconnect"})
         /\ Append(ev, "disconnect") \in Seq({"execute", "disconnect"})
         /\ l # "mainwait" => EventsOK(Append(ev, "execute"), "mainwait")
         /\ EventsOK(Append(ev, "disconnect"), l)
<1> DEFINE n == Len(ev)
           e == Append(ev, "execute")
           d == Append(ev, "disconnect")
<1>1. n \in Nat /\ DOMAIN ev = 1 .. n
  BY LenProperties
<1>2. /\ e \in Seq({"execute", "disconnect"}) /\ DOMAIN e = 1 .. n + 1
      /\ e[n + 1] = "execute" /\ \A i \in 1 .. n : e[i] = ev[i]
      /\ d \in Seq({"execute", "disconnect"}) /\ DOMAIN d = 1 .. n + 1
      /\ d[n + 1] = "disconnect" /\ \A i \in 1 .. n : d[i] = ev[i]
  BY AppendProperties, LenProperties
<1> HIDE DEF n, e, d
<1>3. ASSUME l # "mainwait"
      PROVE  EventsOK(e, "mainwait")
  <2>1. \A i \in 1 .. n : e[i] # "execute"
    BY <1>1, <1>2, <1>3 DEF EventsOK
  <2>2. \A i \in DOMAIN e : e[i] = "execute" => i = n + 1
    BY <1>1, <1>2, <2>1
  <2>3. n + 1 \in DOMAIN e
    BY <1>1, <1>2
  <2>. QED
    BY <1>2, <2>2, <2>3 DEF EventsOK
<1>4. EventsOK(d, l)
  <2>1. \A i \in DOMAIN d : d[i] = "execute" => i \in DOMAIN ev /\ ev[i] = "execute"
    BY <1>1, <1>2
  <2>2. \A i \in DOMAIN ev : i \in DOMAIN d /\ d[i] = ev[i]
    BY <1>1, <1>2
  <2>. QED
    BY <2>1, <2>2 DEF EventsOK
<1>. QED
  BY <1>2, <1>3, <1>4 DEF e, d

(* ...or handled.                                                          *)
LEMMA EventHandled ==
  ASSUME NEW ev \in Seq({"execute", "disconnect"}), NEW l, EventsOK(ev, l), ev # <<>>
  PROVE  /\ Tail(ev) \in Seq({"execute", "disconnect"})
         /\ Head(ev) = "execute" => l = "mainwait"
         /\ Head(ev) = "execute" => \A k : k # "mainwait" => EventsOK(Tail(ev), k)
         /\ Head(ev) = "disconnect" => EventsOK(Tail(ev), l)
<1> DEFINE n == Len(ev)
           t == Tail(ev)
<1>1. n \in Nat /\ n # 0 /\ DOMAIN ev = 1 .. n /\ Head(ev) = ev[1]
  BY LenProperties, EmptySeq, HeadTailProperties
<1>2. /\ t \in Seq({"execute", "disconnect"}) /\ Len(t) = n - 1
      /\ \A i \in 1 .. n - 1 : t[i] = ev[i + 1]
  BY HeadTailProperties, LenProperties
<1>3. DOMAIN t = 1 .. n - 1
  BY <1>2, LenProperties
<1> HIDE DEF n, t
<1>4. 1 \in DOMAIN ev /\ \A i \in DOMAIN t : i + 1 \in DOMAIN ev /\ t[i] = ev[i + 1] /\ i + 1 # 1
  BY <1>1, <1>2, <1>3
<1>5. \A i \in DOMAIN ev : i = 1 \/ (i - 1 \in DOMAIN t /\ t[i - 1] = ev[i])
  BY <1>1, <1>2, <1>3
<1>6. Head(ev) = "execute" => l = "mainwait"
  BY <1>1, <1>4 DEF EventsOK
<1>7. ASSUME Head(ev) = "execute", NEW k, k # "mainwait"
      PROVE  EventsOK(t, k)
  <2>1. \A i \in DOMAIN t : t[i] # "execute"
    BY <1>1, <1>4, <1>7 DEF EventsOK
  <2>. QED
    BY <1>7, <2>1 DEF EventsOK
<1>8. ASSUME Head(ev) = "disconnect"
      PROVE  EventsOK(t, l)
  <2>1. ev[1] # "execute"
    BY <1>1, <1>8
  <2>2. \A i, j \in DOMAIN t : t[i] = "execute" /\ t[j] = "execute" => i + 1 = j + 1
    BY <1>4 DEF EventsOK
  <2>3. \A i \in DOMAIN t : i \in Nat
    BY <1>1, <1>3
  <2>4. \A i, j \in DOMAIN t : t[i] = "execute" /\ t[j] = "execute" => i = j
    BY <2>2, <2>3
  <2>5. (\E i \in DOMAIN t : t[i] = "execute") <=> (\E i \in DOMAIN ev : ev[i] = "execute")
    BY <1>4, <1>5, <2>1
  <2>. QED
    BY <2>4, <2>5 DEF EventsOK
<1>. QED
  BY <1>2, <1>6, <1>7, <1>8 DEF t

(* What is late stays overdue, and what the backup thread has was handed   *)
(* over, when a task is picked, an iteration ends or a queue is emptied.   *)
LEMMA LoopKeepsTasks ==
  ASSUME NEW r \in Thread, NEW l \in Labels, NEW st, NEW n, LateOK(r)
  PROVE  /\ r.label = "pick" => LateOK(Picked(r, l))
         /\ LateOK(After(r)) /\ LateOK(Cleared(r))
         /\ BackupOK(r, st, n) =>
              /\ BackupOK(Picked(r, "work"), st, n)
              /\ BackupOK(After(r), st, n) /\ BackupOK(Cleared(r), st, n)
<1>1. r.label = "pick" => LateOK(Picked(r, l))
  BY PickedFacts DEF LateOK
<1>2. LateOK(After(r))
  <2>1. Range(<<>>) = {}
    BY DEF Range
  <2>. QED
    BY <2>1, FinishedFacts DEF LateOK
<1>3. LateOK(Cleared(r))
  BY ClearedFacts DEF LateOK
<1>4. ASSUME BackupOK(r, st, n)
      PROVE  BackupOK(Picked(r, "work"), st, n)
  <2> DEFINE s == Picked(r, "work")
  <2>1. "work" \in Labels
    BY DEF Labels
  <2>2. QueuedIn(s) \subseteq QueuedIn(r)
    BY <2>1, PickedFacts DEF QueuedIn
  <2>3. ASSUME s.label = "work"
        PROVE  s.task \in QueuedIn(r)
    <3>1. r.queue # <<>>
      BY <2>1, <2>3, PickedFacts
    <3>2. /\ Len(r.queue) \in DOMAIN r.queue /\ s.task = r.queue[Len(r.queue)]
          /\ s.task \in Ages \cup {Stub}
          /\ s.label = AfterPick(r.queue[Len(r.queue)], "work")
      BY <2>1, <3>1, PickedFacts
    <3>3. s.task # Stub
      BY <2>3, <3>2 DEF AfterPick
    <3>. QED
      BY <3>2, <3>3 DEF QueuedIn, Range
  <2> HIDE DEF s
  <2>4. BackupOK(s, st, n)
    BY <1>4, <2>2, <2>3 DEF BackupOK
  <2>. QED
    BY <2>4 DEF s
<1>5. ASSUME BackupOK(r, st, n)
      PROVE  BackupOK(After(r), st, n)
  <2>1. r.queue \in Seq(Ages \cup {Stub}) /\ r.late \in Seq(Ages \cup {Stub})
    BY Fields, SeqMonotonic
  <2>2. Range(r.queue \o r.late) = Range(r.queue) \cup Range(r.late)
    BY <2>1, ConcatOfLists
  <2>3. Range(<<>>) = {}
    BY DEF Range
  <2>4. QueuedIn(After(r)) = QueuedIn(r) /\ After(r).label # "work"
    BY <2>2, <2>3, FinishedFacts DEF QueuedIn
  <2>. QED
    BY <1>5, <2>4 DEF BackupOK
<1>6. ASSUME BackupOK(r, st, n)
      PROVE  BackupOK(Cleared(r), st, n)
  <2>1. Range(<<Stub>>) \cap Ages = {}
    BY AgesFacts DEF Range
  <2>2. /\ QueuedIn(Cleared(r)) \subseteq QueuedIn(r)
        /\ Cleared(r).label = r.label /\ Cleared(r).task = r.task
    BY <2>1, ClearedFacts DEF QueuedIn
  <2>. QED
    BY <1>6, <2>2 DEF BackupOK
<1>. QED
  BY <1>1, <1>2, <1>3, <1>4, <1>5, <1>6

(* renderCurrentFrame(): the new request is displayed at once, or queued.  *)
LEMMA RequestKeeps ==
  ASSUME ViewerInv, RenderCurrentFrame
  PROVE  ViewerInv'
<1> USE DEF renderVars, callVars
<1> DEFINE r == th["scheduler"]
           r2 == th'["scheduler"]
           b == th["backup"]
           a == requested + 1
           X == r.overdue \cup neat
           S == {displayed} \cap posted
<1>1. /\ requested \in Nat /\ a \in Ages /\ a \in 0..MaxRequests /\ 1..requested \subseteq Ages
      /\ 1..requested \subseteq 1..a /\ a \in 1..a /\ a \notin 1..requested
      /\ NoImage \notin Ages /\ r \in Thread /\ b \in Thread
  BY Parts, RequestedFacts, AgesFacts DEF RenderCurrentFrame, StagesOK
<1>2. /\ requested' = a
      /\ UNCHANGED <<settled, lost, pool, stage, hasImage, ongoing, aborted, threw, mtArgs,
                     events, at, keep, neat, produced>>
  BY DEF RenderCurrentFrame
<1>3. /\ posted' \subseteq posted \cup {a} /\ displayed' \in {a, NoImage, displayed}
      /\ {displayed'} \cap posted' \subseteq S
      /\ th'["backup"] = b /\ ThreadsOK'
      /\ r2 = r \/ r2 = AfterStartTask(r, a)
  <2>1. displayed \in (1..requested) \cup {NoImage} /\ posted \subseteq 1..requested
    BY Parts DEF ViewerOK, SetsOK
  <2>2. AfterStartTask(r, a) \in Thread /\ AfterStartTask(r, a).label \in {r.label, "pick"}
    BY <1>1, StartTaskFacts
  <2>3. ThreadsOK /\ r.label # "work"
    BY Parts DEF ThreadsOK
  <2>4. CASE displayed' \in {a, NoImage, displayed} /\ UNCHANGED <<th, posted>>
    BY <1>1, <2>1, <2>3, <2>4 DEF ThreadsOK
  <2>5. CASE /\ th' = [th EXCEPT !["scheduler"] = AfterStartTask(@, a)]
             /\ posted' = IF Accepts(scheduler) THEN posted \cup {a} ELSE posted
             /\ UNCHANGED displayed
    <3>1. th' = [th EXCEPT !["scheduler"] = AfterStartTask(r, a)]
      BY <2>5
    <3>2. r2 = AfterStartTask(r, a) /\ th'["backup"] = b /\ ThreadsOK'
      BY <2>2, <2>3, <3>1, SchedulerChanges
    <3>. QED
      BY <1>1, <2>1, <2>5, <3>2
  <2>. QED
    BY <2>4, <2>5 DEF RenderCurrentFrame
<1>4. RequestsOK(r, stage, requested) /\ LateOK(r) /\ OrderOK(r, X, S, mtArgs)
      /\ S \subseteq 1..requested
  BY Parts DEF SetsOK
<1>5. /\ RequestsOK(r, stage, a) /\ RequestsOK(AfterStartTask(r, a), stage, a)
      /\ LateOK(AfterStartTask(r, a)) /\ OrderOK(AfterStartTask(r, a), X, S, mtArgs)
  <2>1. RequestsOK(r, stage, a)
    BY <1>1, <1>4 DEF RequestsOK
  <2>2. RequestsOK(AfterStartTask(r, a), stage, a)
    BY <1>1, <1>4, RequestsGrow
  <2>3. OrderOK(AfterStartTask(r, a), X, S, mtArgs)
    BY <1>1, <1>4, OrderGrows
  <2>4. LateOK(AfterStartTask(r, a))
    BY <1>1, <1>4, StartTaskFacts DEF LateOK
  <2>. QED
    BY <2>1, <2>2, <2>3, <2>4
<1>6. /\ r2.overdue = r.overdue /\ r2.task = r.task
      /\ r2.label = r.label \/ (r2.label = "pick" /\ r.label = "off")
  BY <1>1, <1>3, StartTaskFacts
<1> HIDE DEF r2, X, S
<1>7. SetsOK' /\ StagesOK' /\ CallsOK' /\ ViewerOK'
  <2>1. SetsOK'
    BY <1>1, <1>2, <1>3, Parts DEF SetsOK
  <2>2. StagesOK' /\ CallsOK'
    BY <1>1, <1>2, Parts DEF StagesOK, CallsOK
  <2>3. ViewerOK'
    BY <1>1, <1>2, <1>3, Parts DEF ViewerOK
  <2>. QED
    BY <2>1, <2>2, <2>3
<1>8. RequestsOK(r2, stage', requested') /\ LateOK(r2)
  BY <1>2, <1>3, <1>4, <1>5
<1>9. BackupOK(b, stage', requested')
  <2>1. BackupOK(b, stage, requested) /\ SameTasks(b, b) /\ a \in Nat /\ requested <= a
    BY <1>1, Parts DEF SameTasks
  <2>2. BackupOK(b, stage, a)
    BY <1>1, <2>1, BackupStays
  <2>. QED
    BY <1>2, <2>2
<1>10. EventsOK(events', r2.label)
  BY <1>2, <1>6, Parts DEF EventsOK
<1>11. OngoingOK(ongoing' \ threw', pool', b, stage') /\ LateOK(b)
  BY <1>2, Parts
<1>12. OrderOK(r2, r2.overdue \cup neat', {displayed'} \cap posted', mtArgs')
  <2>1. OrderOK(r2, X, S, mtArgs)
    BY <1>3, <1>4, <1>5
  <2>2. OrderOK(r2, X, {displayed'} \cap posted', mtArgs)
    BY <1>3, <2>1 DEF OrderOK
  <2>. QED
    BY <1>2, <1>6, <2>2 DEF X
<1>13. WaitOK(r2, b, pool', lost', produced', neat')
  <2>1. WaitOK(r, b, pool, lost, produced, neat)
    BY Parts
  <2>2. WaitOK(r2, b, pool, lost, produced, neat)
    BY <1>6, <2>1 DEF WaitOK, Awaits
  <2>. QED
    BY <1>2, <2>2
<1>. QED
  BY <1>3, <1>7, <1>8, <1>9, <1>10, <1>11, <1>12, <1>13, PartsNext DEF r2

(* run() takes a task.                                                     *)
LEMMA SchedulerPickKeeps ==
  ASSUME ViewerInv, Pick("scheduler", "dispatch")
  PROVE  ViewerInv'
<1> USE DEF renderVars, viewerVars, callVars, countVars
<1> DEFINE r == th["scheduler"]
           r2 == th'["scheduler"]
           b == th["backup"]
<1>1. /\ r.label = "pick" /\ th' = [th EXCEPT !["scheduler"] = Picked(r, "dispatch")]
      /\ settled' = settled \cup Skipped(r)
      /\ UNCHANGED <<posted, lost, pool, stage, hasImage, ongoing, aborted, threw, displayed,
                     mtArgs, events, at, keep, requested, calls, neat, produced>>
  BY DEF Pick
<1>2. r \in Thread /\ b \in Thread /\ "dispatch" \in Labels /\ 1..requested \subseteq Ages
      /\ requested \in Nat
  BY Parts DEF Labels
<1>3. /\ Picked(r, "dispatch") \in Thread
      /\ Picked(r, "dispatch").overdue = r.overdue
      /\ Picked(r, "dispatch").label \in {"dispatch", "resolve"}
  <2>1. r.queue = <<>> => Picked(r, "dispatch").label = "resolve"
    BY <1>2, PickedFacts
  <2>2. r.queue # <<>> =>
          Picked(r, "dispatch").label = AfterPick(r.queue[Len(r.queue)], "dispatch")
    BY <1>2, PickedFacts
  <2>. QED
    BY <1>2, <2>1, <2>2, PickedFacts DEF AfterPick
<1>4. r2 = Picked(r, "dispatch") /\ th'["backup"] = b /\ ThreadsOK'
  BY <1>1, <1>3, Parts, SchedulerChanges
<1>5. Skipped(r) \subseteq 1..requested
  <2>1. QueuedIn(r) \subseteq 1..requested
    BY Parts DEF RequestsOK
  <2>2. r.queue # <<>> => Range(Older(r)) \subseteq Range(r.queue)
    <3>1. SUFFICES ASSUME r.queue # <<>> PROVE Range(Older(r)) \subseteq Range(r.queue)
      OBVIOUS
    <3>2. r.queue \in Seq(Ages \cup {Stub}) /\ Len(r.queue) - 1 \in 0 .. Len(r.queue)
      BY <1>2, <3>1, Fields, EmptySeq, LenProperties
    <3>. QED
      BY <3>2, PrefixOfList DEF Older
  <2>. QED
    BY <2>1, <2>2 DEF Skipped, QueuedIn
<1>6. RequestsOK(Picked(r, "dispatch"), stage, requested)
  BY <1>1, <1>2, Parts, RequestsPicked
<1>7. OrderOK(Picked(r, "dispatch"), r.overdue \cup neat, {displayed} \cap posted, mtArgs)
  BY <1>1, <1>2, Parts, OrderPicked
<1>8. LateOK(Picked(r, "dispatch"))
  BY <1>1, <1>2, Parts, LoopKeepsTasks
<1>9. EventsOK(events, r.label) /\ WaitOK(r, b, pool, lost, produced, neat)
      /\ BackupOK(b, stage, requested) /\ LateOK(b)
      /\ OngoingOK(ongoing \ threw, pool, b, stage)
  BY Parts
<1> HIDE DEF r, r2, b
<1>10. SetsOK' /\ StagesOK' /\ CallsOK' /\ ViewerOK'
  <2>1. SetsOK'
    BY <1>1, <1>5, Parts DEF SetsOK
  <2>2. StagesOK' /\ CallsOK' /\ ViewerOK'
    BY <1>1, Parts DEF StagesOK, CallsOK, ViewerOK
  <2>. QED
    BY <2>1, <2>2
<1>11. EventsOK(events', r2.label)
  BY <1>1, <1>3, <1>4, <1>9 DEF EventsOK
<1>12. WaitOK(r2, b, pool', lost', produced', neat')
  BY <1>3, <1>4 DEF WaitOK, Awaits
<1>13. /\ RequestsOK(r2, stage', requested') /\ LateOK(r2)
       /\ OrderOK(r2, r2.overdue \cup neat', {displayed'} \cap posted', mtArgs')
       /\ BackupOK(b, stage', requested') /\ OngoingOK(ongoing' \ threw', pool', b, stage')
  BY <1>1, <1>3, <1>4, <1>6, <1>7, <1>8, <1>9
<1>. QED
  BY <1>4, <1>9, <1>10, <1>11, <1>12, <1>13, PartsNext DEF r2

(* The scheduler ends an iteration.                                        *)
LEMMA SchedulerFinishKeeps ==
  ASSUME ViewerInv, Finish("scheduler")
  PROVE  ViewerInv'
<1> USE DEF renderVars, viewerVars, callVars, countVars
<1> DEFINE r == th["scheduler"]
           r2 == th'["scheduler"]
           b == th["backup"]
<1>1. /\ r.label = "finish" /\ th' = [th EXCEPT !["scheduler"] = After(r)]
      /\ settled' \subseteq settled \cup QueuedIn(r)
      /\ UNCHANGED <<posted, lost, pool, stage, hasImage, ongoing, aborted, threw, displayed,
                     mtArgs, events, at, keep, requested, calls, neat, produced>>
  BY DEF Finish, After
<1>2. r \in Thread /\ b \in Thread
  BY Parts
<1>3. After(r) \in Thread /\ After(r).label \in {"off", "sleep"}
  BY <1>2, FinishedFacts
<1>4. r2 = After(r) /\ th'["backup"] = b /\ ThreadsOK'
  BY <1>1, <1>3, Parts, SchedulerChanges
<1>5. /\ RequestsOK(After(r), stage, requested)
      /\ OrderOK(After(r), After(r).overdue \cup neat, {displayed} \cap posted, mtArgs)
      /\ LateOK(After(r)) /\ QueuedIn(r) \subseteq 1..requested
  <2>1. RequestsOK(After(r), stage, requested)
    BY <1>2, Parts, RequestsFinished
  <2>2. OrderOK(After(r), After(r).overdue \cup neat, {displayed} \cap posted, mtArgs)
    BY <1>2, Parts, OrderFinished
  <2>3. LateOK(After(r)) /\ QueuedIn(r) \subseteq 1..requested
    <3>1. "off" \in Labels /\ RequestsOK(r, stage, requested)
      BY Parts DEF Labels
    <3>. QED
      BY <1>2, <3>1, Parts, LoopKeepsTasks DEF RequestsOK
  <2>. QED
    BY <2>1, <2>2, <2>3
<1>6. EventsOK(events, r.label) /\ LateOK(b) /\ BackupOK(b, stage, requested)
      /\ OngoingOK(ongoing \ threw, pool, b, stage)
  BY Parts
<1> HIDE DEF r, r2, b
<1>7. SetsOK' /\ StagesOK' /\ CallsOK' /\ ViewerOK'
  <2>1. SetsOK'
    BY <1>1, <1>5, Parts DEF SetsOK
  <2>2. StagesOK' /\ CallsOK' /\ ViewerOK'
    BY <1>1, Parts DEF StagesOK, CallsOK, ViewerOK
  <2>. QED
    BY <2>1, <2>2
<1>8. EventsOK(events', r2.label)
  BY <1>1, <1>3, <1>4, <1>6 DEF EventsOK
<1>9. WaitOK(r2, b, pool', lost', produced', neat')
  BY <1>3, <1>4 DEF WaitOK, Awaits
<1>10. /\ RequestsOK(r2, stage', requested') /\ LateOK(r2)
       /\ OrderOK(r2, r2.overdue \cup neat', {displayed'} \cap posted', mtArgs')
       /\ BackupOK(b, stage', requested') /\ OngoingOK(ongoing' \ threw', pool', b, stage')
  BY <1>1, <1>4, <1>5, <1>6
<1>. QED
  BY <1>4, <1>6, <1>7, <1>8, <1>9, <1>10, PartsNext DEF r2

(* What must be kept when the backup thread changes.                       *)
LEMMA BackupMoves ==
  ASSUME ViewerInv, NEW s \in Thread, th' = [th EXCEPT !["backup"] = s],
         s.label \notin InHand, CallsOK',
         th["backup"].label = "work" => s.label = "work" /\ s.task = th["backup"].task,
         BackupOK(s, stage, requested), LateOK(s),
         WaitOK(th["scheduler"], s, pool, lost', produced, neat),
         lost' \subseteq 1..requested,
         UNCHANGED <<posted, settled, pool, stage, hasImage, ongoing, aborted, threw,
                     displayed, mtArgs, events, requested, neat, produced>>
  PROVE  ViewerInv'
<1> DEFINE r == th["scheduler"]
<1>1. th'["backup"] = s /\ th'["scheduler"] = r /\ ThreadsOK'
  BY Parts, BackupChanges
<1>2. SetsOK' /\ StagesOK' /\ ViewerOK'
  <2>1. SetsOK'
    BY Parts DEF SetsOK
  <2>2. StagesOK' /\ ViewerOK'
    BY Parts DEF StagesOK, ViewerOK
  <2>. QED
    BY <2>1, <2>2
<1>3. OngoingOK(ongoing' \ threw', pool', s, stage')
  BY Parts DEF OngoingOK, Works
<1>4. /\ RequestsOK(r, stage, requested) /\ EventsOK(events, r.label) /\ LateOK(r)
      /\ OrderOK(r, r.overdue \cup neat, {displayed} \cap posted, mtArgs)
  BY Parts
<1> HIDE DEF r
<1>5. /\ RequestsOK(r, stage', requested') /\ EventsOK(events', r.label)
      /\ OrderOK(r, r.overdue \cup neat', {displayed'} \cap posted', mtArgs')
      /\ BackupOK(s, stage', requested')
  BY <1>4
<1>6. WaitOK(r, s, pool', lost', produced', neat')
  BY DEF r
<1>. QED
  BY <1>1, <1>2, <1>3, <1>4, <1>5, <1>6, PartsNext

(* The backup thread takes a task.                                         *)
LEMMA BackupPickKeeps ==
  ASSUME ViewerInv, Pick("backup", "work")
  PROVE  ViewerInv'
<1> USE DEF renderVars, viewerVars, callVars, countVars
<1> DEFINE r == th["scheduler"]
           b == th["backup"]
           s == Picked(b, "work")
<1>1. /\ b.label = "pick" /\ th' = [th EXCEPT !["backup"] = s]
      /\ lost' = lost \cup SkippedForOverdue(b)
      /\ UNCHANGED <<posted, settled, pool, stage, hasImage, ongoing, aborted, threw,
                     displayed, mtArgs, events, at, keep, requested, calls, neat, produced>>
  BY DEF Pick
<1>2. r \in Thread /\ b \in Thread /\ "work" \in Labels /\ 1..requested \subseteq Ages
  BY Parts DEF Labels
<1>3. s \in Thread /\ s.label \in {"work", "resolve"}
  <2>1. b.queue = <<>> => s.label = "resolve"
    BY <1>2, PickedFacts
  <2>2. b.queue # <<>> => s.label = AfterPick(b.queue[Len(b.queue)], "work")
    BY <1>2, PickedFacts
  <2>. QED
    BY <1>2, <2>1, <2>2, PickedFacts DEF AfterPick
<1>4. BackupOK(s, stage, requested) /\ LateOK(s)
  BY <1>1, <1>2, Parts, LoopKeepsTasks
<1>5. SkippedForOverdue(b) \subseteq 1..requested
  <2>1. QueuedIn(b) \subseteq 1..requested
    BY Parts DEF BackupOK
  <2>2. ASSUME b.queue # <<>>
        PROVE  Range(Older(b)) \subseteq Range(b.queue)
    <3>1. b.queue \in Seq(Ages \cup {Stub}) /\ Len(b.queue) - 1 \in 0 .. Len(b.queue)
      BY <1>2, <2>2, Fields, EmptySeq, LenProperties
    <3>. QED
      BY <3>1, PrefixOfList DEF Older
  <2>. QED
    BY <2>1, <2>2 DEF SkippedForOverdue, Skipped, QueuedIn
<1>6. WaitOK(r, s, pool, lost', produced, neat)
  <2>1. WaitOK(r, b, pool, lost, produced, neat) /\ RequestsOK(r, stage, requested)
    BY Parts
  <2>2. r.label \in Awaits => r.task \in Ages
    BY <1>2, <2>1 DEF RequestsOK, Awaits, InHand
  <2>3. ASSUME NEW a \in Ages, IsComing(a, b, pool), a \notin neat => IsMostRecent(a, b)
        PROVE  IsComing(a, s, pool) \/ a \in SkippedForOverdue(b)
    BY <1>1, <1>2, <2>3, PickedWhileAwaited
  <2>4. ASSUME NEW a \in Ages, a \notin neat, IsMostRecent(a, b)
        PROVE  IsMostRecent(a, s)
    BY <1>2, <2>4, PickedKeepsRecent
  <2> HIDE DEF s, r, b
  <2>. QED
    BY <1>1, <2>1, <2>2, <2>3, <2>4 DEF WaitOK
<1>7. lost' \subseteq 1..requested
  BY <1>1, <1>5, Parts DEF SetsOK
<1>8. CallsOK'
  BY <1>1, Parts DEF CallsOK
<1> HIDE DEF s
<1>. QED
  BY <1>1, <1>3, <1>4, <1>6, <1>7, <1>8, BackupMoves DEF InHand

(* The backup thread ends an iteration.                                    *)
LEMMA BackupFinishKeeps ==
  ASSUME ViewerInv, Finish("backup")
  PROVE  ViewerInv'
<1> USE DEF renderVars, viewerVars, callVars, countVars
<1> DEFINE r == th["scheduler"]
           b == th["backup"]
           s == After(b)
<1>1. /\ b.label = "finish" /\ th' = [th EXCEPT !["backup"] = s]
      /\ lost' = IF b.result = "Stopped" THEN lost \cup QueuedIn(b) ELSE lost
      /\ UNCHANGED <<posted, settled, pool, stage, hasImage, ongoing, aborted, threw,
                     displayed, mtArgs, events, at, keep, requested, calls, neat, produced>>
  BY DEF Finish, After
<1>2. r \in Thread /\ b \in Thread /\ "off" \in Labels /\ 1..requested \subseteq Ages
  BY Parts DEF Labels
<1>3. s \in Thread /\ s.label \in {"off", "sleep"}
  BY <1>2, FinishedFacts
<1>4. BackupOK(s, stage, requested) /\ LateOK(s)
  BY <1>1, <1>2, Parts, LoopKeepsTasks
<1>5. lost' \subseteq 1..requested
  <2>1. QueuedIn(b) \subseteq 1..requested /\ lost \subseteq 1..requested
    BY Parts DEF BackupOK, SetsOK
  <2>. QED
    BY <1>1, <2>1
<1>6. WaitOK(r, s, pool, lost', produced, neat)
  <2>1. WaitOK(r, b, pool, lost, produced, neat) /\ RequestsOK(r, stage, requested)
    BY Parts
  <2>2. r.label \in Awaits => r.task \in Ages
    BY <1>2, <2>1 DEF RequestsOK, Awaits, InHand
  <2>3. ASSUME NEW a \in Ages
        PROVE  /\ IsComing(a, b, pool) =>
                    IsComing(a, s, pool) \/ (b.result = "Stopped" /\ a \in QueuedIn(b))
               /\ IsMostRecent(a, b) => IsMostRecent(a, s)
    BY <1>1, <1>2, FinishedWhileAwaited
  <2> HIDE DEF s, r, b
  <2>. QED
    BY <1>1, <2>1, <2>2, <2>3 DEF WaitOK
<1>7. CallsOK'
  BY <1>1, Parts DEF CallsOK
<1> HIDE DEF s
<1>. QED
  BY <1>1, <1>3, <1>4, <1>5, <1>6, <1>7, BackupMoves DEF InHand

(* quitThread() on the backup thread: what it forgets is lost.             *)
LEMMA BackupClearKeeps ==
  ASSUME ViewerInv, QuitBackupClear
  PROVE  ViewerInv'
<1> USE DEF renderVars, viewerVars, countVars
<1> DEFINE r == th["scheduler"]
           b == th["backup"]
           s == Cleared(b)
<1>1. /\ th' = [th EXCEPT !["backup"] = s] /\ lost' = lost \cup (Range(b.queue) \cap Ages)
      /\ Move("watcher", "wait") /\ keep' = keep
      /\ UNCHANGED <<posted, settled, pool, stage, hasImage, ongoing, aborted, threw,
                     displayed, mtArgs, events, requested, calls, neat, produced>>
  BY DEF QuitBackupClear, backup
<1>2. b \in Thread /\ "off" \in Labels /\ b.label \notin InHand
  BY Parts DEF Labels, ThreadsOK
<1>3. /\ s \in Thread /\ s.label = b.label /\ s.task = b.task /\ s.overdue = b.overdue
      /\ s.queue = <<Stub>> /\ s.late = b.late
  BY <1>2, ClearedFacts
<1>4. BackupOK(s, stage, requested) /\ LateOK(s)
  BY <1>2, Parts, LoopKeepsTasks
<1>5. lost' \subseteq 1..requested
  <2>1. QueuedIn(b) \subseteq 1..requested /\ lost \subseteq 1..requested
    BY Parts DEF BackupOK, SetsOK
  <2>. QED
    BY <1>1, <2>1 DEF QueuedIn
<1> HIDE DEF s, r, b
<1>6. WaitOK(r, s, pool, lost', produced, neat)
  <2>1. WaitOK(r, b, pool, lost, produced, neat)
    BY Parts DEF r, b
  <2>2. ASSUME NEW a, IsComing(a, b, pool)
        PROVE  IsComing(a, s, pool) \/ a \in lost'
    BY <1>1, <1>3, <2>2 DEF IsComing, QueuedIn
  <2>3. ASSUME r.label \in Awaits, IsMostRecent(r.task, b)
        PROVE  IsMostRecent(r.task, s)
    <3>1. r.task # Stub
      BY <2>3, Parts, AgesFacts DEF RequestsOK, Awaits, InHand, r
    <3>2. \A i \in DOMAIN s.queue : s.queue[i] # r.task
      BY <1>3, <3>1
    <3>3. r.task \notin Range(s.queue)
      BY <3>2 DEF Range
    <3>. QED
      BY <1>3, <2>3, <3>2, <3>3 DEF IsMostRecent
  <2>4. lost \subseteq lost'
    BY <1>1
  <2>. QED
    BY <2>1, <2>2, <2>3, <2>4 DEF WaitOK
<1>7. CallsOK'
  BY <1>1, Parts DEF CallsOK, Move, CallLabels, Clients
<1>. QED
  BY <1>1, <1>2, <1>3, <1>4, <1>5, <1>6, <1>7, BackupMoves DEF r, b

(* quitThread() on the scheduler.                                          *)
LEMMA SchedulerClearKeeps ==
  ASSUME ViewerInv, QuitClear
  PROVE  ViewerInv'
<1> USE DEF renderVars, viewerVars, countVars
<1> DEFINE r == th["scheduler"]
           r2 == th'["scheduler"]
           b == th["backup"]
<1>1. /\ th' = [th EXCEPT !["scheduler"] = Cleared(r)]
      /\ settled' = settled \cup (Range(r.queue) \cap Ages)
      /\ Move("watcher", "quitBackup") /\ keep' = keep
      /\ UNCHANGED <<posted, lost, pool, stage, hasImage, ongoing, aborted, threw, displayed,
                     mtArgs, events, requested, calls, neat, produced>>
  BY DEF QuitClear, scheduler
<1>2. r \in Thread /\ b \in Thread /\ r.label # "work" /\ "off" \in Labels
  BY Parts DEF ThreadsOK, Labels
<1>3. /\ Cleared(r) \in Thread /\ Cleared(r).label = r.label
      /\ Cleared(r).task = r.task /\ Cleared(r).overdue = r.overdue
  BY <1>2, ClearedFacts
<1>4. r2 = Cleared(r) /\ th'["backup"] = b /\ ThreadsOK'
  BY <1>1, <1>2, <1>3, Parts, SchedulerChanges
<1>5. /\ RequestsOK(Cleared(r), stage, requested) /\ LateOK(Cleared(r))
      /\ OrderOK(Cleared(r), r.overdue \cup neat, {displayed} \cap posted, mtArgs)
      /\ QueuedIn(r) \subseteq 1..requested
  <2>1. /\ RequestsOK(r, stage, requested) /\ LateOK(r)
        /\ OrderOK(r, r.overdue \cup neat, {displayed} \cap posted, mtArgs)
    BY Parts
  <2>2. RequestsOK(Cleared(r), stage, requested)
        /\ OrderOK(Cleared(r), r.overdue \cup neat, {displayed} \cap posted, mtArgs)
    BY <1>2, <2>1, QueueCleared
  <2>3. LateOK(Cleared(r)) /\ QueuedIn(r) \subseteq 1..requested
    BY <1>2, <2>1, LoopKeepsTasks DEF RequestsOK
  <2>. QED
    BY <2>2, <2>3
<1>6. /\ EventsOK(events, r.label) /\ LateOK(b) /\ BackupOK(b, stage, requested)
      /\ OngoingOK(ongoing \ threw, pool, b, stage)
      /\ WaitOK(r, b, pool, lost, produced, neat)
  BY Parts
<1> HIDE DEF r, r2, b
<1>7. SetsOK' /\ StagesOK' /\ CallsOK' /\ ViewerOK'
  <2>1. SetsOK'
    BY <1>1, <1>5, Parts DEF SetsOK, QueuedIn
  <2>2. StagesOK' /\ ViewerOK'
    BY <1>1, Parts DEF StagesOK, ViewerOK
  <2>3. CallsOK'
    BY <1>1, Parts DEF CallsOK, Move, CallLabels, Clients
  <2>. QED
    BY <2>1, <2>2, <2>3
<1>8. WaitOK(r2, b, pool', lost', produced', neat')
  BY <1>1, <1>3, <1>4, <1>6 DEF WaitOK
<1>9. /\ RequestsOK(r2, stage', requested') /\ LateOK(r2) /\ EventsOK(events', r2.label)
      /\ OrderOK(r2, r2.overdue \cup neat', {displayed'} \cap posted', mtArgs')
      /\ BackupOK(b, stage', requested') /\ OngoingOK(ongoing' \ threw', pool', b, stage')
  BY <1>1, <1>3, <1>4, <1>5, <1>6
<1>. QED
  BY <1>4, <1>6, <1>7, <1>8, <1>9, PartsNext DEF r2

(* What must be kept when the scheduler looks for its frame or has it      *)
(* displayed.                                                              *)
LEMMA SchedulerMoves ==
  ASSUME ViewerInv, NEW s \in Thread, th' = [th EXCEPT !["scheduler"] = s],
         SameTasks(th["scheduler"], s), s.aborting = th["scheduler"].aborting,
         s.label \in InHand => th["scheduler"].label \in InHand,
         s.label # "dispatch", s.label # "work",
         EventsOK(events', s.label), ViewerOK',
         OrderOK(s, s.overdue \cup neat, {displayed'} \cap posted, mtArgs'),
         WaitOK(s, th["backup"], pool, lost, produced', neat),
         produced' \subseteq produced, hasImage' \subseteq hasImage,
         settled' \subseteq 1..requested,
         UNCHANGED <<posted, lost, pool, stage, ongoing, aborted, threw, at, keep,
                     requested, neat>>
  PROVE  ViewerInv'
<1> DEFINE r == th["scheduler"]
           b == th["backup"]
<1>1. th'["scheduler"] = s /\ th'["backup"] = b /\ ThreadsOK'
  BY Parts, SchedulerChanges
<1>2. SetsOK' /\ StagesOK' /\ CallsOK'
  <2>1. SetsOK'
    BY Parts DEF SetsOK
  <2>2. StagesOK' /\ CallsOK'
    BY Parts DEF StagesOK, CallsOK
  <2>. QED
    BY <2>1, <2>2
<1>3. RequestsOK(s, stage, requested)
  BY Parts, RequestsStay
<1>4. LateOK(s) /\ LateOK(b)
  BY Parts DEF LateOK, SameTasks
<1>5. BackupOK(b, stage, requested) /\ OngoingOK(ongoing \ threw, pool, b, stage)
  BY Parts
<1>6. WaitOK(s, b, pool, lost, produced', neat)
  OBVIOUS
<1> HIDE DEF r, b
<1>7. /\ RequestsOK(s, stage', requested') /\ BackupOK(b, stage', requested')
      /\ OngoingOK(ongoing' \ threw', pool', b, stage')
      /\ OrderOK(s, s.overdue \cup neat', {displayed'} \cap posted', mtArgs')
      /\ WaitOK(s, b, pool', lost', produced', neat')
  BY <1>3, <1>5, <1>6
<1>. QED
  BY <1>1, <1>2, <1>4, <1>7, PartsNext

(* The scheduler looks for its frame.                                      *)
LEMMA LookKeeps ==
  ASSUME ViewerInv, Look
  PROVE  ViewerInv'
<1> USE DEF histVars, callVars, countVars
<1> DEFINE r == th["scheduler"]
           b == th["backup"]
           s == th'["scheduler"]
<1>1. /\ r.label = "look"
      /\ UNCHANGED <<posted, settled, lost, pool, stage, ongoing, aborted, threw, displayed,
                     events, at, keep, requested, calls, neat>>
  BY DEF Look, scheduler
<1>2. /\ r \in Thread /\ b \in Thread /\ {"leave", "asleep"} \subseteq Labels
      /\ r.task \in 1..requested
  BY <1>1, Parts DEF Labels, RequestsOK, InHand
<1>3. /\ s \in Thread /\ th' = [th EXCEPT !["scheduler"] = s]
      /\ SameTasks(r, s) /\ s.aborting = r.aborting /\ s.label \in {"leave", "asleep"}
      /\ mtArgs' \in {r.task, NoImage}
      /\ produced' \subseteq produced /\ hasImage' \subseteq hasImage
      /\ s.label = "asleep" => r.task \notin produced /\ produced' = produced
  <2>1. ThreadsOK
    BY Parts
  <2>2. CASE r.task \in produced
    <3> DEFINE e == [r EXCEPT !.label = "leave", !.result = "Active"]
    <3>1. th' = [th EXCEPT !["scheduler"] = e]
      BY <2>2 DEF Look, scheduler
    <3>2. e \in Thread /\ SameTasks(r, e) /\ e.aborting = r.aborting /\ e.label = "leave"
      BY <1>2 DEF Thread, SameTasks
    <3>3. s = e
      BY <2>1, <3>1, <3>2, SchedulerChanges
    <3>4. /\ produced' = Newer(r.task) /\ mtArgs' \in {r.task, NoImage}
          /\ hasImage' \subseteq hasImage
      BY <2>2 DEF Look, scheduler
    <3> HIDE DEF e
    <3>. QED
      BY <3>1, <3>2, <3>3, <3>4 DEF Newer
  <2>3. CASE r.task \notin produced
    <3> DEFINE l == IF Resolved(r).result = "Active" THEN "asleep" ELSE "leave"
               e == [Resolved(r) EXCEPT !.label = l]
    <3>1. th' = [th EXCEPT !["scheduler"] = e] /\ l \in {"leave", "asleep"}
          /\ UNCHANGED <<produced, hasImage>> /\ mtArgs' = NoImage
      BY <2>3 DEF Look, scheduler
    <3> HIDE DEF l
    <3>2. e \in Thread /\ SameTasks(r, e) /\ e.aborting = r.aborting /\ e.label = l
      BY <1>2, <3>1, ResolvedFacts DEF SameTasks
    <3> HIDE DEF e
    <3>3. s = e
      BY <2>1, <3>1, <3>2, SchedulerChanges
    <3>. QED
      BY <2>3, <3>1, <3>2, <3>3
  <2>. QED
    BY <2>2, <2>3
<1>4. /\ EventsOK(events, r.label) /\ OrderOK(r, r.overdue \cup neat, {displayed} \cap posted, mtArgs)
      /\ WaitOK(r, b, pool, lost, produced, neat)
  BY Parts
<1> HIDE DEF s, r, b
<1>5. EventsOK(events', s.label)
  BY <1>1, <1>3, <1>4 DEF EventsOK
<1>6. ViewerOK'
  BY <1>1, <1>2, <1>3, Parts DEF ViewerOK
<1>7. OrderOK(s, s.overdue \cup neat, {displayed'} \cap posted, mtArgs')
  <2>1. OrderOK(s, r.overdue \cup neat, {displayed} \cap posted, mtArgs')
    BY <1>1, <1>3, <1>4, OrderStays DEF InHand, SameTasks
  <2>. QED
    BY <1>1, <1>3, <2>1 DEF SameTasks
<1>8. WaitOK(s, b, pool, lost, produced', neat)
  BY <1>1, <1>3, <1>4 DEF WaitOK, Awaits, SameTasks
<1>. QED
  BY <1>1, <1>3, <1>5, <1>6, <1>7, <1>8, Parts, SchedulerMoves DEF r, b, InHand, SetsOK

(* It leaves with what it found, or without.                               *)
LEMMA LeaveKeeps ==
  ASSUME ViewerInv, Leave
  PROVE  ViewerInv'
<1> USE DEF histVars, renderVars, callVars, countVars
<1> DEFINE r == th["scheduler"]
           b == th["backup"]
           s == th'["scheduler"]
<1>1. /\ r.label = "leave"
      /\ UNCHANGED <<posted, settled, lost, pool, stage, hasImage, ongoing, aborted, threw,
                     displayed, mtArgs, at, keep, requested, calls, neat, produced>>
  BY DEF Leave, scheduler
<1>2. r \in Thread /\ {"finish", "mainwait"} \subseteq Labels
  BY Parts DEF Labels
<1>3. /\ s \in Thread /\ th' = [th EXCEPT !["scheduler"] = s]
      /\ SameTasks(r, s) /\ s.aborting = r.aborting
      /\ \/ s.label = "finish" /\ events' = events
         \/ s.label = "mainwait" /\ events' = Append(events, "execute")
  <2> DEFINE q == IF r.result = "Active" THEN Resolved(r) ELSE r
  <2>1. q \in Thread /\ SameTasks(r, q) /\ q.aborting = r.aborting
    BY <1>2, ResolvedFacts DEF SameTasks
  <2>2. \E l \in {"finish", "mainwait"} :
          /\ th' = [th EXCEPT !["scheduler"] = [q EXCEPT !.label = l]]
          /\ events' = IF l = "finish" THEN events ELSE Append(events, "execute")
    BY DEF Leave, scheduler
  <2> HIDE DEF q
  <2>3. PICK l \in {"finish", "mainwait"} :
          /\ th' = [th EXCEPT !["scheduler"] = [q EXCEPT !.label = l]]
          /\ events' = IF l = "finish" THEN events ELSE Append(events, "execute")
    BY <2>2
  <2> DEFINE e == [q EXCEPT !.label = l]
  <2>4. e \in Thread /\ SameTasks(r, e) /\ e.aborting = r.aborting /\ e.label = l
    BY <1>2, <2>1 DEF Thread, SameTasks
  <2> HIDE DEF e
  <2>5. th' = [th EXCEPT !["scheduler"] = e]
    BY <2>3 DEF e
  <2>6. s = e
    BY <2>4, <2>5, Parts, SchedulerChanges
  <2>. QED
    BY <2>3, <2>4, <2>5, <2>6
<1>4. /\ EventsOK(events, r.label) /\ events \in Seq({"execute", "disconnect"})
      /\ OrderOK(r, r.overdue \cup neat, {displayed} \cap posted, mtArgs)
  BY Parts DEF ViewerOK
<1> HIDE DEF s, r, b
<1>5. EventsOK(events', s.label) /\ events' \in Seq({"execute", "disconnect"})
  <2>1. EventsOK(events, "finish")
    BY <1>1, <1>4 DEF EventsOK
  <2>2. /\ EventsOK(Append(events, "execute"), "mainwait")
        /\ Append(events, "execute") \in Seq({"execute", "disconnect"})
    BY <1>1, <1>4, EventQueued
  <2>. QED
    BY <1>3, <1>4, <2>1, <2>2
<1>6. ViewerOK'
  BY <1>1, <1>5, Parts DEF ViewerOK
<1>7. OrderOK(s, s.overdue \cup neat, {displayed'} \cap posted, mtArgs')
  <2>1. mtArgs # NoImage => mtArgs = r.task
    BY <1>1, <1>4 DEF OrderOK
  <2>2. OrderOK(s, r.overdue \cup neat, {displayed} \cap posted, mtArgs)
    BY <1>1, <1>3, <1>4, <2>1, OrderStays DEF InHand, SameTasks
  <2>. QED
    BY <1>1, <1>3, <2>2 DEF SameTasks
<1>8. WaitOK(s, b, pool, lost, produced', neat)
  BY <1>3 DEF WaitOK, Awaits
<1>. QED
  BY <1>1, <1>3, <1>5, <1>6, <1>7, <1>8, Parts, SchedulerMoves DEF r, b, InHand, SetsOK

(* The main thread displays what the scheduler has found: the request in   *)
(* hand, if there is something to show.                                    *)
LEMMA ExecuteKeeps ==
  ASSUME ViewerInv, ExecuteOnMainThread
  PROVE  ViewerInv'
<1> USE DEF renderVars, callVars, countVars
<1> DEFINE r == th["scheduler"]
           b == th["backup"]
           s == th'["scheduler"]
           S == {displayed} \cap posted
           S2 == {displayed'} \cap posted
<1>1. /\ events # <<>> /\ Head(events) = "execute" /\ events' = Tail(events)
      /\ displayed' = UpdatedViewer /\ mtArgs' = NoImage
      /\ settled' = settled \cup {r.task}
      /\ UNCHANGED <<posted, lost, pool, stage, hasImage, ongoing, aborted, threw,
                     at, keep, requested, calls, neat, produced>>
  BY DEF ExecuteOnMainThread, MainThreadHandles, scheduler
<1>2. /\ r \in Thread /\ EventsOK(events, r.label) /\ RequestsOK(r, stage, requested)
      /\ OrderOK(r, r.overdue \cup neat, S, mtArgs) /\ ViewerOK
      /\ settled \subseteq 1..requested
  BY Parts DEF SetsOK
<1>3. /\ r.label = "mainwait" /\ Tail(events) \in Seq({"execute", "disconnect"})
      /\ \A k : k # "mainwait" => EventsOK(Tail(events), k)
  BY <1>1, <1>2, EventHandled DEF ViewerOK
<1>4. /\ s \in Thread /\ th' = [th EXCEPT !["scheduler"] = s] /\ SameTasks(r, s)
      /\ s.aborting = r.aborting /\ s.label \in {"resolve", "finish"}
  <2> DEFINE l == IF r.result = "Active" THEN "resolve" ELSE "finish"
             e == [r EXCEPT !.label = l]
  <2>1. l \in {"resolve", "finish"} /\ l \in Labels
    BY DEF Labels
  <2>2. th' = [th EXCEPT !["scheduler"] = e]
    BY Parts DEF ExecuteOnMainThread, scheduler, ThreadsOK
  <2> HIDE DEF l
  <2>3. e \in Thread /\ SameTasks(r, e) /\ e.aborting = r.aborting /\ e.label = l
    BY <1>2, <2>1 DEF Thread, SameTasks
  <2> HIDE DEF e
  <2>4. s = e
    BY <2>2, <2>3, Parts, SchedulerChanges
  <2>. QED
    BY <2>1, <2>2, <2>3, <2>4
<1>5. displayed' = displayed \/ displayed' = r.task
  BY <1>1, <1>2, <1>3 DEF UpdatedViewer, OrderOK
<1>6. r.task \in 1..requested
  BY <1>2, <1>3 DEF RequestsOK, InHand
<1> HIDE DEF r, s, b
<1>7. ViewerOK'
  BY <1>1, <1>2, <1>3, <1>5, <1>6 DEF ViewerOK
<1>8. EventsOK(events', s.label)
  BY <1>1, <1>3, <1>4
<1>9. OrderOK(s, s.overdue \cup neat, S2, mtArgs')
  <2> DEFINE X == r.overdue \cup neat
  <2>1. QueuedIn(s) = QueuedIn(r)
    BY <1>4 DEF SameTasks, QueuedIn
  <2>2. \A y \in QueuedIn(r) \ X : r.task < y /\ \A d \in S : d < y
    BY <1>2, <1>3 DEF OrderOK, InHand
  <2>3. \A y \in QueuedIn(r) \ X : \A d \in S2 : d < y
    BY <1>5, <2>2
  <2>4. s.label \notin InHand /\ s.label \notin {"leave", "mainwait"}
    BY <1>4 DEF InHand
  <2>5. /\ InOrder(r.queue, X) /\ InOrder(r.late, X)
        /\ \A x \in Range(r.queue) \cap Ages, y \in Range(r.late) \ X : x < y
    BY <1>2 DEF OrderOK
  <2> HIDE DEF X, S2
  <2>6. OrderOK(s, X, S2, mtArgs')
    BY <1>4, <2>1, <2>3, <2>4, <2>5 DEF OrderOK, SameTasks
  <2>. QED
    BY <1>4, <2>6 DEF X, SameTasks
<1>10. WaitOK(s, b, pool, lost, produced', neat)
  BY <1>4 DEF WaitOK, Awaits
<1>. QED
  BY <1>1, <1>2, <1>4, <1>6, <1>7, <1>8, <1>9, <1>10, SchedulerMoves DEF r, b, InHand

(* What must be kept when a render goes on, or the viewer is cleared.      *)
LEMMA RenderMoves ==
  ASSUME ViewerInv, EventsOK(events', th["scheduler"].label), ViewerOK',
         {displayed'} \cap posted \subseteq {displayed} \cap posted,
         stage' \in [Ages -> Stages],
         \A a \in Ages : stage'[a] = "none" <=> stage[a] = "none",
         OngoingOK(ongoing' \ threw', pool, th["backup"], stage'),
         hasImage' \cup ongoing' \cup threw' \subseteq 1..requested,
         UNCHANGED <<th, posted, settled, lost, pool, aborted, mtArgs, at, keep, requested,
                     neat, produced>>
  PROVE  ViewerInv'
<1> DEFINE r == th["scheduler"]
           b == th["backup"]
<1>1. ThreadsOK' /\ SetsOK' /\ StagesOK' /\ CallsOK'
  <2>1. SetsOK'
    BY Parts DEF SetsOK
  <2>2. ThreadsOK' /\ StagesOK' /\ CallsOK'
    BY Parts DEF ThreadsOK, StagesOK, CallsOK
  <2>. QED
    BY <2>1, <2>2
<1>2. RequestsOK(r, stage', requested)
  BY Parts, RequestsStay DEF SameTasks
<1>3. BackupOK(b, stage', requested)
  <2>1. BackupOK(b, stage, requested) /\ requested \in Nat /\ requested <= requested
        /\ SameTasks(b, b)
    BY Parts DEF SameTasks
  <2>. QED
    BY <2>1, BackupStays
<1>4. OrderOK(r, r.overdue \cup neat, {displayed'} \cap posted, mtArgs)
  <2>1. OrderOK(r, r.overdue \cup neat, {displayed} \cap posted, mtArgs)
    BY Parts
  <2>. QED
    BY <2>1 DEF OrderOK
<1>5. WaitOK(r, b, pool, lost, produced, neat) /\ LateOK(r) /\ LateOK(b)
  BY Parts
<1> HIDE DEF r, b
<1>6. th'["scheduler"] = r /\ th'["backup"] = b
  BY DEF r, b
<1>7. /\ RequestsOK(r, stage', requested') /\ BackupOK(b, stage', requested')
      /\ OrderOK(r, r.overdue \cup neat', {displayed'} \cap posted', mtArgs')
      /\ WaitOK(r, b, pool', lost', produced', neat')
  BY <1>2, <1>3, <1>4, <1>5
<1>8. EventsOK(events', r.label) /\ OngoingOK(ongoing' \ threw', pool', b, stage')
  BY DEF r, b
<1>. QED
  BY <1>1, <1>5, <1>6, <1>7, <1>8, PartsNext

(* The viewer is cleared after a failure.                                  *)
LEMMA DisconnectKeeps ==
  ASSUME ViewerInv, ViewerDisconnected
  PROVE  ViewerInv'
<1> USE DEF histVars, threadVars, renderVars, callVars, countVars
<1>1. /\ events # <<>> /\ Head(events) = "disconnect" /\ events' = Tail(events)
      /\ displayed' = NoImage
      /\ UNCHANGED <<th, posted, settled, lost, pool, stage, hasImage, ongoing, aborted,
                     threw, mtArgs, at, keep, requested, calls, neat, produced>>
  BY DEF ViewerDisconnected, MainThreadHandles
<1>2. /\ EventsOK(events, th["scheduler"].label) /\ ViewerOK /\ StagesOK /\ SetsOK
      /\ 1..requested \subseteq Ages
      /\ OngoingOK(ongoing \ threw, pool, th["backup"], stage)
  BY Parts
<1>3. EventsOK(events', th["scheduler"].label) /\ ViewerOK'
  BY <1>1, <1>2, EventHandled DEF ViewerOK
<1>4. {displayed'} \cap posted = {}
  BY <1>1, <1>2, AgesFacts DEF SetsOK
<1>5. /\ stage' \in [Ages -> Stages] /\ \A a \in Ages : stage'[a] = "none" <=> stage[a] = "none"
      /\ OngoingOK(ongoing' \ threw', pool, th["backup"], stage')
      /\ hasImage' \cup ongoing' \cup threw' \subseteq 1..requested
  BY <1>1, <1>2 DEF StagesOK, SetsOK
<1>. QED
  BY <1>1, <1>3, <1>4, <1>5, RenderMoves

(* A render begins...                                                      *)
LEMMA BeginKeeps ==
  ASSUME ViewerInv, NEW a \in Ages, BeginRender(a)
  PROVE  ViewerInv'
<1> USE DEF histVars, threadVars, viewerVars, callVars, countVars
<1> DEFINE b == th["backup"]
<1>1. /\ Runs(a) /\ stage[a] = "waiting"
      /\ UNCHANGED <<th, posted, settled, lost, pool, hasImage, aborted, threw, displayed,
                     mtArgs, events, at, keep, requested, calls, neat, produced>>
  BY DEF BeginRender
<1>2. \E l \in {"ended", "begun"} :
        /\ stage' = [stage EXCEPT ![a] = l]
        /\ ongoing' = IF l = "begun" THEN ongoing \cup {a} ELSE ongoing
  BY DEF BeginRender
<1>3. PICK l \in {"ended", "begun"} :
        /\ stage' = [stage EXCEPT ![a] = l]
        /\ ongoing' = IF l = "begun" THEN ongoing \cup {a} ELSE ongoing
  BY <1>2
<1>4. /\ EventsOK(events, th["scheduler"].label) /\ ViewerOK /\ StagesOK /\ SetsOK
      /\ OngoingOK(ongoing \ threw, pool, b, stage)
      /\ BackupOK(b, stage, requested)
  BY Parts
<1>5. stage' \in [Ages -> Stages] /\ \A x \in Ages : stage'[x] = "none" <=> stage[x] = "none"
  BY <1>1, <1>3, <1>4 DEF StagesOK, Stages
<1>6. Works(a, b, pool) /\ a \in 1..requested
  BY <1>1, <1>4 DEF Works, Runs, backup, SetsOK, BackupOK
<1>7. OngoingOK(ongoing' \ threw', pool, b, stage')
  <2>1. SUFFICES ASSUME NEW x \in ongoing' \ threw'
                 PROVE  Works(x, b, pool) /\ stage'[x] = "begun"
    BY DEF OngoingOK
  <2>2. CASE x = a /\ l = "begun"
    BY <1>3, <1>4, <1>6, <2>2 DEF StagesOK
  <2>3. CASE x \in ongoing \ threw
    <3>1. Works(x, b, pool) /\ stage[x] = "begun"
      BY <1>4, <2>3 DEF OngoingOK
    <3>2. x # a
      BY <1>1, <3>1
    <3>3. stage'[x] = stage[x]
      BY <1>3, <1>4, <3>2 DEF StagesOK
    <3>. QED
      BY <3>1, <3>3
  <2>. QED
    BY <1>1, <1>3, <2>2, <2>3
<1>8. hasImage' \cup ongoing' \cup threw' \subseteq 1..requested
  BY <1>1, <1>3, <1>4, <1>6 DEF SetsOK
<1>9. ViewerOK' /\ EventsOK(events', th["scheduler"].label)
      /\ {displayed'} \cap posted \subseteq {displayed} \cap posted
  BY <1>1, <1>4 DEF ViewerOK
<1>. QED
  BY <1>1, <1>5, <1>7, <1>8, <1>9, RenderMoves DEF b

(* ...and ends, and leaves the list of those that run unless it threw.     *)
LEMMA EndKeeps ==
  ASSUME ViewerInv, NEW a \in Ages, EndRender(a)
  PROVE  ViewerInv'
<1> USE DEF histVars, threadVars, viewerVars, callVars, countVars
<1> DEFINE b == th["backup"]
<1>1. /\ Runs(a) /\ stage[a] = "begun" /\ stage' = [stage EXCEPT ![a] = "ended"]
      /\ UNCHANGED <<th, posted, settled, lost, pool, aborted, displayed,
                     mtArgs, at, keep, requested, calls, neat, produced>>
  BY DEF EndRender
<1>2. /\ events' \in {events, Append(events, "disconnect")}
      /\ hasImage' \subseteq hasImage \cup {a} /\ ongoing' \subseteq ongoing
      /\ threw \subseteq threw' /\ threw' \subseteq threw \cup {a}
      /\ a \notin ongoing' \ threw'
  BY DEF EndRender, RenderEnds
<1>3. /\ EventsOK(events, th["scheduler"].label) /\ ViewerOK /\ StagesOK /\ SetsOK
      /\ OngoingOK(ongoing \ threw, pool, b, stage)
      /\ BackupOK(b, stage, requested)
  BY Parts
<1>4. stage' \in [Ages -> Stages] /\ \A x \in Ages : stage'[x] = "none" <=> stage[x] = "none"
  BY <1>1, <1>3 DEF StagesOK, Stages
<1>5. a \in 1..requested
  BY <1>1, <1>3 DEF Runs, backup, SetsOK, BackupOK
<1>6. OngoingOK(ongoing' \ threw', pool, b, stage')
  <2>1. SUFFICES ASSUME NEW x \in ongoing' \ threw'
                 PROVE  Works(x, b, pool) /\ stage'[x] = "begun"
    BY DEF OngoingOK
  <2>2. x \in ongoing \ threw /\ x # a
    BY <1>2
  <2>3. Works(x, b, pool) /\ stage[x] = "begun"
    BY <1>3, <2>2 DEF OngoingOK
  <2>. QED
    BY <1>1, <1>3, <2>2, <2>3 DEF StagesOK
<1>7. hasImage' \cup ongoing' \cup threw' \subseteq 1..requested
  BY <1>2, <1>3, <1>5 DEF SetsOK
<1>8. EventsOK(events', th["scheduler"].label) /\ events' \in Seq({"execute", "disconnect"})
  BY <1>2, <1>3, EventQueued DEF ViewerOK
<1>9. ViewerOK' /\ {displayed'} \cap posted \subseteq {displayed} \cap posted
  BY <1>1, <1>3, <1>8 DEF ViewerOK
<1>. QED
  BY <1>1, <1>4, <1>6, <1>7, <1>8, <1>9, RenderMoves DEF b

(* The scheduler hands its request over, to the pool or the backup thread. *)
LEMMA DispatchKeeps ==
  ASSUME ViewerInv, Dispatch
  PROVE  ViewerInv'
<1> USE DEF viewerVars, callVars, countVars
<1> DEFINE r == th["scheduler"]
           r2 == th'["scheduler"]
           b == th["backup"]
           b2 == th'["backup"]
           a == r.task
           e == [r EXCEPT !.label = "look"]
<1>1. /\ r.label = "dispatch" /\ stage' = [stage EXCEPT ![a] = "waiting"]
      /\ UNCHANGED <<posted, settled, hasImage, ongoing, aborted, threw, displayed, mtArgs,
                     events, at, keep, requested, calls, neat, produced>>
  BY DEF Dispatch, scheduler
<1>2. /\ RequestsOK(r, stage, requested) /\ BackupOK(b, stage, requested)
      /\ r \in Thread /\ b \in Thread /\ requested \in Nat /\ 1..requested \subseteq Ages
      /\ LateOK(r) /\ LateOK(b) /\ EventsOK(events, r.label)
      /\ OrderOK(r, r.overdue \cup neat, {displayed} \cap posted, mtArgs)
      /\ OngoingOK(ongoing \ threw, pool, b, stage)
      /\ ThreadsOK /\ SetsOK /\ StagesOK /\ CallsOK /\ ViewerOK
  BY Parts
<1>3. /\ a \in 1..requested /\ a \in Ages /\ a \notin QueuedIn(r) /\ stage[a] = "none"
      /\ a \notin QueuedIn(b)
  <2>1. a \in 1..requested /\ a \notin QueuedIn(r) /\ stage[a] = "none"
    BY <1>1, <1>2 DEF RequestsOK, InHand
  <2>. QED
    BY <1>2, <2>1 DEF BackupOK
<1>4. e \in Thread /\ SameTasks(r, e) /\ e.aborting = r.aborting /\ e.label = "look"
  BY <1>2 DEF Thread, Labels, SameTasks
<1>5. \/ /\ th' = [th EXCEPT !["scheduler"] = e]
         /\ pool' = pool \cup {a} /\ lost' = lost
      \/ /\ th' = [th EXCEPT !["scheduler"] = e, !["backup"] = AfterStartTask(b, a)]
         /\ lost' = IF Accepts(b) THEN lost ELSE lost \cup {a}
         /\ pool' = pool
  BY <1>2 DEF Dispatch, scheduler, backup, ThreadsOK
<1>6. r2 = e /\ b2 \in {b, AfterStartTask(b, a)}
  BY <1>2, <1>5 DEF ThreadsOK, Threads
<1>7. AfterStartTask(b, a) \in Thread /\ AfterStartTask(b, a).task = b.task
      /\ AfterStartTask(b, a).label \in {b.label, "pick"}
      /\ (b.label = "work" => AfterStartTask(b, a).label = "work")
      /\ (AfterStartTask(b, a).label = "work" => b.label = "work")
      /\ QueuedIn(AfterStartTask(b, a)) \subseteq QueuedIn(b) \cup {a}
      /\ LateOK(AfterStartTask(b, a)) /\ IsMostRecent(a, AfterStartTask(b, a))
      /\ (Accepts(b) => IsComing(a, AfterStartTask(b, a), pool))
  <2>1. /\ IsMostRecent(a, AfterStartTask(b, a))
        /\ Accepts(b) => IsComing(a, AfterStartTask(b, a), pool)
        /\ AfterStartTask(b, a).label = "work" => b.label = "work"
        /\ QueuedIn(AfterStartTask(b, a)) \subseteq QueuedIn(b) \cup {a}
        /\ LateOK(AfterStartTask(b, a))
    BY <1>2, <1>3, HandedOver
  <2>2. AfterStartTask(b, a) \in Thread /\ AfterStartTask(b, a).task = b.task
        /\ AfterStartTask(b, a).label = IF Accepts(b) /\ b.label = "off" THEN "pick"
                                        ELSE b.label
    BY <1>2, <1>3, StartTaskFacts
  <2>. QED
    BY <2>1, <2>2
<1>8. IsMostRecent(a, b)
  BY <1>3 DEF IsMostRecent, QueuedIn, Range
<1> HIDE DEF r, r2, b, b2, e
<1>9. ThreadsOK'
  <2>1. b2 \in Thread /\ b2.label \notin InHand
    BY <1>2, <1>6, <1>7 DEF ThreadsOK, InHand, b
  <2>2. /\ th' \in [Threads -> Thread]
    BY <1>2, <1>4, <1>5, <1>7 DEF ThreadsOK
  <2>. QED
    BY <1>4, <1>6, <2>1, <2>2 DEF ThreadsOK, r2, b2
<1>10. SetsOK' /\ StagesOK' /\ CallsOK' /\ ViewerOK'
  <2>1. SetsOK'
    BY <1>1, <1>2, <1>3, <1>5 DEF SetsOK
  <2>2. StagesOK'
    BY <1>1, <1>2 DEF StagesOK, Stages
  <2>3. CallsOK' /\ ViewerOK'
    BY <1>1, <1>2 DEF CallsOK, ViewerOK
  <2>. QED
    BY <2>1, <2>2, <2>3
<1>11. \A x \in Ages : stage'[x] = IF x = a THEN "waiting" ELSE stage[x]
  BY <1>1, <1>2 DEF StagesOK
<1>12. RequestsOK(r2, stage', requested')
  <2>1. QueuedIn(e) = QueuedIn(r) /\ QueuedIn(r) \subseteq Ages
    BY <1>4 DEF SameTasks, QueuedIn
  <2>2. \A x \in QueuedIn(e) : stage'[x] = "none"
    BY <1>2, <1>3, <1>11, <2>1 DEF RequestsOK
  <2>3. \A x \in Ages : stage'[x] # "none" => x \in 1..requested
    BY <1>2, <1>3, <1>11 DEF RequestsOK
  <2>4. RequestsOK(e, stage', requested)
    BY <1>2, <1>3, <1>4, <2>1, <2>2, <2>3 DEF RequestsOK, SameTasks, a
  <2>. QED
    BY <1>1, <1>6, <2>4
<1>13. BackupOK(b2, stage', requested') /\ LateOK(r2) /\ LateOK(b2)
  <2>1. QueuedIn(b2) \subseteq QueuedIn(b) \cup {a}
    BY <1>6, <1>7
  <2>2. b2.label = "work" => b.label = "work" /\ b2.task = b.task
    BY <1>6, <1>7
  <2>3. \A x \in QueuedIn(b2) : stage'[x] # "none" /\ x \in 1..requested
    <3>1. QueuedIn(b2) \subseteq Ages
      BY DEF QueuedIn
    <3>. QED
      BY <1>2, <1>3, <1>11, <2>1, <3>1 DEF BackupOK
  <2>4. BackupOK(b2, stage', requested)
    BY <1>2, <2>2, <2>3 DEF BackupOK
  <2>5. LateOK(r2) /\ LateOK(b2)
    BY <1>2, <1>4, <1>6, <1>7 DEF LateOK, SameTasks
  <2>. QED
    BY <1>1, <2>4, <2>5
<1>14. EventsOK(events', r2.label)
  BY <1>1, <1>2, <1>4, <1>6 DEF EventsOK
<1>15. OngoingOK(ongoing' \ threw', pool', b2, stage')
  <2>1. SUFFICES ASSUME NEW x \in ongoing \ threw
                 PROVE  Works(x, b2, pool') /\ stage'[x] = "begun"
    BY <1>1 DEF OngoingOK
  <2>2. Works(x, b, pool) /\ stage[x] = "begun" /\ x \in Ages
    BY <1>2, <2>1 DEF OngoingOK, SetsOK
  <2>3. x # a
    BY <1>3, <2>2
  <2>. QED
    BY <1>5, <1>6, <1>7, <1>11, <2>2, <2>3 DEF Works
<1>16. OrderOK(r2, r2.overdue \cup neat', {displayed'} \cap posted', mtArgs')
  <2>1. OrderOK(e, r.overdue \cup neat, {displayed} \cap posted, mtArgs)
    BY <1>1, <1>2, <1>4, OrderStays DEF InHand
  <2>. QED
    BY <1>1, <1>4, <1>6, <2>1 DEF SameTasks
<1>17. WaitOK(r2, b2, pool', lost', produced', neat')
  <2>1. r2.task = a
    BY <1>4, <1>6 DEF SameTasks, a
  <2>2. IsMostRecent(a, b2)
    BY <1>6, <1>7, <1>8
  <2>3. IsComing(a, b2, pool') \/ a \in lost'
    <3>1. CASE pool' = pool \cup {a}
      BY <3>1 DEF IsComing
    <3>2. CASE /\ th' = [th EXCEPT !["scheduler"] = e, !["backup"] = AfterStartTask(b, a)]
               /\ lost' = IF Accepts(b) THEN lost ELSE lost \cup {a}
               /\ pool' = pool
      <4>1. b2 = AfterStartTask(b, a)
        BY <1>2, <3>2 DEF ThreadsOK, Threads, b2
      <4>. QED
        BY <1>7, <3>2, <4>1
    <3>. QED
      BY <1>5, <3>1, <3>2
  <2>. QED
    BY <2>1, <2>2, <2>3 DEF WaitOK
<1>. QED
  BY <1>9, <1>10, <1>12, <1>13, <1>14, <1>15, <1>16, <1>17, PartsNext DEF r2, b2

(* A render is over: its frame is there, and the scheduler is woken.       *)
LEMMA NotifyKeeps ==
  ASSUME ViewerInv, NEW a \in Ages, NotifyFrameProduced(a)
  PROVE  ViewerInv'
<1> USE DEF histVars, viewerVars, callVars, countVars
<1> DEFINE r == th["scheduler"]
           r2 == th'["scheduler"]
           b == th["backup"]
           b2 == th'["backup"]
           l == IF a \in pool THEN b.label ELSE "resolve"
           e == [b EXCEPT !.label = l]
<1>1. /\ Runs(a) /\ stage[a] = "ended" /\ stage' = [stage EXCEPT ![a] = "over"]
      /\ produced' = produced \cup {a} /\ pool' = pool \ {a} /\ aborted' = aborted \ {a}
      /\ th' = [th EXCEPT !["scheduler"] = Woken(r), !["backup"] = e]
      /\ UNCHANGED <<posted, settled, lost, hasImage, ongoing, threw, displayed, mtArgs,
                     events, at, keep, requested, calls, neat>>
  BY Parts DEF NotifyFrameProduced, ThreadsOK
<1>2. /\ RequestsOK(r, stage, requested) /\ BackupOK(b, stage, requested)
      /\ r \in Thread /\ b \in Thread /\ requested \in Nat /\ 1..requested \subseteq Ages
      /\ LateOK(r) /\ LateOK(b) /\ EventsOK(events, r.label)
      /\ OrderOK(r, r.overdue \cup neat, {displayed} \cap posted, mtArgs)
      /\ OngoingOK(ongoing \ threw, pool, b, stage)
      /\ WaitOK(r, b, pool, lost, produced, neat)
      /\ ThreadsOK /\ SetsOK /\ StagesOK /\ CallsOK /\ ViewerOK
  BY Parts
<1>3. a \in 1..requested /\ (a \in pool \/ (b.label = "work" /\ b.task = a))
  BY <1>1, <1>2 DEF Runs, backup, SetsOK, BackupOK
<1>4. /\ Woken(r) \in Thread /\ SameTasks(r, Woken(r)) /\ Woken(r).aborting = r.aborting
      /\ Woken(r).label = r.label \/ (r.label = "asleep" /\ Woken(r).label = "look")
      /\ Woken(r).label # "asleep"
  <2> DEFINE d == [r EXCEPT !.label = "look"]
  <2>1. d \in Thread /\ SameTasks(r, d) /\ d.aborting = r.aborting /\ d.label = "look"
    BY <1>2 DEF Thread, Labels, SameTasks
  <2> HIDE DEF d
  <2>2. Woken(r) = IF r.label = "asleep" THEN d ELSE r
    BY DEF Woken, d
  <2>. QED
    BY <1>2, <2>1, <2>2 DEF SameTasks
<1>5. l \in {b.label, "resolve"} /\ l \in Labels
  BY <1>2, Fields DEF Labels
<1> HIDE DEF l
<1>6. e \in Thread /\ SameTasks(b, e) /\ e.aborting = b.aborting /\ e.label = l
  BY <1>2, <1>5 DEF Thread, SameTasks
<1> HIDE DEF e
<1>7. r2 = Woken(r) /\ b2 = e /\ th' \in [Threads -> Thread]
  BY <1>1, <1>2, <1>4, <1>6 DEF ThreadsOK, Threads
<1>8. /\ l = "work" => b.label = "work"
      /\ b.label # "off" => l # "off"
      /\ b.label = "work" /\ b.task # a => l = "work"
  BY <1>3, <1>5 DEF l
<1>9. l \notin InHand
  BY <1>2, <1>5 DEF ThreadsOK, InHand
<1> HIDE DEF r, r2, b, b2
<1>10. ThreadsOK'
  BY <1>2, <1>4, <1>6, <1>7, <1>9 DEF ThreadsOK, InHand, r, r2, b2
<1>11. SetsOK' /\ StagesOK' /\ CallsOK' /\ ViewerOK'
  <2>1. SetsOK'
    BY <1>1, <1>2, <1>3 DEF SetsOK
  <2>2. StagesOK'
    BY <1>1, <1>2 DEF StagesOK, Stages
  <2>3. CallsOK' /\ ViewerOK'
    BY <1>1, <1>2 DEF CallsOK, ViewerOK
  <2>. QED
    BY <2>1, <2>2, <2>3
<1>12. \A x \in Ages : stage'[x] = IF x = a THEN "over" ELSE stage[x]
  BY <1>1, <1>2 DEF StagesOK
<1>13. RequestsOK(r2, stage', requested')
  <2>1. \A x \in Ages : stage'[x] = "none" <=> stage[x] = "none"
    BY <1>1, <1>12
  <2>2. r2.label \in InHand => r.label \in InHand
    BY <1>4, <1>7 DEF InHand
  <2>3. RequestsOK(r2, stage', requested)
    BY <1>2, <1>4, <1>7, <2>1, <2>2, RequestsStay
  <2>. QED
    BY <1>1, <2>3
<1>14. BackupOK(b2, stage', requested') /\ LateOK(r2) /\ LateOK(b2)
  <2>1. \A x \in Ages : stage[x] # "none" => stage'[x] # "none"
    BY <1>12
  <2>2. requested <= requested /\ (e.label = "work" => b.label = "work")
    BY <1>2, <1>6, <1>8
  <2>3. BackupOK(e, stage', requested)
    BY <1>2, <1>6, <2>1, <2>2, BackupStays
  <2>4. LateOK(r2) /\ LateOK(b2)
    BY <1>2, <1>4, <1>6, <1>7 DEF LateOK, SameTasks
  <2>. QED
    BY <1>1, <1>7, <2>3, <2>4
<1>15. EventsOK(events', r2.label)
  BY <1>1, <1>2, <1>4, <1>7 DEF EventsOK
<1>16. OngoingOK(ongoing' \ threw', pool', b2, stage')
  <2>1. SUFFICES ASSUME NEW x \in ongoing \ threw
                 PROVE  Works(x, b2, pool') /\ stage'[x] = "begun"
    BY <1>1 DEF OngoingOK
  <2>2. Works(x, b, pool) /\ stage[x] = "begun" /\ x \in Ages
    BY <1>2, <2>1 DEF OngoingOK, SetsOK
  <2>3. x # a
    BY <1>1, <2>2
  <2>4. b.label = "work" /\ b.task = x => e.label = "work" /\ e.task = x
    BY <1>6, <1>8, <2>3 DEF SameTasks
  <2>. QED
    BY <1>1, <1>7, <1>12, <2>2, <2>3, <2>4 DEF Works
<1>17. OrderOK(r2, r2.overdue \cup neat', {displayed'} \cap posted', mtArgs')
  <2>1. r2.label \in InHand => r.label \in InHand
    BY <1>4, <1>7 DEF InHand
  <2>2. r2.label \in {"leave", "mainwait"} /\ mtArgs # NoImage => mtArgs = r2.task
    BY <1>2, <1>4, <1>7 DEF OrderOK, SameTasks
  <2>3. OrderOK(r2, r.overdue \cup neat, {displayed} \cap posted, mtArgs)
    BY <1>2, <1>4, <1>7, <2>1, <2>2, OrderStays
  <2>. QED
    BY <1>1, <1>4, <1>7, <2>3 DEF SameTasks
<1>18. WaitOK(r2, b2, pool', lost', produced', neat')
  <2>1. SUFFICES ASSUME r2.label \in Awaits
        PROVE  /\ \/ IsComing(r2.task, b2, pool') \/ r2.task \in lost
                  \/ r2.label = "look" /\ r2.task \in produced'
               /\ r2.task \notin neat => IsMostRecent(r2.task, b2)
    BY <1>1 DEF WaitOK
  <2>2. r2.label = "look" /\ r2.task = r.task /\ r.label \in Awaits
    BY <1>4, <1>7, <2>1 DEF Awaits, SameTasks
  <2>3. /\ \/ IsComing(r.task, b, pool) \/ r.task \in lost \/ r.task \in produced
        /\ r.task \notin neat => IsMostRecent(r.task, b)
    BY <1>2, <2>2 DEF WaitOK
  <2>4. r.task # a /\ IsComing(r.task, b, pool) => IsComing(r.task, e, pool')
    <3>1. QueuedIn(e) = QueuedIn(b)
      BY <1>6 DEF SameTasks, QueuedIn
    <3>. QED
      BY <1>1, <1>6, <1>8, <3>1 DEF IsComing, SameTasks
  <2>5. IsMostRecent(r.task, b) => IsMostRecent(r.task, e)
    BY <1>6 DEF IsMostRecent, SameTasks
  <2>. QED
    BY <1>1, <1>7, <2>2, <2>3, <2>4, <2>5
<1>. QED
  BY <1>10, <1>11, <1>13, <1>14, <1>15, <1>16, <1>17, <1>18, PartsNext DEF r2, b2

-----------------------------------------------------------------------------
(* The theorems                                                            *)

(* The invariant holds when nothing has been requested...                  *)
LEMMA ViewerInit ==
  Init => ViewerInv
<1> SUFFICES ASSUME Init PROVE ViewerInv
  OBVIOUS
<1> DEFINE r == NewThread
<1>1. /\ r \in Thread /\ r.queue = <<>> /\ r.late = <<>> /\ r.label = "off"
      /\ r.overdue = {} /\ r.aborting = FALSE
  <2>1. <<>> \in Seq(Ages \cup {Stub}) /\ <<>> \in Seq(Ages)
    OBVIOUS
  <2>. QED
    BY <2>1 DEF NewThread, Thread, Labels
<1> HIDE DEF r
<1>2. th["scheduler"] = r /\ th["backup"] = r /\ th \in [Threads -> Thread]
  BY <1>1 DEF Init, Threads, r
<1>3. QueuedIn(r) = {} /\ Range(<<>>) = {} /\ IsInjective(<<>>)
  BY <1>1 DEF QueuedIn, Range, IsInjective
<1>4. TypeOK
  <2>1. ThreadsOK
    BY <1>1, <1>2 DEF ThreadsOK, InHand
  <2>2. SetsOK
    BY DEF Init, SetsOK
  <2>3. StagesOK
    BY RequestsAssumption DEF Init, StagesOK, Stages
  <2>4. CallsOK
    BY DEF Init, CallsOK, CallLabels
  <2>5. ViewerOK
    <3>1. <<>> \in Seq({"execute", "disconnect"})
      OBVIOUS
    <3>. QED
      BY <3>1 DEF Init, ViewerOK
  <2>. QED
    BY <2>1, <2>2, <2>3, <2>4, <2>5, TypeParts
<1>5. RequestsInv
  <2>1. r.label \notin InHand /\ r.label # "dispatch"
    BY <1>1 DEF InHand
  <2>2. \A a \in Ages : stage[a] = "none"
    BY DEF Init
  <2>. QED
    BY <1>1, <1>2, <1>3, <2>1, <2>2 DEF RequestsInv, RequestsOK
<1>6. BackupInv
  BY <1>1, <1>2, <1>3 DEF BackupInv, BackupOK
<1>7. EventsInv
  BY <1>1, <1>2 DEF EventsInv, EventsOK, Init
<1>8. LateInv
  BY <1>1, <1>2, <1>3 DEF LateInv, LateOK
<1>9. OngoingRendersRun
  BY DEF OngoingRendersRun, Init
<1>10. OrderInv
  BY <1>1, <1>2, <1>3 DEF OrderInv, OrderOK, InOrder, InHand
<1>11. WaitInv
  BY <1>1, <1>2 DEF WaitInv, WaitOK, Awaits
<1>. QED
  BY <1>4, <1>5, <1>6, <1>7, <1>8, <1>9, <1>10, <1>11 DEF ViewerInv

(* ...and is kept by every step.                                           *)
LEMMA ViewerNext ==
  ViewerInv /\ [Next]_vars => ViewerInv'
<1> SUFFICES ASSUME ViewerInv, [Next]_vars PROVE ViewerInv'
  OBVIOUS
<1>1. CASE RenderCurrentFrame
  BY <1>1, RequestKeeps
<1>2. CASE CallAbort \/ CallQuit
  BY <1>2, CallsAreCalm DEF Clients
<1>3. CASE SchedulerStep
  <2>1. "scheduler" \in Threads
    BY DEF Threads
  <2>. QED
    BY <1>3, <2>1, SchedulerPickKeeps, RestsAreCalm, SchedulerFinishKeeps, DispatchKeeps,
       LookKeeps, LeaveKeeps DEF SchedulerStep, LoopStep
<1>4. CASE BackupStep
  <2>1. "backup" \in Threads
    BY DEF Threads
  <2>. QED
    BY <1>4, <2>1, BackupPickKeeps, RestsAreCalm, BackupFinishKeeps DEF BackupStep, LoopStep
<1>5. CASE MainThreadEvent
  BY <1>5, ExecuteKeeps, DisconnectKeeps DEF MainThreadEvent
<1>6. ASSUME NEW a \in Ages, RenderStep(a) PROVE ViewerInv'
  BY <1>6, BeginKeeps, EndKeeps, NotifyKeeps DEF RenderStep
<1>7. ASSUME NEW c \in Clients, AbortStep(c) PROVE ViewerInv'
  BY <1>7, CallsAreCalm
<1>8. CASE QuitStep
  BY <1>8, CallsAreCalm, SchedulerClearKeeps, BackupClearKeeps DEF QuitStep, Clients
<1>9. CASE UNCHANGED vars
  <2>1. /\ UNCHANGED <<th, posted, settled, lost, pool, stage, hasImage, ongoing, aborted, threw>>
        /\ UNCHANGED <<displayed, mtArgs, events, at, keep, requested, calls, neat, produced>>
    BY <1>9 DEF vars, threadVars, histVars, renderVars, viewerVars, callVars, countVars
  <2>2. /\ SetsOK /\ ThreadsOK /\ StagesOK /\ CallsOK /\ ViewerOK
        /\ EventsOK(events, th["scheduler"].label)
        /\ OngoingOK(ongoing \ threw, pool, th["backup"], stage)
    BY Parts
  <2>3. /\ stage' \in [Ages -> Stages] /\ ViewerOK'
        /\ hasImage' \cup ongoing' \cup threw' \subseteq 1..requested
        /\ \A a \in Ages : stage'[a] = "none" <=> stage[a] = "none"
    BY <2>1, <2>2 DEF SetsOK, StagesOK, ViewerOK
  <2>. QED
    BY <2>1, <2>2, <2>3, RenderMoves
<1>. QED
  BY <1>1, <1>2, <1>3, <1>4, <1>5, <1>6, <1>7, <1>8, <1>9 DEF Next

(* The inductive invariant: what is queued, in hand, rendered and awaited. *)
THEOREM ViewerInvariant == Spec => []ViewerInv
<1>1. Init => ViewerInv
  BY ViewerInit
<1>2. ViewerInv /\ [Next]_vars => ViewerInv'
  BY ViewerNext
<1>. QED
  BY <1>1, <1>2, PTL DEF Spec

(* addOngoingRender() and removeOngoingRender(): the renders that an abort *)
(* marks run, and the state is one the code may be in, whatever is         *)
(* refused, aborted or fails.                                              *)
THEOREM OngoingCorrect == Spec => []OngoingInv
<1>1. ViewerInv => OngoingInv
  BY DEF ViewerInv, OngoingInv
<1>. QED
  BY <1>1, ViewerInvariant, PTL

(* threadLoopOnce(): the frame the scheduler waits for without a timeout   *)
(* is on its way, or is one that the backup thread refused, forgot when it *)
(* quit, or skipped for an overdue one.                                    *)
THEOREM FrameIsComing == Spec => []WaitsForAComingFrame
<1>1. ViewerInv => WaitsForAComingFrame
  <2> SUFFICES ASSUME ViewerInv, scheduler.label = "asleep"
               PROVE  scheduler.task \in Coming \cup lost
    BY DEF WaitsForAComingFrame
  <2> DEFINE a == th["scheduler"].task
             b == th["backup"]
  <2>1. IsComing(a, b, pool) \/ a \in lost
    BY Parts DEF WaitOK, Awaits, scheduler
  <2>2. a \in Ages
    BY Parts DEF RequestsOK, InHand, scheduler
  <2>3. IsComing(a, b, pool) => a \in Coming
    BY <2>2 DEF IsComing, Coming, Runs, backup
  <2>. QED
    BY <2>1, <2>3 DEF scheduler
<1>. QED
  BY <1>1, ViewerInvariant, PTL

(* processProducedFrame(): the images displayed come in the order of the   *)
(* requests, but for neat renders, overdue requests, and images that were  *)
(* in the cache.                                                           *)
THEOREM DisplayIsInOrder == Spec => DisplayedInOrder
<1> DEFINE A == (displayed' \in Ages /\ displayed \in Ages /\ displayed' < displayed)
                  => displayed' \in neat \cup scheduler.overdue \/ displayed \notin posted
<1>1. ViewerInv /\ [Next]_vars => [A]_vars
  <2> SUFFICES ASSUME ViewerInv, Next, displayed' \in Ages, displayed \in Ages,
                      displayed' < displayed
               PROVE  displayed' \in neat \cup scheduler.overdue \/ displayed \notin posted
    OBVIOUS
  <2>1. displayed' # displayed /\ displayed' # NoImage
    BY AgesFacts
  <2>2. CASE RenderCurrentFrame
    <3>1. displayed \in 1..requested /\ requested \in Nat
      BY Parts, AgesFacts DEF ViewerOK
    <3>2. displayed' = requested + 1
      BY <2>1, <2>2 DEF RenderCurrentFrame
    <3>. QED
      BY <3>1, <3>2
  <2>3. CASE ExecuteOnMainThread
    <3> DEFINE r == th["scheduler"]
    <3>1. /\ events # <<>> /\ Head(events) = "execute" /\ displayed' = UpdatedViewer
      BY <2>3 DEF ExecuteOnMainThread, MainThreadHandles
    <3>2. r.label = "mainwait"
      BY <3>1, Parts, EventHandled DEF ViewerOK
    <3>3. OrderOK(r, r.overdue \cup neat, {displayed} \cap posted, mtArgs)
      BY Parts
    <3>4. displayed' = r.task
      BY <2>1, <3>1, <3>2, <3>3 DEF UpdatedViewer, OrderOK
    <3>5. r.task \notin r.overdue \cup neat => \A d \in {displayed} \cap posted : d < r.task
      BY <3>2, <3>3 DEF OrderOK, InHand
    <3>6. ASSUME displayed \in posted, r.task \notin r.overdue \cup neat PROVE FALSE
      <4>1. displayed < displayed'
        BY <3>4, <3>5, <3>6
      <4>. QED
        BY <4>1, AgesFacts
    <3>. QED
      BY <3>4, <3>6 DEF scheduler
  <2>4. CASE ViewerDisconnected
    BY <2>1, <2>4 DEF ViewerDisconnected
  <2>5. CASE CallAbort \/ CallQuit \/ SchedulerStep \/ BackupStep
               \/ (\E a \in Ages : RenderStep(a)) \/ (\E c \in Clients : AbortStep(c)) \/ QuitStep
    <3>1. CASE CallAbort \/ CallQuit \/ QuitStep \/ (\E c \in Clients : AbortStep(c))
      BY <2>1, <3>1 DEF viewerVars, CallAbort, CallQuit, AbortStep, RaiseAbort, MarkOngoing,
         AbortBackup, RaiseBackup, QuitStep, QuitReadState, QuitClear, QuitBackup,
         QuitBackupReadState, QuitBackupRaise, QuitBackupClear, WaitForQuit, Join,
         WaitForRunnableTasks, WaitForBackup
    <3>2. CASE SchedulerStep \/ BackupStep
      BY <2>1, <3>2 DEF viewerVars, SchedulerStep, BackupStep, LoopStep, Pick, Resolve, Finish,
         TakeStartRequest, Dispatch, Look, Leave
    <3>3. CASE \E a \in Ages : RenderStep(a)
      BY <2>1, <3>3 DEF viewerVars, RenderStep, BeginRender, EndRender, NotifyFrameProduced
    <3>. QED
      BY <2>5, <3>1, <3>2, <3>3
  <2>. QED
    BY <2>2, <2>3, <2>4, <2>5 DEF Next, MainThreadEvent
<1>. QED
  BY <1>1, ViewerInvariant, PTL DEF Spec, DisplayedInOrder
=============================================================================
