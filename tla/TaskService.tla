----------------------------- MODULE TaskService -----------------------------
(***************************************************************************)
(* What a GenericSchedulerThread promises the client of startTask(),       *)
(* without its queues, its flags and its thread: a task that was accepted  *)
(* is started once, or it is given up.                                     *)
(***************************************************************************)
EXTENDS Sequences, Naturals, Functions

CONSTANTS
    Tasks,
    Ordered     \* tasks start in the order they were accepted

VARIABLES accepted, started, lost

vars == <<accepted, started, lost>>

Waiting == Range(accepted) \ (Range(started) \cup lost)

Init == accepted = <<>> /\ started = <<>> /\ lost = {}

Accept(t) ==
    /\ t \in Tasks \ Range(accepted)
    /\ accepted' = Append(accepted, t)
    /\ UNCHANGED <<started, lost>>

IsNext(t) ==
    \A i, j \in DOMAIN accepted :
        i < j /\ accepted[j] = t => accepted[i] \notin Waiting

Start(t) ==
    /\ t \in Waiting /\ (Ordered => IsNext(t))
    /\ started' = Append(started, t)
    /\ UNCHANGED <<accepted, lost>>

(* An abort, a quit, or a more recent task *)
GiveUp(ts) ==
    /\ ts \subseteq Waiting
    /\ lost' = lost \cup ts
    /\ UNCHANGED <<accepted, started>>

Next ==
    \/ \E t \in Tasks : Accept(t) \/ Start(t)
    \/ \E ts \in SUBSET Waiting : GiveUp(ts)

Spec == Init /\ [][Next]_vars

(* No accepted task waits for ever *)
FairSpec == Spec /\ \A t \in Tasks : WF_vars(Start(t))
=============================================================================
