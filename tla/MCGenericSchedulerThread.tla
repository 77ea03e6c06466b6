---------------------- MODULE MCGenericSchedulerThread ----------------------
(* Instances of GenericSchedulerThread for TLC.  Tasks are interchangeable *)
(* unless one of them is marked as skippable; the symmetry is used only in *)
(* the runs without liveness.                                              *)
EXTENDS GenericSchedulerThread, TLC

TaskSymmetry == Permutations(Tasks)
=============================================================================
