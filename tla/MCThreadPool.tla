---------------------------- MODULE MCThreadPool ----------------------------
(* Instances of ThreadPool for TLC. *)
EXTENDS ThreadPool

CONSTANT Reliable   \* the workers whose handlers always return

FairPoolSpec == PoolSpec /\ PoolFairness(Reliable)

\* Liveness of the pool: see EveryTaskTaken.
TaskTakenByReliable == EveryTaskTaken(Reliable)

=============================================================================
