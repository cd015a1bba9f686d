----------------------------- MODULE MCScheduler -----------------------------
(* The dispatcher thread and another thread book and stop three events.     *)
EXTENDS Scheduler, TLC

CONSTANTS disp, net, e1, e2, e3, null

MCThreads == {disp, net}
MCEvents == {e1, e2, e3}
\* e1 is created with a delay below SCHEDULER_MINTICKS
MCDelay == (e1 :> 1) @@ (e2 :> 2) @@ (e3 :> 3)
=============================================================================
