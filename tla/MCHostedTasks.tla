---------------------------- MODULE MCHostedTasks ----------------------------
(***************************************************************************)
(* A small instance of HostedTasks for TLC: two tasks of one agent, one    *)
(* stage after the other, for a process with two coroutines.               *)
(***************************************************************************)
EXTENDS HostedTasks, TLC

CONSTANTS t1, t2, a1, w1, s1, s2

MCAgentOf == (t1 :> a1) @@ (t2 :> a1)
MCStageOf == (t1 :> 1) @@ (t2 :> 2)
MCWorkerOf == (s1 :> w1) @@ (s2 :> w1)
=============================================================================
