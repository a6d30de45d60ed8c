---------------------------- MODULE MCTaskQueues ----------------------------
(***************************************************************************)
(* TaskQueues on three queues and a few tasks.  Three queues are the least *)
(* on which every refusal of Merge and Unmerge is met: an owner with two   *)
(* queues, a subsumed queue offered a queue of its own, and a queue that   *)
(* another owner has taken.                                                *)
(***************************************************************************)
EXTENDS TaskQueues, TLC

Queues == Permutations(Queue)
=============================================================================
