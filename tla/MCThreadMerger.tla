---------------------------- MODULE MCThreadMerger ----------------------------
(***************************************************************************)
(* ThreadMerger with one engine, and with several that share their threads.*)
(***************************************************************************)
EXTENDS ThreadMerger, TLC

Engines == Permutations(Merger)
=============================================================================
