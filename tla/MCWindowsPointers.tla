-------------------------- MODULE MCWindowsPointers --------------------------
(***************************************************************************)
(* WindowsPointers with two windows, the second of which comes and goes.   *)
(***************************************************************************)
EXTENDS WindowsPointers, TLC

CONSTANTS v0, v1, trackpad0, trackpad1

\* Each of the two windows has a trackpad id of its own.
Trackpads == v0 :> trackpad0 @@ v1 :> trackpad1
=============================================================================
