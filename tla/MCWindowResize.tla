---------------------------- MODULE MCWindowResize ----------------------------
(***************************************************************************)
(* WindowResize with windows that are not square, and a minimized one.     *)
(***************************************************************************)
EXTENDS WindowResize

Oblongs == {<<0, 0>>, <<2, 1>>, <<3, 1>>}
=============================================================================
