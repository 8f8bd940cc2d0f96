---------------------------- MODULE MCModeControl ----------------------------
(***************************************************************************)
(* Small instances of ModeControl for TLC.                                 *)
(***************************************************************************)
EXTENDS ModeControl, TLC

CONSTANTS w1, w2, d1, n1, n2, h1, h2, p1, p2

Symmetric == Permutations({n1, n2}) \cup Permutations({h1, h2})
=============================================================================
