-------------------------- MODULE MCAuthorityLedger --------------------------
(***************************************************************************)
(* Small instances of AuthorityLedger for TLC: processes and requests are  *)
(* interchangeable, except where NonText tells requests apart.             *)
(***************************************************************************)
EXTENDS AuthorityLedger, TLC

Symmetry == Permutations(Process) \cup Permutations(Request \ NonText)
=============================================================================
