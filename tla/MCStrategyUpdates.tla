-------------------------- MODULE MCStrategyUpdates --------------------------
(***************************************************************************)
(* Small instances of StrategyUpdates for TLC.                             *)
(***************************************************************************)
EXTENDS StrategyUpdates, TLC

Symmetry == Permutations(Strategy)
=============================================================================
