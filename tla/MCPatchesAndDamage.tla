-------------------------- MODULE MCPatchesAndDamage --------------------------
(***************************************************************************)
(* The patch pipeline and a damaged authority ledger.  They share nothing: *)
(* a behaviour is one of the one or one of the other.  Tickers are         *)
(* interchangeable, too.                                                   *)
(***************************************************************************)
EXTENDS MCAuthorityLedger, PatchPipeline

VARIABLE part

eitherVars == <<part, patchVars, vars>>

EitherInit == part \in {"patch", "ledger"} /\ PatchInit /\ Init

EitherNext == \/ part = "patch" /\ PatchNext /\ UNCHANGED <<part, vars>>
              \/ part = "ledger" /\ Next /\ UNCHANGED <<part, patchVars>>

EitherSpec == EitherInit /\ [][EitherNext]_eitherVars

EitherSymmetry == Symmetry \cup Permutations(Ticker)
=============================================================================
