--------------------------- MODULE MCLoopAndLedger ---------------------------
(***************************************************************************)
(* The closed learning loop and the authority ledger.  They share nothing: *)
(* a behaviour is one of the one or one of the other.                      *)
(***************************************************************************)
EXTENDS LearningLoop, AuthorityLedger

VARIABLE part

eitherVars == <<part, learnVars, vars>>

EitherInit == part \in {"loop", "ledger"} /\ LearnInit /\ Init

EitherNext == \/ part = "loop" /\ LearnNext /\ UNCHANGED <<part, vars>>
              \/ part = "ledger" /\ Next /\ UNCHANGED <<part, learnVars>>

\* What the loop assumes of its threads.
EitherSpec == EitherInit /\ [][EitherNext]_eitherVars /\ LearnFairness
=============================================================================
