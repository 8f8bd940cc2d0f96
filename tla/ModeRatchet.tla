----------------------------- MODULE ModeRatchet -----------------------------
(***************************************************************************)
(* What the governance tier promises about the system mode, without its    *)
(* threads, ledger, consents or gates: who may move the mode, and where.   *)
(* ModeControl is shown to implement this module.                          *)
(***************************************************************************)
EXTENDS ModeRules

VARIABLES mode,   \* the system mode
          mover   \* who made the last move: "operator", "drift", "kill",
                  \* "hazard", "unlock", or "boot" when none was made

vars == <<mode, mover>>

Movers == {"operator", "drift", "kill", "hazard", "unlock", "boot"}

Init == mode = "SAFE" /\ mover = "boot"

\* Only an operator climbs, one step at a time.
Climb == /\ \E m \in SystemMode : IsForward(mode, m) /\ mode' = m
         /\ mover' = "operator"

\* An operator descends as far as it likes.
Descend == /\ \E m \in SystemMode : IsBackward(mode, m) /\ mode' = m
           /\ mover' = "operator"

\* The drift oracle descends one step, and not below PAPER.
Downgrade == /\ mode \in DriftScope
             /\ mode' = DowngradeTarget(mode)
             /\ mover' = "drift"

\* A kill, a CRITICAL hazard or a mode request locks any unlocked mode.
Lock == /\ mode # "LOCKED"
        /\ mode' = "LOCKED"
        /\ mover' \in {"operator", "kill", "hazard"}

\* An operator's unlock is the only way out of LOCKED.
Release == /\ mode = "LOCKED"
           /\ mode' = "SAFE"
           /\ mover' = "unlock"

\* A new process starts in SAFE, whatever the old one was doing.
Boot == mode' = "SAFE" /\ mover' = "boot"

Next == Climb \/ Descend \/ Downgrade \/ Lock \/ Release \/ Boot

Spec == Init /\ [][Next]_vars
=============================================================================
