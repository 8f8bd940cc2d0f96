------------------------------ MODULE ModeRules ------------------------------
(***************************************************************************)
(* The pure rules of the mode state machine: the forward chain and its     *)
(* legal edges (state_transition_manager.py), the edges that need a typed  *)
(* consent (operator_consent.py), the modes behind the promotion gates     *)
(* (promotion_gates.py), the drift oracle's downgrade table                *)
(* (drift_oracle.py) and the two decision functions of policy_engine.py.   *)
(* No state: ModeControl and ModeRatchet share these definitions.          *)
(***************************************************************************)
EXTENDS Integers

SystemMode == {"SAFE", "PAPER", "CANARY", "LIVE", "AUTO", "LOCKED"}

\* _chain_index: the place of a mode in _FORWARD_CHAIN.  LOCKED is in no
\* chain; 99 is its rank in the enum SystemMode.
ForwardChain == SystemMode \ {"LOCKED"}

ChainIndex(m) == CASE m = "SAFE"   -> 0
                   [] m = "PAPER"  -> 1
                   [] m = "CANARY" -> 2
                   [] m = "LIVE"   -> 3
                   [] m = "AUTO"   -> 4
                   [] OTHER        -> 99

IsForward(prev, target) ==
    /\ prev \in ForwardChain
    /\ target \in ForwardChain
    /\ ChainIndex(target) = ChainIndex(prev) + 1

IsBackward(prev, target) ==
    /\ prev \in ForwardChain
    /\ target \in ForwardChain
    /\ ChainIndex(target) < ChainIndex(prev)

\* Mutants of the edges: a step up may skip; no edge leads to LOCKED.
MutEdgeSkips(prev, target) ==
    /\ prev # target
    /\ target = "LOCKED" \/ prev = "LOCKED" \/ ChainIndex(target) > ChainIndex(prev)
         \/ IsBackward(prev, target)
MutEdgeNoLock(prev, target) ==
    /\ prev # target
    /\ \/ prev = "LOCKED" /\ target = "SAFE"
       \/ IsForward(prev, target)
       \/ IsBackward(prev, target)

\* _is_legal_edge: a no-op is refused, LOCKED is reachable from everywhere
\* and left only to SAFE; on the chain one step up or any number down.
IsLegalEdge(prev, target) ==
    /\ prev # target
    /\ \/ target = "LOCKED"
       \/ prev = "LOCKED" /\ target = "SAFE"
       \/ IsForward(prev, target)
       \/ IsBackward(prev, target)

\* CONSENT_REQUIRED_EDGES and edge_requires_consent.
ConsentRequiredEdges == {<<"SAFE", "PAPER">>, <<"LIVE", "AUTO">>}

EdgeRequiresConsent(prev, target) == <<prev, target>> \in ConsentRequiredEdges

\* _GATED_FORWARD_TARGETS.
GatedTargets == {"CANARY", "LIVE", "AUTO"}

\* _DOWNGRADE_CHAIN: the modes the drift oracle acts on, and where it moves
\* each of them.
DriftScope == {"AUTO", "LIVE", "CANARY"}

DowngradeTarget(m) == CASE m = "AUTO" -> "LIVE"
                        [] m = "LIVE" -> "CANARY"
                        [] OTHER      -> "PAPER"

IsClimb(prev, target) == prev # "LOCKED" /\ ChainIndex(target) > ChainIndex(prev)

\* PolicyEngine.permit_mode_transition.  `scoped' is the set of modes named by
\* a REQUIRE_OPERATOR constraint.  The enum ranks order the modes as the
\* chain does, LOCKED above all of them.
PermitModeTransition(prev, target, authorized, scoped) ==
    /\ (target \in {"LIVE", "AUTO"} /\ IsClimb(prev, target)) => authorized
    /\ target \in scoped => authorized

\* PolicyEngine.permit_operator_action on the compiled decision table: in
\* LOCKED only an unlock is admitted, elsewhere everything but an unlock, and
\* a plugin may not be made ACTIVE in SAFE.
PermitOperatorAction(action, m) ==
    CASE action = "REQUEST_UNLOCK"   -> m = "LOCKED"
      [] action = "LIFECYCLE_ACTIVE" -> m \notin {"LOCKED", "SAFE"}
      [] OTHER                       -> m # "LOCKED"
=============================================================================
