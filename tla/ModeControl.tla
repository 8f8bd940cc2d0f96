----------------------------- MODULE ModeControl -----------------------------
(***************************************************************************)
(* The governance control plane's mode machine with everything that moves  *)
(* it: StateTransitionManager.propose and the checks it calls, the         *)
(* operator bridge and the kill switch, the emergency hazard path of       *)
(* GovernanceEngine, and the drift oracle.                                 *)
(*                                                                         *)
(* `propose' runs under the manager's own lock, so it is one step.  Its    *)
(* callers read current_mode() first, decide on what they read, and then   *)
(* propose: two steps, with other threads between them unless the caller   *)
(* holds STATE.lock (the actors in Serialised).                            *)
(*                                                                         *)
(* Ledger rows that no decision depends on (rejections, audits, intents)   *)
(* are left out: the ledger is the rows the control plane reads back or    *)
(* pairs with a decision (moves, bound hashes, accepted consents).         *)
(***************************************************************************)
EXTENDS Integers, Sequences, ModeRules

CONSTANTS
  Workers,          \* request threads that call OperatorInterfaceBridge.submit
  Drifters,         \* threads that call evaluate_and_downgrade
  Serialised,       \* the actors that hold STATE.lock for the whole call
  Nonces,           \* (operator_id, nonce) pairs a consent can carry
  PolicyHashes,     \* decision-table hashes, one per version of the code
  GateHashes,       \* contents of docs/promotion_gates.yaml
  None,             \* "absent": no file, no hash, no row, no consent, no request
  GatesWired,       \* was the manager given a PromotionGates?
  OperatorScoped,   \* modes named by a REQUIRE_OPERATOR constraint
  NonceCapacity,    \* NONCE_RING_CAPACITY
  FreshnessWindow,  \* CONSENT_FRESHNESS_WINDOW_NS
  LedgerFaults,     \* may an append to the SQLite ledger raise?
  FileLoss,         \* may the promotion-gates file be deleted?
  MaxTime,          \* bound on the clock
  MaxConsents,      \* bound on the accepted consents
  MaxBoots          \* bound on the process starts

Actors == Workers \cup Drifters

ASSUME ActorsAssumption ==
  /\ Workers \cap Drifters = {}
  /\ Serialised \subseteq Actors

ASSUME NumbersAssumption ==
  /\ NonceCapacity \in Nat \ {0}
  /\ FreshnessWindow \in Nat \ {0}
  /\ MaxTime \in Nat /\ MaxConsents \in Nat /\ MaxBoots \in Nat

ASSUME ValuesAssumption ==
  /\ PolicyHashes # {}
  /\ None \notin GateHashes \cup PolicyHashes \cup Nonces
  /\ GatesWired \in BOOLEAN /\ LedgerFaults \in BOOLEAN /\ FileLoss \in BOOLEAN
  /\ OperatorScoped \subseteq SystemMode

\* OperatorConsent: the bridge stamps the edge, the client supplies the rest.
Consent == [nonce : Nonces, ts : Nat, hash : PolicyHashes,
            from : SystemMode, to : SystemMode]

\* ModeTransitionRequest; `seen' is its current_mode, what the caller read.
Request == [by : {"operator", "kill", "unlock", "drift", "hazard"},
            seen : SystemMode, target : SystemMode, auth : BOOLEAN,
            ts : Nat, consent : Consent \cup {None}]

\* The MODE_TRANSITION row.
Move == [by : {"operator", "kill", "unlock", "drift", "hazard"},
         prev : SystemMode, new : SystemMode, auth : BOOLEAN]

\* The OPERATOR_CONSENT_ACCEPTED row; `at' is the row's own timestamp.
ConsentRow == [consent : Consent, at : Nat]

ASSUME NoneAssumption == None \notin Request /\ None \notin Move /\ None \notin Consent

VARIABLES
  mode,        \* StateTransitionManager._mode
  pending,     \* the request each actor has built and not yet proposed
  ring,        \* OperatorConsentValidator._seen_nonces, oldest first
  bound,       \* PromotionGates._bound_hash
  gateFile,    \* the content of promotion_gates.yaml, None when deleted
  policy,      \* PolicyEngine.table_hash
  now,         \* wall_ns()
  lastMove,    \* ledger: the latest MODE_TRANSITION row
  lastBound,   \* ledger: the hash of the latest PROMOTION_GATES_BOUND row
  consents,    \* ledger: the OPERATOR_CONSENT_ACCEPTED rows
  boots,       \* process starts after the first
  fresh,       \* no MODE_TRANSITION row since the process started
  mark,        \* accepted consents in the ledger when the process started
  paperFile    \* history: gateFile when PAPER was last entered

ledger == <<lastMove, lastBound, consents>>
history == <<boots, fresh, mark, paperFile>>
vars == <<mode, pending, ring, bound, gateFile, policy, now, ledger, history>>

TypeOK ==
  /\ mode \in SystemMode
  /\ pending \in [Actors -> Request \cup {None}]
  /\ ring \in Seq(Nonces)
  /\ bound \in GateHashes \cup {None}
  /\ gateFile \in GateHashes \cup {None}
  /\ policy \in PolicyHashes
  /\ now \in Nat
  /\ lastMove \in Move \cup {None}
  /\ lastBound \in GateHashes \cup {None}
  /\ consents \in Seq(ConsentRow)
  /\ boots \in Nat /\ mark \in Nat
  /\ fresh \in BOOLEAN
  /\ paperFile \in GateHashes \cup {None}

Init ==
  /\ mode = "SAFE"
  /\ pending = [a \in Actors |-> None]
  /\ ring = <<>>
  /\ bound = None
  /\ gateFile \in GateHashes
  /\ policy \in PolicyHashes
  /\ now = 0
  /\ lastMove = None /\ lastBound = None /\ consents = <<>>
  /\ boots = 0 /\ fresh = TRUE /\ mark = 0 /\ paperFile = None

-----------------------------------------------------------------------------
(* The checks of propose, in the order the code makes them.                *)

\* Mutants of the consent check: the nonce ring is not read; the policy hash is
\* not compared; the window is one too long.
MutConsentReplay(c, ts, prev, target) ==
  c # None /\ c.from = prev /\ c.to = target /\ c.hash = policy
    /\ c.ts <= ts /\ ts - c.ts <= FreshnessWindow
MutConsentAnyPolicy(c, ts, prev, target) ==
  c # None /\ c.from = prev /\ c.to = target
    /\ c.ts <= ts /\ ts - c.ts <= FreshnessWindow
    /\ \A i \in 1..Len(ring) : ring[i] # c.nonce

MutConsentStale(c, ts, prev, target) ==
  c # None /\ c.from = prev /\ c.to = target /\ c.hash = policy
    /\ c.ts <= ts /\ ts - c.ts <= FreshnessWindow + 1
    /\ \A i \in 1..Len(ring) : ring[i] # c.nonce

\* OperatorConsentValidator.validate.
ConsentValid(c, ts, prev, target) ==
  /\ c # None
  /\ c.from = prev /\ c.to = target
  /\ c.ts <= ts /\ ts - c.ts <= FreshnessWindow
  /\ c.hash = policy
  /\ \A i \in 1..Len(ring) : ring[i] # c.nonce

\* Mutant: only CANARY is gated.
MutGatesCanaryOnly(target) ==
  GatesWired /\ target = "CANARY" => bound # None /\ gateFile = bound

\* PromotionGates.check: it looks at the target only, not at the direction.
GatesAdmit(target) ==
  GatesWired /\ target \in GatedTargets => bound # None /\ gateFile = bound

\* A valid consent makes the request operator-authorised.
Authorized(r) == r.auth \/ EdgeRequiresConsent(mode, r.target)

Approved(r) ==
  /\ IsLegalEdge(mode, r.target)
  /\ EdgeRequiresConsent(mode, r.target)
       => ConsentValid(r.consent, r.ts, mode, r.target)
  /\ GatesAdmit(r.target)
  /\ PermitModeTransition(mode, r.target, Authorized(r), OperatorScoped)

-----------------------------------------------------------------------------
(* The effects of an approved proposal, in the order the code makes them;  *)
(* an append that raises leaves the ones before it in place.               *)

\* OperatorConsentValidator.commit: deque(maxlen = nonce_capacity).append.
RegisterNonce(n) ==
  ring' = IF Len(ring) < NonceCapacity THEN Append(ring, n)
                                       ELSE Append(Tail(ring), n)

CommitNonce(r) == IF EdgeRequiresConsent(mode, r.target)
                  THEN RegisterNonce(r.consent.nonce)
                  ELSE UNCHANGED ring

WriteConsentRow(r) == consents' = IF EdgeRequiresConsent(mode, r.target)
                                  THEN Append(consents, [consent |-> r.consent, at |-> r.ts])
                                  ELSE consents

FlipMode(r) ==
  /\ lastMove' = [by |-> r.by, prev |-> mode, new |-> r.target, auth |-> Authorized(r)]
  /\ fresh' = FALSE
  /\ mode' = r.target
  /\ paperFile' = IF r.target = "PAPER" THEN gateFile ELSE paperFile

\* PromotionGates.bind, called after the flip when PAPER was entered: the
\* row, then the in-memory hash; it raises when the file is gone.
BindGates(r) == IF GatesWired /\ r.target = "PAPER" /\ gateFile # None
                THEN lastBound' = gateFile /\ bound' = gateFile
                ELSE UNCHANGED <<lastBound, bound>>

Execute(r) == /\ CommitNonce(r) /\ WriteConsentRow(r) /\ FlipMode(r) /\ BindGates(r)
              /\ UNCHANGED <<gateFile, policy, now, boots, mark>>

\* The OPERATOR_CONSENT_ACCEPTED append raises: the nonce is spent.
LoseConsentRow(r) == /\ EdgeRequiresConsent(mode, r.target)
                     /\ CommitNonce(r)
                     /\ UNCHANGED <<mode, bound, gateFile, policy, now, ledger, history>>

\* Mutant: the mode flips before its row is appended.
MutFlipBeforeRow(r) == /\ CommitNonce(r) /\ WriteConsentRow(r) /\ mode' = r.target
                       /\ UNCHANGED <<bound, gateFile, policy, now, lastMove,
                                      lastBound, history>>

\* The MODE_TRANSITION append raises: nonce and consent row stay.
LoseMoveRow(r) == /\ CommitNonce(r) /\ WriteConsentRow(r)
                  /\ UNCHANGED <<mode, bound, gateFile, policy, now, lastMove,
                                 lastBound, history>>

\* Mutant: bind caches the hash before it appends the row.
MutBindBeforeRow(r) == /\ GatesWired /\ r.target = "PAPER"
                       /\ CommitNonce(r) /\ WriteConsentRow(r) /\ FlipMode(r)
                       /\ bound' = gateFile
                       /\ UNCHANGED <<lastBound, gateFile, policy, now, boots, mark>>

\* The PROMOTION_GATES_BOUND append raises: the mode has already changed.
LoseBoundRow(r) == /\ GatesWired /\ r.target = "PAPER"
                   /\ CommitNonce(r) /\ WriteConsentRow(r) /\ FlipMode(r)
                   /\ UNCHANGED <<bound, lastBound, gateFile, policy, now, boots, mark>>

-----------------------------------------------------------------------------
(* The callers.                                                            *)

\* STATE.lock: an actor of Serialised begins only when none of them is busy.
MayBegin(a) == /\ pending[a] = None
               /\ a \in Serialised => \A b \in Serialised : pending[b] = None

Build(a, r) == /\ pending' = [pending EXCEPT ![a] = r]
               /\ UNCHANGED <<mode, ring, bound, gateFile, policy, now, ledger, history>>

\* submit(REQUEST_MODE) up to the call of propose.  The request was stamped
\* when it was built, which may be some time ago.  The consent is taken from
\* the payload only when the edge from the mode just read needs one.
SubmitMode(a) ==
  /\ MayBegin(a) /\ PermitOperatorAction("REQUEST_MODE", mode)
  /\ \E target \in SystemMode, auth \in BOOLEAN, ts \in 0..now :
       \/ Build(a, [by |-> "operator", seen |-> mode, target |-> target,
                    auth |-> auth, ts |-> ts, consent |-> None])
       \/ /\ EdgeRequiresConsent(mode, target) /\ Len(consents) < MaxConsents
          /\ \E nonce \in Nonces, cts \in 0..now, hash \in PolicyHashes :
               Build(a, [by |-> "operator", seen |-> mode, target |-> target,
                         auth |-> auth, ts |-> ts,
                         consent |-> [nonce |-> nonce, ts |-> cts, hash |-> hash,
                                      from |-> mode, to |-> target]])

\* submit(REQUEST_KILL): KillSwitch.engage up to the call of propose.
SubmitKill(a) ==
  /\ MayBegin(a) /\ PermitOperatorAction("REQUEST_KILL", mode)
  /\ Build(a, [by |-> "kill", seen |-> mode, target |-> "LOCKED",
               auth |-> TRUE, ts |-> now, consent |-> None])

\* submit(REQUEST_UNLOCK).
SubmitUnlock(a) ==
  /\ MayBegin(a) /\ PermitOperatorAction("REQUEST_UNLOCK", mode)
  /\ Build(a, [by |-> "unlock", seen |-> mode, target |-> "SAFE",
               auth |-> TRUE, ts |-> now, consent |-> None])

\* evaluate_and_downgrade on a breaching reading, up to the call of propose.
ReadForDrift(d) ==
  /\ MayBegin(d) /\ mode \in DriftScope
  /\ Build(d, [by |-> "drift", seen |-> mode, target |-> DowngradeTarget(mode),
               auth |-> FALSE, ts |-> now, consent |-> None])

Clear(a) == pending' = [pending EXCEPT ![a] = None]

\* The second half of every caller: StateTransitionManager.propose.
ProposeApproved(a) ==
  /\ pending[a] # None /\ Approved(pending[a])
  /\ Execute(pending[a])
  /\ Clear(a)

ProposeRejected(a) ==
  /\ pending[a] # None /\ ~Approved(pending[a])
  /\ Clear(a)
  /\ UNCHANGED <<mode, ring, bound, gateFile, policy, now, ledger, history>>

ProposeRaises(a) ==
  /\ LedgerFaults /\ pending[a] # None /\ Approved(pending[a])
  /\ \/ LoseConsentRow(pending[a])
     \/ LoseMoveRow(pending[a])
     \/ LoseBoundRow(pending[a])
  /\ Clear(a)

Propose(a) == ProposeApproved(a) \/ ProposeRejected(a) \/ ProposeRaises(a)


\* GovernanceEngine._handle_hazard with emergency_lock: what it reads does not
\* matter, so it is one step; process runs under STATE.lock.
HazardLock ==
  /\ \A b \in Serialised : pending[b] = None
  /\ LET r == [by |-> "hazard", seen |-> mode, target |-> "LOCKED", auth |-> TRUE,
               ts |-> now, consent |-> None]
     IN Approved(r) /\ Execute(r)
  /\ UNCHANGED pending

-----------------------------------------------------------------------------
(* The environment.                                                        *)

\* The document of record is edited, deleted or put back.
EditGateFile ==
  /\ gateFile' \in GateHashes \cup {IF FileLoss THEN None ELSE gateFile}
  /\ gateFile' # gateFile
  /\ UNCHANGED <<mode, pending, ring, bound, policy, now, ledger, history>>

Tick == /\ now < MaxTime
        /\ now' = now + 1
        /\ UNCHANGED <<mode, pending, ring, bound, gateFile, policy, ledger, history>>

\* The process dies and starts again, perhaps with another policy table: the
\* mode and the nonce ring are rebuilt empty, the ledger is read back, and the
\* bound hash is None unless replay_from_ledger is called.
Restart ==
  /\ boots < MaxBoots
  /\ boots' = boots + 1
  /\ mode' = "SAFE" /\ fresh' = TRUE
  /\ pending' = [a \in Actors |-> None]
  /\ ring' = <<>>
  /\ bound' \in {None, lastBound}
  /\ policy' \in PolicyHashes
  /\ mark' = Len(consents)
  /\ UNCHANGED <<gateFile, now, ledger, paperFile>>

Next ==
  \/ \E a \in Workers : SubmitMode(a) \/ SubmitKill(a) \/ SubmitUnlock(a)
  \/ \E d \in Drifters : ReadForDrift(d)
  \/ \E a \in Actors : Propose(a)
  \/ HazardLock
  \/ EditGateFile
  \/ Tick
  \/ Restart

Spec == Init /\ [][Next]_vars

\* A thread that has read the mode goes on to propose.
FairSpec == Spec /\ \A a \in Actors : WF_vars(Propose(a))
-----------------------------------------------------------------------------
(* Invariants.                                                             *)

\* The mode a reader of the ledger computes is the mode in memory: the flip
\* and its row never part, not even when an append raises half-way
\* (state_transition_manager.py: row, then flip, under one lock).
LedgerAgrees == mode = IF fresh THEN "SAFE" ELSE lastMove.new

\* The hash the gates compare with is the one anchored last in the ledger: a
\* bind whose row was lost changes nothing in memory (promotion_gates.py).
BoundIsAnchored == bound # None => bound = lastBound

\* While a move over a consent edge is the latest one, the latest consent row
\* is its consent: for this edge, under this policy table, fresh at the time,
\* and written since the process started.  No lost row, race or restart makes
\* SAFE -> PAPER or LIVE -> AUTO happen on another edge's consent.
ConsentBacksMove ==
  ~fresh /\ EdgeRequiresConsent(lastMove.prev, lastMove.new) =>
    /\ Len(consents) > mark
    /\ LET row == consents[Len(consents)] IN
         /\ row.consent.from = lastMove.prev /\ row.consent.to = lastMove.new
         /\ row.consent.hash = policy
         /\ row.consent.ts <= row.at /\ row.at <= row.consent.ts + FreshnessWindow

\* One process accepts a nonce a second time only after NonceCapacity others
\* (the deque of operator_consent.py evicts its oldest entry).
NonceSpacing ==
  \A i, j \in mark + 1 .. Len(consents) :
    i < j /\ consents[i].consent.nonce = consents[j].consent.nonce
      => j - i > NonceCapacity

\* What a caller read is still true when its proposal is decided: the request's
\* current_mode is the mode.  It needs every caller to hold STATE.lock.
SeenIsCurrent == \A a \in Actors : pending[a] # None => pending[a].seen = mode

-----------------------------------------------------------------------------
(* Action properties.                                                      *)

\* A killed system stays killed: LOCKED is left by an unlock, or by the
\* process starting again, and by no other caller's proposal.
LockedLeftOnlyByUnlock ==
  [][mode = "LOCKED" /\ mode' # "LOCKED" => fresh' \/ lastMove'.by = "unlock"]_vars

\* The drift oracle only ever moves the mode back (drift_oracle.py:12 "a
\* one-step *backward* transition").
DriftOnlyDowngrades ==
  [][mode' # mode /\ ~fresh' /\ lastMove'.by = "drift" => IsBackward(mode, mode')]_vars

\* CANARY, LIVE and AUTO are entered upwards only under the document of record
\* as it was when PAPER was last entered (promotion_gates.py).
PromotedUnderPaperFile ==
  [][mode' \in GatedTargets /\ IsForward(mode, mode') => gateFile = paperFile]_vars

-----------------------------------------------------------------------------
(* Liveness.                                                               *)

\* A kill that was let in locks the system, whatever the other callers do.
KillLocks ==
  \A a \in Workers : (pending[a] # None /\ pending[a].by = "kill") ~> mode = "LOCKED"

-----------------------------------------------------------------------------
(* Refinement.                                                             *)

Ratchet == INSTANCE ModeRatchet WITH mover <- IF fresh THEN "boot" ELSE lastMove.by

\* With every caller under STATE.lock the control plane is a mode ratchet.
RatchetSpec == Ratchet!Spec
=============================================================================
