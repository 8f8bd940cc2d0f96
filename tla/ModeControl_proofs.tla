------------------------- MODULE ModeControl_proofs -------------------------
(***************************************************************************)
(* Theorems about ModeControl, for every value of its constants.           *)
(***************************************************************************)
EXTENDS ModeControl, TLAPS

USE DEF Actors, ledger, history, vars

-----------------------------------------------------------------------------
(* The rules are total: every request the callers build is a Request.      *)

LEMMA DowngradeTargetIsMode == \A m : DowngradeTarget(m) \in SystemMode
BY DEF DowngradeTarget, SystemMode

\* What registering a nonce does to the ring: it stays a sequence of nonces.
LEMMA RingTyped ==
  ASSUME ring \in Seq(Nonces), NEW n \in Nonces, RegisterNonce(n)
  PROVE  ring' \in Seq(Nonces)
<1>1. CASE Len(ring) < NonceCapacity
  BY <1>1 DEF RegisterNonce
<1>2. CASE ~(Len(ring) < NonceCapacity)
  <2>1. Len(ring) > 0
    BY <1>2, NumbersAssumption
  <2>2. Tail(ring) \in Seq(Nonces)
    BY <2>1
  <2>. QED
    BY <1>2, <2>2 DEF RegisterNonce
<1>. QED
  BY <1>1, <1>2

\* An approved request over a consent edge carries a consent.
LEMMA ApprovedHasConsent ==
  ASSUME TypeOK, NEW r \in Request, Approved(r), EdgeRequiresConsent(mode, r.target)
  PROVE  r.consent \in Consent
BY NoneAssumption DEF Approved, ConsentValid, Request, TypeOK

\* The parts of an approved proposal keep the types.
LEMMA EffectsTyped ==
  ASSUME TypeOK, NEW r \in Request, Approved(r)
  PROVE  /\ CommitNonce(r) => ring' \in Seq(Nonces)
         /\ WriteConsentRow(r) => consents' \in Seq(ConsentRow)
         /\ FlipMode(r) => /\ mode' \in SystemMode /\ lastMove' \in Move
                           /\ fresh' \in BOOLEAN
                           /\ paperFile' \in GateHashes \cup {None}
         /\ BindGates(r) => /\ bound' \in GateHashes \cup {None}
                            /\ lastBound' \in GateHashes \cup {None}
<1>1. CommitNonce(r) => ring' \in Seq(Nonces)
  <2>1. ASSUME EdgeRequiresConsent(mode, r.target), CommitNonce(r)
        PROVE  ring' \in Seq(Nonces)
    <3>1. r.consent.nonce \in Nonces
      BY <2>1, ApprovedHasConsent DEF Consent
    <3>2. RegisterNonce(r.consent.nonce)
      BY <2>1 DEF CommitNonce
    <3>. QED
      BY <3>1, <3>2, RingTyped DEF TypeOK
  <2>2. ASSUME ~EdgeRequiresConsent(mode, r.target), CommitNonce(r)
        PROVE  ring' \in Seq(Nonces)
    BY <2>2 DEF CommitNonce, TypeOK
  <2>. QED
    BY <2>1, <2>2
<1>2. WriteConsentRow(r) => consents' \in Seq(ConsentRow)
  <2>1. ASSUME EdgeRequiresConsent(mode, r.target), WriteConsentRow(r)
        PROVE  consents' \in Seq(ConsentRow)
    <3>1. [consent |-> r.consent, at |-> r.ts] \in ConsentRow
      BY <2>1, ApprovedHasConsent DEF ConsentRow, Request
    <3>. QED
      BY <2>1, <3>1 DEF WriteConsentRow, TypeOK
  <2>2. ASSUME ~EdgeRequiresConsent(mode, r.target), WriteConsentRow(r)
        PROVE  consents' \in Seq(ConsentRow)
    BY <2>2 DEF WriteConsentRow, TypeOK
  <2>. QED
    BY <2>1, <2>2
<1>3. FlipMode(r) => /\ mode' \in SystemMode /\ lastMove' \in Move
                     /\ fresh' \in BOOLEAN
                     /\ paperFile' \in GateHashes \cup {None}
  <2>1. Authorized(r) \in BOOLEAN
    BY Zenon DEF Authorized, EdgeRequiresConsent, Request
  <2>2. r.by \in {"operator", "kill", "unlock", "drift", "hazard"} /\ r.target \in SystemMode
    BY DEF Request
  <2>. DEFINE row == [by |-> r.by, prev |-> mode, new |-> r.target, auth |-> Authorized(r)]
  <2>3. row \in Move
    BY <2>1, <2>2 DEF Move, TypeOK
  <2>. QED
    BY <2>2, <2>3 DEF FlipMode, TypeOK
<1>4. BindGates(r) => /\ bound' \in GateHashes \cup {None}
                      /\ lastBound' \in GateHashes \cup {None}
  BY DEF BindGates, TypeOK
<1>. QED
  BY <1>1, <1>2, <1>3, <1>4

LEMMA ExecuteTyped ==
  ASSUME TypeOK, NEW r \in Request, Approved(r), Execute(r),
         pending' \in [Actors -> Request \cup {None}]
  PROVE  TypeOK'
BY EffectsTyped DEF Execute, TypeOK

LEMMA RaisesTyped ==
  ASSUME TypeOK, NEW r \in Request, Approved(r),
         LoseConsentRow(r) \/ LoseMoveRow(r) \/ LoseBoundRow(r),
         pending' \in [Actors -> Request \cup {None}]
  PROVE  TypeOK'
<1>1. CASE LoseConsentRow(r)
  BY <1>1, EffectsTyped DEF LoseConsentRow, TypeOK
<1>2. CASE LoseMoveRow(r)
  BY <1>2, EffectsTyped DEF LoseMoveRow, TypeOK
<1>3. CASE LoseBoundRow(r)
  BY <1>3, EffectsTyped DEF LoseBoundRow, TypeOK
<1>. QED
  BY <1>1, <1>2, <1>3

\* Building a typed request is all a caller's first half does.
LEMMA BuildTyped ==
  ASSUME TypeOK, NEW a \in Actors, NEW r \in Request, Build(a, r)
  PROVE  TypeOK'
BY DEF Build, TypeOK

LEMMA ClearTyped ==
  ASSUME TypeOK, NEW a \in Actors, Clear(a)
  PROVE  pending' \in [Actors -> Request \cup {None}]
BY DEF Clear, TypeOK

LEMMA SubmitModeBuilds ==
  ASSUME TypeOK, NEW a \in Workers, SubmitMode(a)
  PROVE  \E r \in Request : r.by = "operator" /\ r.seen = mode /\ Build(a, r)
<1>1. PICK target \in SystemMode, auth \in BOOLEAN, ts \in 0..now :
       \/ Build(a, [by |-> "operator", seen |-> mode, target |-> target,
                    auth |-> auth, ts |-> ts, consent |-> None])
       \/ \E nonce \in Nonces, cts \in 0..now, hash \in PolicyHashes :
               Build(a, [by |-> "operator", seen |-> mode, target |-> target,
                         auth |-> auth, ts |-> ts,
                         consent |-> [nonce |-> nonce, ts |-> cts, hash |-> hash,
                                      from |-> mode, to |-> target]])
  BY DEF SubmitMode
<1>2. ts \in Nat /\ \A x \in 0..now : x \in Nat
  BY DEF TypeOK
<1>3. CASE Build(a, [by |-> "operator", seen |-> mode, target |-> target,
                    auth |-> auth, ts |-> ts, consent |-> None])
  <2>. DEFINE r == [by |-> "operator", seen |-> mode, target |-> target,
                    auth |-> auth, ts |-> ts, consent |-> None]
  <2>1. r \in Request
    BY <1>2 DEF Request, TypeOK
  <2>. QED
    BY <2>1, <1>3
<1>4. ASSUME NEW nonce \in Nonces, NEW cts \in 0..now, NEW hash \in PolicyHashes,
             Build(a, [by |-> "operator", seen |-> mode, target |-> target,
                       auth |-> auth, ts |-> ts,
                       consent |-> [nonce |-> nonce, ts |-> cts, hash |-> hash,
                                    from |-> mode, to |-> target]])
      PROVE  \E r \in Request : r.by = "operator" /\ r.seen = mode /\ Build(a, r)
  <2>. DEFINE c == [nonce |-> nonce, ts |-> cts, hash |-> hash,
                    from |-> mode, to |-> target]
  <2>. DEFINE r == [by |-> "operator", seen |-> mode, target |-> target,
                    auth |-> auth, ts |-> ts, consent |-> c]
  <2>1. c \in Consent
    BY <1>2 DEF Consent, TypeOK
  <2>2. r \in Request
    BY <1>2, <2>1 DEF Request, TypeOK
  <2>. QED
    BY <2>2, <1>4
<1>. QED
  BY <1>1, <1>3, <1>4

\* Every first half builds a request stamped with the mode it read; a kill
\* targets LOCKED, an unlock was read in LOCKED and targets SAFE, a drift
\* request was read in the oracle's scope and targets the mode below.
BuiltRight(r) ==
  /\ r.by = "kill" => r.target = "LOCKED"
  /\ r.by = "unlock" => r.seen = "LOCKED" /\ r.target = "SAFE"
  /\ r.by = "drift" => r.seen \in DriftScope /\ r.target = DowngradeTarget(r.seen)
  /\ r.by = "operator" => r.seen # "LOCKED"
  /\ r.by # "hazard"

LEMMA CallerBuilds ==
  ASSUME TypeOK, NEW a \in Actors,
         \/ a \in Workers /\ (SubmitMode(a) \/ SubmitKill(a) \/ SubmitUnlock(a))
         \/ a \in Drifters /\ ReadForDrift(a)
  PROVE  MayBegin(a) /\ \E r \in Request : r.seen = mode /\ BuiltRight(r) /\ Build(a, r)
<1>1. CASE a \in Workers /\ SubmitMode(a)
  <2>1. mode # "LOCKED" /\ MayBegin(a)
    BY <1>1 DEF SubmitMode, PermitOperatorAction
  <2>. QED
    BY <1>1, <2>1, SubmitModeBuilds DEF BuiltRight
<1>2. CASE SubmitKill(a)
  <2>. DEFINE r == [by |-> "kill", seen |-> mode, target |-> "LOCKED",
                    auth |-> TRUE, ts |-> now, consent |-> None]
  <2>1. r \in Request
    BY DEF Request, TypeOK, SystemMode
  <2>2. BuiltRight(r) /\ r.seen = mode
    BY DEF BuiltRight
  <2>3. MayBegin(a) /\ Build(a, r)
    BY <1>2 DEF SubmitKill
  <2>. QED
    BY <2>1, <2>2, <2>3
<1>3. CASE SubmitUnlock(a)
  <2>. DEFINE r == [by |-> "unlock", seen |-> mode, target |-> "SAFE",
                    auth |-> TRUE, ts |-> now, consent |-> None]
  <2>1. r \in Request
    BY DEF Request, TypeOK, SystemMode
  <2>2. mode = "LOCKED"
    BY <1>3 DEF SubmitUnlock, PermitOperatorAction
  <2>3. BuiltRight(r) /\ r.seen = mode
    BY <2>2 DEF BuiltRight
  <2>4. MayBegin(a) /\ Build(a, r)
    BY <1>3 DEF SubmitUnlock
  <2>. QED
    BY <2>1, <2>3, <2>4
<1>4. CASE ReadForDrift(a)
  <2>. DEFINE r == [by |-> "drift", seen |-> mode, target |-> DowngradeTarget(mode),
                    auth |-> FALSE, ts |-> now, consent |-> None]
  <2>1. r \in Request
    BY DowngradeTargetIsMode DEF Request, TypeOK
  <2>2. BuiltRight(r) /\ r.seen = mode
    BY <1>4 DEF BuiltRight, ReadForDrift
  <2>3. MayBegin(a) /\ Build(a, r)
    BY <1>4 DEF ReadForDrift
  <2>. QED
    BY <2>1, <2>2, <2>3
<1>. QED
  BY <1>1, <1>2, <1>3, <1>4

\* The request a hazard proposes.
HazardRequest == [by |-> "hazard", seen |-> mode, target |-> "LOCKED", auth |-> TRUE,
                  ts |-> now, consent |-> None]

LEMMA HazardBuilds == ASSUME TypeOK PROVE HazardRequest \in Request
BY DEF HazardRequest, Request, TypeOK, SystemMode

\* The shape of a step, for the proofs below: a caller builds a request, a
\* request is executed, refused or interrupted, or the environment moves.
LEMMA StepCases ==
  ASSUME TypeOK, [Next]_vars
  PROVE  \/ \E a \in Actors, r \in Request :
              MayBegin(a) /\ r.seen = mode /\ BuiltRight(r) /\ Build(a, r)
         \/ \E a \in Actors : /\ pending[a] \in Request /\ Approved(pending[a])
                              /\ Execute(pending[a]) /\ Clear(a)
         \/ \E a \in Actors : ProposeRejected(a)
         \/ \E a \in Actors : pending[a] \in Request /\ ProposeRaises(a)
         \/ HazardLock /\ Approved(HazardRequest) /\ Execute(HazardRequest)
         \/ EditGateFile \/ Tick \/ Restart \/ UNCHANGED vars
<1>1. ASSUME NEW a \in Workers, SubmitMode(a) \/ SubmitKill(a) \/ SubmitUnlock(a)
      PROVE  \E b \in Actors, r \in Request :
               MayBegin(b) /\ r.seen = mode /\ BuiltRight(r) /\ Build(b, r)
  BY <1>1, CallerBuilds
<1>2. ASSUME NEW d \in Drifters, ReadForDrift(d)
      PROVE  \E b \in Actors, r \in Request :
               MayBegin(b) /\ r.seen = mode /\ BuiltRight(r) /\ Build(b, r)
  BY <1>2, CallerBuilds
<1>3. ASSUME NEW a \in Actors, pending[a] # None
      PROVE  pending[a] \in Request
  BY <1>3 DEF TypeOK
<1>4. ASSUME NEW a \in Actors, Propose(a)
      PROVE  \/ \E b \in Actors : /\ pending[b] \in Request /\ Approved(pending[b])
                                  /\ Execute(pending[b]) /\ Clear(b)
             \/ \E b \in Actors : ProposeRejected(b)
             \/ \E b \in Actors : pending[b] \in Request /\ ProposeRaises(b)
  BY <1>3, <1>4 DEF Propose, ProposeApproved, ProposeRaises
<1>5. HazardLock => Approved(HazardRequest) /\ Execute(HazardRequest)
  BY DEF HazardLock, HazardRequest
<1>. QED
  BY <1>1, <1>2, <1>4, <1>5 DEF Next

-----------------------------------------------------------------------------
\* Every reachable state is well typed: the ring holds nonces, the ledger its
\* rows, the pending calls typed requests (ModeControl's TypeOK).
THEOREM TypeCorrect == Spec => []TypeOK
<1>1. Init => TypeOK
  BY DEF Init, TypeOK, SystemMode
<1>2. TypeOK /\ [Next]_vars => TypeOK'
  <2>. SUFFICES ASSUME TypeOK, [Next]_vars PROVE TypeOK'
    OBVIOUS
  <2>1. ASSUME NEW a \in Actors, NEW r \in Request, Build(a, r) PROVE TypeOK'
    BY <2>1, BuildTyped
  <2>2. ASSUME NEW a \in Actors, pending[a] \in Request, Approved(pending[a]),
               Execute(pending[a]), Clear(a)
        PROVE  TypeOK'
    BY <2>2, ExecuteTyped, ClearTyped
  <2>3. ASSUME NEW a \in Actors, ProposeRejected(a) PROVE TypeOK'
    BY <2>3, ClearTyped DEF ProposeRejected, TypeOK
  <2>4. ASSUME NEW a \in Actors, pending[a] \in Request, ProposeRaises(a)
        PROVE  TypeOK'
    BY <2>4, RaisesTyped, ClearTyped DEF ProposeRaises
  <2>5. CASE HazardLock /\ Approved(HazardRequest) /\ Execute(HazardRequest)
    <3>1. pending' \in [Actors -> Request \cup {None}]
      BY <2>5 DEF HazardLock, TypeOK
    <3>. QED
      BY <2>5, <3>1, ExecuteTyped, HazardBuilds
  <2>6. CASE EditGateFile
    BY <2>6 DEF EditGateFile, TypeOK
  <2>7. CASE Tick
    BY <2>7 DEF Tick, TypeOK
  <2>8. CASE Restart
    <3>1. mark' \in Nat /\ boots' \in Nat
      BY <2>8 DEF Restart, TypeOK
    <3>. QED
      BY <2>8, <3>1 DEF Restart, TypeOK, SystemMode
  <2>9. CASE UNCHANGED vars
    BY <2>9 DEF TypeOK
  <2>. QED
    BY <2>1, <2>2, <2>3, <2>4, <2>5, <2>6, <2>7, <2>8, <2>9, StepCases
<1>. QED
  BY <1>1, <1>2, PTL DEF Spec
-----------------------------------------------------------------------------
(* What a step does to the state the ledger invariants are about.          *)

\* The steps that touch neither the mode nor the ledger nor the gates.
Quiet == UNCHANGED <<mode, ring, bound, policy, ledger, boots, fresh, mark, paperFile>>

LEMMA QuietSteps ==
  /\ \A a, r : Build(a, r) => Quiet
  /\ \A a : ProposeRejected(a) => Quiet
  /\ EditGateFile => Quiet
  /\ Tick => Quiet
  /\ UNCHANGED vars => Quiet
BY DEF Quiet, Build, ProposeRejected, EditGateFile, Tick

\* A step is quiet, executes a request, is interrupted, or is a restart.
LEMMA EffectCases ==
  ASSUME TypeOK, [Next]_vars
  PROVE  \/ Quiet
         \/ \E r \in Request : Approved(r) /\ Execute(r)
         \/ \E r \in Request : /\ LedgerFaults /\ Approved(r)
                               /\ LoseConsentRow(r) \/ LoseMoveRow(r) \/ LoseBoundRow(r)
         \/ Restart
<1>1. \A a : pending[a] \in Request /\ ProposeRaises(a)
        => \E r \in Request : /\ LedgerFaults /\ Approved(r)
                              /\ LoseConsentRow(r) \/ LoseMoveRow(r) \/ LoseBoundRow(r)
  BY DEF ProposeRaises
<1>. QED
  BY <1>1, StepCases, QuietSteps, HazardBuilds

-----------------------------------------------------------------------------
\* The mode in memory is the one the ledger's latest MODE_TRANSITION row names,
\* and the bound hash the one its latest PROMOTION_GATES_BOUND row names, even
\* when appends raise: propose writes each row before the state it describes.
THEOREM LedgerConsistent == Spec => [](LedgerAgrees /\ BoundIsAnchored)
<1>. DEFINE I == LedgerAgrees /\ BoundIsAnchored
<1>1. Init => I
  BY DEF Init, LedgerAgrees, BoundIsAnchored
<1>2. TypeOK /\ I /\ [Next]_vars => I'
  <2>. SUFFICES ASSUME TypeOK, I, [Next]_vars PROVE I'
    OBVIOUS
  <2>1. CASE Quiet
    BY <2>1 DEF Quiet, LedgerAgrees, BoundIsAnchored
  <2>2. ASSUME NEW r \in Request, Execute(r) PROVE I'
    BY <2>2 DEF Execute, FlipMode, BindGates, LedgerAgrees, BoundIsAnchored
  <2>3. ASSUME NEW r \in Request, LoseConsentRow(r) PROVE I'
    BY <2>3 DEF LoseConsentRow, LedgerAgrees, BoundIsAnchored
  <2>4. ASSUME NEW r \in Request, LoseMoveRow(r) PROVE I'
    BY <2>4 DEF LoseMoveRow, LedgerAgrees, BoundIsAnchored
  <2>5. ASSUME NEW r \in Request, LoseBoundRow(r) PROVE I'
    BY <2>5 DEF LoseBoundRow, FlipMode, LedgerAgrees, BoundIsAnchored
  <2>6. CASE Restart
    BY <2>6 DEF Restart, LedgerAgrees, BoundIsAnchored
  <2>. QED
    BY <2>1, <2>2, <2>3, <2>4, <2>5, <2>6, EffectCases
<1>. QED
  BY <1>1, <1>2, TypeCorrect, PTL DEF Spec

\* Of that, the hash alone: what the gates compare with was anchored last.
THEOREM BoundStaysAnchored == Spec => []BoundIsAnchored
  BY LedgerConsistent, PTL

-----------------------------------------------------------------------------
(* Consents.                                                               *)

\* The consent row written with an approved move over a consent edge backs it.
LEMMA ApprovedConsentBacks ==
  ASSUME TypeOK, NEW r \in Request, Approved(r), EdgeRequiresConsent(mode, r.target)
  PROVE  /\ r.consent.from = mode /\ r.consent.to = r.target
         /\ r.consent.hash = policy
         /\ r.consent.ts <= r.ts /\ r.ts <= r.consent.ts + FreshnessWindow
<1>1. r.consent \in Consent /\ ConsentValid(r.consent, r.ts, mode, r.target)
  BY ApprovedHasConsent DEF Approved
<1>2. r.consent.ts \in Nat /\ r.ts \in Nat
  BY <1>1 DEF Consent, Request
<1>. QED
  BY <1>1, <1>2, NumbersAssumption DEF ConsentValid

\* From a mode entered over a consent edge no consent edge leads on.
LEMMA ConsentEdgesApart ==
  \A p, m, t : EdgeRequiresConsent(p, m) => ~EdgeRequiresConsent(m, t)
BY DEF EdgeRequiresConsent, ConsentRequiredEdges

\* A move over a consent edge that is the latest one is backed by the latest
\* consent row (ConsentBacksMove), whatever appends raise and however the
\* callers interleave.
THEOREM ConsentBacked == Spec => []ConsentBacksMove
<1>1. Init => ConsentBacksMove
  BY DEF Init, ConsentBacksMove
<1>2. TypeOK /\ LedgerAgrees /\ mark <= Len(consents) /\ ConsentBacksMove /\ [Next]_vars
        => ConsentBacksMove'
  <2>. SUFFICES ASSUME TypeOK, LedgerAgrees, mark <= Len(consents), ConsentBacksMove,
                       [Next]_vars
                PROVE  ConsentBacksMove'
    OBVIOUS
  <2>1. CASE Quiet
    BY <2>1 DEF Quiet, ConsentBacksMove
  <2>2. ASSUME NEW r \in Request, Approved(r), WriteConsentRow(r), FlipMode(r),
               UNCHANGED <<policy, mark>>
        PROVE  ConsentBacksMove'
    <3>1. lastMove'.prev = mode /\ lastMove'.new = r.target
      BY <2>2 DEF FlipMode
    <3>2. SUFFICES ASSUME EdgeRequiresConsent(mode, r.target)
                   PROVE  ConsentBacksMove'
      BY <3>1 DEF ConsentBacksMove
    <3>3. consents' = Append(consents, [consent |-> r.consent, at |-> r.ts])
      BY <2>2, <3>2 DEF WriteConsentRow
    <3>4. /\ Len(consents') = Len(consents) + 1
          /\ consents'[Len(consents')] = [consent |-> r.consent, at |-> r.ts]
      BY <3>3 DEF TypeOK
    <3>5. Len(consents') > mark'
      BY <2>2, <3>4 DEF TypeOK
    <3>. QED
      BY <2>2, <3>1, <3>2, <3>4, <3>5, ApprovedConsentBacks DEF ConsentBacksMove
  <2>3. ASSUME NEW r \in Request, Approved(r), LoseConsentRow(r)
        PROVE  ConsentBacksMove'
    BY <2>3 DEF LoseConsentRow, ConsentBacksMove
  <2>4. ASSUME NEW r \in Request, Approved(r), LoseMoveRow(r)
        PROVE  ConsentBacksMove'
    <3>1. CASE EdgeRequiresConsent(mode, r.target)
      <4>1. ~(~fresh /\ EdgeRequiresConsent(lastMove.prev, lastMove.new))
        BY <3>1, ConsentEdgesApart DEF LedgerAgrees
      <4>. QED
        BY <2>4, <4>1 DEF LoseMoveRow, ConsentBacksMove
    <3>2. CASE ~EdgeRequiresConsent(mode, r.target)
      BY <2>4, <3>2 DEF LoseMoveRow, WriteConsentRow, ConsentBacksMove
    <3>. QED
      BY <3>1, <3>2
  <2>5. CASE Restart
    BY <2>5 DEF Restart, ConsentBacksMove
  <2>. QED
    BY <2>1, <2>2, <2>3, <2>4, <2>5, EffectCases DEF Execute, LoseBoundRow
<1>3. Spec => [](mark <= Len(consents))
  <2>1. Init => mark <= Len(consents)
    BY DEF Init
  <2>2. TypeOK /\ mark <= Len(consents) /\ [Next]_vars => (mark <= Len(consents))'
    <3>. SUFFICES ASSUME TypeOK, mark <= Len(consents), [Next]_vars
                  PROVE  mark' <= Len(consents')
      OBVIOUS
    <3>1. ASSUME NEW r \in Request, Approved(r), WriteConsentRow(r)
          PROVE  Len(consents') >= Len(consents)
      BY <3>1 DEF WriteConsentRow, TypeOK
    <3>2. CASE Quiet
      BY <3>2 DEF Quiet
    <3>3. ASSUME NEW r \in Request, Approved(r), WriteConsentRow(r), mark' = mark
          PROVE  mark' <= Len(consents')
      BY <3>1, <3>3, EffectsTyped DEF TypeOK
    <3>4. ASSUME NEW r, LoseConsentRow(r) PROVE mark' <= Len(consents')
      BY <3>4 DEF LoseConsentRow
    <3>5. CASE Restart
      BY <3>5 DEF Restart, TypeOK
    <3>. QED
      BY <3>2, <3>3, <3>4, <3>5, EffectCases DEF Execute, LoseMoveRow, LoseBoundRow
  <2>. QED
    BY <2>1, <2>2, TypeCorrect, PTL DEF Spec
<1>. QED
  BY <1>1, <1>2, <1>3, TypeCorrect, LedgerConsistent, PTL DEF Spec
-----------------------------------------------------------------------------
(* Nonces.  While no append raises, the ring is the tail of the nonces     *)
(* accepted since the process started.                                     *)

RingIsTail ==
  /\ mark <= Len(consents)
  /\ Len(ring) <= NonceCapacity
  /\ Len(ring) <= Len(consents) - mark
  /\ Len(ring) < NonceCapacity => Len(ring) = Len(consents) - mark
  /\ \A k \in 1..Len(ring) :
       ring[k] = consents[Len(consents) - Len(ring) + k].consent.nonce

\* Accepting one more consent keeps the ring the tail of the accepted ones.
LEMMA RingStep ==
  ASSUME TypeOK, RingIsTail, NEW n \in Nonces, RegisterNonce(n),
         NEW row \in ConsentRow, row.consent.nonce = n,
         consents' = Append(consents, row), mark' = mark
  PROVE  RingIsTail'
<1>. DEFINE L == Len(ring)
            C == Len(consents)
<1>1. /\ L \in Nat /\ C \in Nat /\ mark \in Nat /\ NonceCapacity \in Nat \ {0}
      /\ Len(consents') = C + 1
      /\ consents'[C + 1] = row
      /\ \A i \in 1..C : consents'[i] = consents[i]
  BY NumbersAssumption DEF TypeOK
<1>2. CASE L < NonceCapacity
  <2>1. /\ Len(ring') = L + 1
        /\ ring'[L + 1] = n
        /\ \A k \in 1..L : ring'[k] = ring[k]
    BY <1>2 DEF RegisterNonce, TypeOK
  <2>2. ASSUME NEW k \in 1..L + 1
        PROVE  ring'[k] = consents'[C + 1 - (L + 1) + k].consent.nonce
    <3>1. CASE k = L + 1
      BY <1>1, <2>1, <3>1
    <3>0. k = L + 1 \/ k \in 1..L
      BY <1>1
    <3>2. CASE k \in 1..L
      <4>1. C - L + k \in 1..C
        BY <1>1, <3>2 DEF RingIsTail
      <4>. QED
        BY <1>1, <2>1, <3>2, <4>1 DEF RingIsTail
    <3>. QED
      BY <3>0, <3>1, <3>2
  <2>3. /\ mark' <= Len(consents') /\ Len(ring') <= NonceCapacity
        /\ Len(ring') <= Len(consents') - mark'
        /\ Len(ring') = Len(consents') - mark'
    BY <1>1, <1>2, <2>1 DEF RingIsTail
  <2>4. \A k \in 1..Len(ring') :
          ring'[k] = consents'[Len(consents') - Len(ring') + k].consent.nonce
    <3>. SUFFICES ASSUME NEW k \in 1..Len(ring')
                  PROVE  ring'[k] = consents'[Len(consents') - Len(ring') + k].consent.nonce
      OBVIOUS
    <3>1. k \in 1..L + 1 /\ Len(consents') - Len(ring') + k = C + 1 - (L + 1) + k
      BY <1>1, <2>1
    <3>. QED
      BY <2>2, <3>1
  <2>. QED
    BY <2>3, <2>4 DEF RingIsTail
<1>3. CASE L = NonceCapacity
  <2>1. /\ Len(ring') = L
        /\ ring'[L] = n
        /\ \A k \in 1..L - 1 : ring'[k] = ring[k + 1]
    <3>1. ring' = Append(Tail(ring), n) /\ L > 0
      BY <1>1, <1>3 DEF RegisterNonce
    <3>2. /\ Tail(ring) \in Seq(Nonces) /\ Len(Tail(ring)) = L - 1
          /\ \A k \in 1..L - 1 : Tail(ring)[k] = ring[k + 1]
      BY <3>1 DEF TypeOK
    <3>. QED
      BY <1>1, <3>1, <3>2
  <2>2. ASSUME NEW k \in 1..L
        PROVE  ring'[k] = consents'[C + 1 - L + k].consent.nonce
    <3>1. CASE k = L
      BY <1>1, <2>1, <3>1
    <3>0. k = L \/ k \in 1..L - 1
      BY <1>1
    <3>2. CASE k \in 1..L - 1
      <4>1. k + 1 \in 1..L /\ C - L + (k + 1) \in 1..C /\ C - L + (k + 1) = C + 1 - L + k
        BY <1>1, <3>2 DEF RingIsTail
      <4>2. ring[k + 1] = consents[C - L + (k + 1)].consent.nonce
        BY <4>1 DEF RingIsTail
      <4>. QED
        BY <1>1, <2>1, <3>2, <4>1, <4>2
    <3>. QED
      BY <3>0, <3>1, <3>2
  <2>3. /\ mark' <= Len(consents') /\ Len(ring') <= NonceCapacity
        /\ Len(ring') <= Len(consents') - mark'
        /\ ~(Len(ring') < NonceCapacity)
    BY <1>1, <1>3, <2>1 DEF RingIsTail
  <2>4. \A k \in 1..Len(ring') :
          ring'[k] = consents'[Len(consents') - Len(ring') + k].consent.nonce
    <3>. SUFFICES ASSUME NEW k \in 1..Len(ring')
                  PROVE  ring'[k] = consents'[Len(consents') - Len(ring') + k].consent.nonce
      OBVIOUS
    <3>1. k \in 1..L /\ Len(consents') - Len(ring') + k = C + 1 - L + k
      BY <1>1, <2>1
    <3>. QED
      BY <2>2, <3>1
  <2>. QED
    BY <2>3, <2>4 DEF RingIsTail
<1>4. L <= NonceCapacity
  BY DEF RingIsTail
<1>. QED
  BY <1>1, <1>2, <1>3, <1>4

\* A nonce that is not in the ring was last accepted NonceCapacity or more
\* acceptances ago, or before this process started.
LEMMA SpacingStep ==
  ASSUME TypeOK, RingIsTail, NonceSpacing, NEW row \in ConsentRow,
         \A k \in 1..Len(ring) : ring[k] # row.consent.nonce,
         consents' = Append(consents, row), mark' = mark
  PROVE  NonceSpacing'
<1>. DEFINE L == Len(ring)
            C == Len(consents)
<1>1. /\ L \in Nat /\ C \in Nat /\ mark \in Nat /\ NonceCapacity \in Nat \ {0}
      /\ Len(consents') = C + 1
      /\ consents'[C + 1] = row
      /\ \A i \in 1..C : consents'[i] = consents[i]
  BY NumbersAssumption DEF TypeOK
<1>. SUFFICES ASSUME NEW i \in mark + 1 .. C + 1, NEW j \in mark + 1 .. C + 1,
                     i < j, consents'[i].consent.nonce = consents'[j].consent.nonce
              PROVE  j - i > NonceCapacity
  BY <1>1 DEF NonceSpacing
<1>2. CASE j <= C
  BY <1>1, <1>2 DEF NonceSpacing
<1>3. CASE j = C + 1
  <2>1. consents[i].consent.nonce = row.consent.nonce /\ i \in 1..C
    BY <1>1, <1>3
  <2>2. ~(i > C - L)
    <3>. SUFFICES ASSUME i > C - L PROVE FALSE
      OBVIOUS
    <3>1. i - (C - L) \in 1..L /\ C - L + (i - (C - L)) = i
      BY <1>1, <2>1
    <3>2. ring[i - (C - L)] = consents[i].consent.nonce
      BY <3>1 DEF RingIsTail
    <3>. QED
      BY <2>1, <3>1, <3>2
  <2>3. L = NonceCapacity
    BY <1>1, <2>2 DEF RingIsTail
  <2>. QED
    BY <1>1, <1>3, <2>2, <2>3
<1>. QED
  BY <1>1, <1>2, <1>3

\* While no append raises, one process accepts a nonce again only after
\* NonceCapacity other consents, for every ring capacity.
THEOREM NoncesSpaced ==
  ASSUME LedgerFaults = FALSE
  PROVE  Spec => []NonceSpacing
<1>. DEFINE I == RingIsTail /\ NonceSpacing
<1>1. Init => I
  BY NumbersAssumption DEF Init, RingIsTail, NonceSpacing
<1>2. TypeOK /\ I /\ [Next]_vars => I'
  <2>. SUFFICES ASSUME TypeOK, I, [Next]_vars PROVE I'
    OBVIOUS
  <2>1. CASE Quiet
    BY <2>1 DEF Quiet, RingIsTail, NonceSpacing
  <2>2. ASSUME NEW r \in Request, Approved(r), Execute(r) PROVE I'
    <3>1. CASE EdgeRequiresConsent(mode, r.target)
      <4>. DEFINE row == [consent |-> r.consent, at |-> r.ts]
      <4>1. r.consent \in Consent /\ r.consent.nonce \in Nonces
        BY <2>2, <3>1, ApprovedHasConsent DEF Consent
      <4>2. row \in ConsentRow
        BY <4>1 DEF ConsentRow, Request
      <4>3. RegisterNonce(r.consent.nonce) /\ consents' = Append(consents, row) /\ mark' = mark
        BY <2>2, <3>1 DEF Execute, CommitNonce, WriteConsentRow
      <4>4. \A k \in 1..Len(ring) : ring[k] # row.consent.nonce
        BY <2>2, <3>1 DEF Approved, ConsentValid
      <4>5. RingIsTail'
        BY <4>1, <4>2, <4>3, RingStep
      <4>6. NonceSpacing'
        BY <4>2, <4>3, <4>4, SpacingStep
      <4>. QED
        BY <4>5, <4>6
    <3>2. CASE ~EdgeRequiresConsent(mode, r.target)
      <4>1. UNCHANGED <<ring, consents, mark>>
        BY <2>2, <3>2 DEF Execute, CommitNonce, WriteConsentRow
      <4>. QED
        BY <4>1 DEF RingIsTail, NonceSpacing
    <3>. QED
      BY <3>1, <3>2
  <2>3. CASE Restart
    <3>1. ring' = <<>> /\ consents' = consents /\ mark' = Len(consents)
      BY <2>3 DEF Restart
    <3>2. Len(ring') = 0 /\ Len(consents) \in Nat
      BY <3>1 DEF TypeOK
    <3>3. RingIsTail'
      BY <3>1, <3>2, NumbersAssumption DEF RingIsTail
    <3>4. NonceSpacing'
      BY <3>1, <3>2 DEF NonceSpacing
    <3>. QED
      BY <3>3, <3>4
  <2>. QED
    BY <2>1, <2>2, <2>3, EffectCases
<1>. QED
  BY <1>1, <1>2, TypeCorrect, PTL DEF Spec
-----------------------------------------------------------------------------
(* The promotion gates.                                                    *)

\* Above SAFE the bound hash is that of the file at the last PAPER entry.
GatesHold ==
  /\ gateFile # None
  /\ mode \in {"PAPER"} \cup GatedTargets => bound = paperFile

\* With the gates wired, and neither a lost row nor a lost file, every step up
\* into CANARY, LIVE or AUTO happens under the document of record of the last
\* PAPER entry (PromotedUnderPaperFile).
THEOREM PromotedUnderAnchor ==
  ASSUME GatesWired = TRUE, LedgerFaults = FALSE, FileLoss = FALSE
  PROVE  Spec => PromotedUnderPaperFile
<1>1. Init => GatesHold
  BY ValuesAssumption DEF Init, GatesHold, GatedTargets
<1>2. TypeOK /\ GatesHold /\ [Next]_vars => GatesHold'
  <2>. SUFFICES ASSUME TypeOK, GatesHold, [Next]_vars PROVE GatesHold'
    OBVIOUS
  <2>1. gateFile' # None
    <3>1. EditGateFile => gateFile' # None
      BY ValuesAssumption DEF EditGateFile, GatesHold
    <3>. QED
      BY <3>1, StepCases DEF Build, Execute, ProposeRejected, ProposeRaises, Tick, Restart,
                             GatesHold
  <2>2. CASE Quiet
    BY <2>1, <2>2 DEF Quiet, GatesHold
  <2>3. ASSUME NEW r \in Request, Approved(r), Execute(r) PROVE GatesHold'
    <3>1. CASE r.target = "PAPER"
      BY <2>1, <2>3, <3>1 DEF Execute, FlipMode, BindGates, GatesHold
    <3>2. CASE r.target \in GatedTargets
      <4>1. bound' = bound /\ paperFile' = paperFile /\ mode' = r.target
        BY <2>3, <3>2 DEF Execute, FlipMode, BindGates, GatedTargets
      <4>2. mode \in {"PAPER"} \cup GatedTargets
        BY <2>3, <3>2 DEF Approved, IsLegalEdge, IsForward, IsBackward, ChainIndex,
                          ForwardChain, SystemMode, GatedTargets, TypeOK
      <4>. QED
        BY <2>1, <4>1, <4>2 DEF GatesHold
    <3>3. CASE r.target \notin {"PAPER"} \cup GatedTargets
      BY <2>1, <2>3, <3>3 DEF Execute, FlipMode, GatesHold
    <3>. QED
      BY <3>1, <3>2, <3>3
  <2>4. CASE Restart
    BY <2>1, <2>4 DEF Restart, GatesHold, GatedTargets
  <2>. QED
    BY <2>2, <2>3, <2>4, EffectCases
<1>3. TypeOK /\ GatesHold /\ [Next]_vars
        => [mode' \in GatedTargets /\ IsForward(mode, mode') => gateFile = paperFile]_vars
  <2>. SUFFICES ASSUME TypeOK, GatesHold, [Next]_vars,
                       mode' \in GatedTargets, IsForward(mode, mode')
                PROVE  gateFile = paperFile
    OBVIOUS
  <2>1. mode \in {"PAPER"} \cup GatedTargets /\ mode' # mode
    BY DEF IsForward, ChainIndex, ForwardChain, SystemMode, GatedTargets
  <2>2. PICK r \in Request : Approved(r) /\ Execute(r)
    BY <2>1, EffectCases DEF Quiet, Restart, GatedTargets
  <2>3. r.target \in GatedTargets
    BY <2>2 DEF Execute, FlipMode
  <2>4. gateFile = bound
    BY <2>2, <2>3 DEF Approved, GatesAdmit
  <2>. QED
    BY <2>1, <2>4 DEF GatesHold
<1>. QED
  BY <1>1, <1>2, <1>3, TypeCorrect, PTL DEF Spec, PromotedUnderPaperFile

-----------------------------------------------------------------------------
(* Callers that all hold STATE.lock.                                       *)

\* At most one call is between its read and its proposal, what it read is
\* still true, and its request is one its caller builds.
OneCallAtATime ==
  \A a \in Actors : pending[a] # None =>
    /\ pending[a].seen = mode
    /\ BuiltRight(pending[a])
    /\ \A b \in Actors : pending[b] # None => b = a

LEMMA OneCallInvariant ==
  ASSUME Serialised = Actors
  PROVE  Spec => []OneCallAtATime
<1>1. Init => OneCallAtATime
  BY DEF Init, OneCallAtATime
<1>2. TypeOK /\ OneCallAtATime /\ [Next]_vars => OneCallAtATime'
  <2>. SUFFICES ASSUME TypeOK, OneCallAtATime, [Next]_vars PROVE OneCallAtATime'
    OBVIOUS
  <2>1. ASSUME NEW a \in Actors, NEW r \in Request,
               MayBegin(a), r.seen = mode, BuiltRight(r), Build(a, r)
        PROVE  OneCallAtATime'
    <3>1. \A b \in Actors : pending[b] = None
      BY <2>1 DEF MayBegin
    <3>2. pending' = [pending EXCEPT ![a] = r] /\ mode' = mode
      BY <2>1 DEF Build
    <3>3. \A b \in Actors : pending'[b] = IF b = a THEN r ELSE None
      BY <3>1, <3>2 DEF TypeOK
    <3>4. BuiltRight(r)' <=> BuiltRight(r)
      BY DEF BuiltRight
    <3>. QED
      BY <2>1, <3>2, <3>3 DEF OneCallAtATime, BuiltRight
  <2>2. ASSUME NEW a \in Actors, pending[a] # None, Clear(a) PROVE OneCallAtATime'
    <3>1. \A b \in Actors : pending'[b] = None
      BY <2>2 DEF Clear, OneCallAtATime, TypeOK
    <3>. QED
      BY <3>1 DEF OneCallAtATime
  <2>3. ASSUME NEW a \in Actors, ProposeRejected(a) PROVE OneCallAtATime'
    BY <2>2, <2>3 DEF ProposeRejected
  <2>4. ASSUME NEW a \in Actors, ProposeRaises(a) PROVE OneCallAtATime'
    BY <2>2, <2>4 DEF ProposeRaises
  <2>5. CASE HazardLock
    <3>1. \A b \in Actors : pending[b] = None /\ pending' = pending
      BY <2>5 DEF HazardLock
    <3>. QED
      BY <3>1 DEF OneCallAtATime
  <2>6. CASE Restart
    BY <2>6 DEF Restart, OneCallAtATime
  <2>7. CASE EditGateFile \/ Tick \/ UNCHANGED vars
    <3>1. pending' = pending /\ mode' = mode
      BY <2>7 DEF EditGateFile, Tick
    <3>. QED
      BY <3>1 DEF OneCallAtATime, BuiltRight
  <2>. QED
    BY <2>1, <2>2, <2>3, <2>4, <2>5, <2>6, <2>7, NoneAssumption, StepCases
<1>. QED
  BY <1>1, <1>2, TypeCorrect, PTL DEF Spec

\* When every caller holds STATE.lock, the mode stamped in a request is the
\* mode it is decided in (SeenIsCurrent).
THEOREM RequestsAreCurrent ==
  ASSUME Serialised = Actors
  PROVE  Spec => []SeenIsCurrent
<1>1. OneCallAtATime => SeenIsCurrent
  BY DEF OneCallAtATime, SeenIsCurrent
<1>. QED
  BY <1>1, OneCallInvariant, PTL

\* When every caller holds STATE.lock, a locked system leaves LOCKED only by an
\* operator's unlock or by starting again (LockedLeftOnlyByUnlock), and the drift
\* oracle only moves the mode back (DriftOnlyDowngrades).
THEOREM SerialisedCallersBehave ==
  ASSUME Serialised = Actors
  PROVE  Spec => LockedLeftOnlyByUnlock /\ DriftOnlyDowngrades
<1>. DEFINE Kept == mode = "LOCKED" /\ mode' # "LOCKED" => fresh' \/ lastMove'.by = "unlock"
            Back == mode' # mode /\ ~fresh' /\ lastMove'.by = "drift" => IsBackward(mode, mode')
<1>1. TypeOK /\ OneCallAtATime /\ [Next]_vars => Kept /\ Back
  <2>. SUFFICES ASSUME TypeOK, OneCallAtATime, [Next]_vars PROVE Kept /\ Back
    OBVIOUS
  <2>1. ASSUME NEW r \in Request, Approved(r), FlipMode(r), r.seen = mode, BuiltRight(r)
        PROVE  Kept /\ Back
    <3>1. mode' = r.target /\ lastMove'.by = r.by
      BY <2>1 DEF FlipMode
    <3>2. Kept
      BY <2>1, <3>1 DEF BuiltRight, DriftScope, Request
    <3>3. Back
      BY <2>1, <3>1 DEF BuiltRight, DriftScope, DowngradeTarget, IsBackward, ForwardChain,
                        SystemMode, ChainIndex
    <3>. QED
      BY <3>2, <3>3
  <2>2. ASSUME NEW a \in Actors, pending[a] \in Request, Approved(pending[a]),
               Execute(pending[a])
        PROVE  Kept /\ Back
    BY <2>1, <2>2, NoneAssumption DEF Execute, OneCallAtATime
  <2>3. ASSUME NEW a \in Actors, pending[a] \in Request, ProposeRaises(a)
        PROVE  Kept /\ Back
    <3>1. CASE LoseBoundRow(pending[a])
      BY <2>1, <2>3, <3>1, NoneAssumption DEF LoseBoundRow, ProposeRaises, OneCallAtATime
    <3>2. CASE LoseConsentRow(pending[a]) \/ LoseMoveRow(pending[a])
      BY <3>2 DEF LoseConsentRow, LoseMoveRow
    <3>. QED
      BY <2>3, <3>1, <3>2 DEF ProposeRaises
  <2>4. CASE Execute(HazardRequest)
    BY <2>4 DEF Execute, FlipMode, HazardRequest
  <2>5. CASE Quiet
    BY <2>5 DEF Quiet
  <2>6. CASE Restart
    BY <2>6 DEF Restart
  <2>. QED
    BY <2>2, <2>3, <2>4, <2>5, <2>6, StepCases, QuietSteps
<1>2. TypeOK /\ OneCallAtATime /\ [Next]_vars => [Kept]_vars /\ [Back]_vars
  BY <1>1
<1>. QED
  BY <1>2, TypeCorrect, OneCallInvariant, PTL
     DEF Spec, LockedLeftOnlyByUnlock, DriftOnlyDowngrades

\* Under one call at a time each executed request is a step of the ratchet.
LEMMA ExecutedIsRatchetStep ==
  ASSUME TypeOK, NEW r \in Request, Approved(r), FlipMode(r),
         r = HazardRequest \/ (r.seen = mode /\ BuiltRight(r))
  PROVE  Ratchet!Next
<1>. DEFINE mover == IF fresh THEN "boot" ELSE lastMove.by
            moverNext == IF fresh' THEN "boot" ELSE lastMove'.by
<1>1. mode' = r.target /\ moverNext = r.by /\ mode' \in SystemMode
  BY DEF FlipMode, Request
<1>2. IsLegalEdge(mode, r.target)
  BY DEF Approved
<1>3. r.by \in {"operator", "kill", "unlock", "drift", "hazard"}
  BY DEF Request
<1>4. CASE r.by \in {"kill", "hazard"}
  <2>1. mode # "LOCKED" /\ mode' = "LOCKED"
    BY <1>1, <1>2, <1>4 DEF HazardRequest, BuiltRight, IsLegalEdge
  <2>2. Ratchet!Lock
    BY <1>1, <1>4, <2>1 DEF Ratchet!Lock
  <2>. QED
    BY <2>2 DEF Ratchet!Next
<1>5. CASE r.by = "unlock"
  <2>1. mode = "LOCKED" /\ mode' = "SAFE"
    BY <1>1, <1>5 DEF HazardRequest, BuiltRight
  <2>2. Ratchet!Release
    BY <1>1, <1>5, <2>1 DEF Ratchet!Release
  <2>. QED
    BY <2>2 DEF Ratchet!Next
<1>6. CASE r.by = "drift"
  <2>1. mode \in DriftScope /\ mode' = DowngradeTarget(mode)
    BY <1>1, <1>6 DEF HazardRequest, BuiltRight
  <2>2. Ratchet!Downgrade
    BY <1>1, <1>6, <2>1 DEF Ratchet!Downgrade, Ratchet!DriftScope, Ratchet!DowngradeTarget,
                            DriftScope, DowngradeTarget
  <2>. QED
    BY <2>2 DEF Ratchet!Next
<1>7. CASE r.by = "operator"
  <2>1. mode # "LOCKED"
    BY <1>7 DEF HazardRequest, BuiltRight
  <2>2. CASE r.target = "LOCKED"
    BY <1>1, <1>7, <2>1, <2>2 DEF Ratchet!Lock, Ratchet!Next
  <2>3. CASE IsForward(mode, r.target)
    BY <1>1, <1>7, <2>3 DEF Ratchet!Climb, Ratchet!Next, Ratchet!SystemMode, SystemMode,
         Ratchet!IsForward, IsForward, Ratchet!ForwardChain, ForwardChain,
         Ratchet!ChainIndex, ChainIndex
  <2>4. CASE IsBackward(mode, r.target)
    BY <1>1, <1>7, <2>4 DEF Ratchet!Descend, Ratchet!Next, Ratchet!SystemMode, SystemMode,
         Ratchet!IsBackward, IsBackward, Ratchet!ForwardChain, ForwardChain,
         Ratchet!ChainIndex, ChainIndex
  <2>. QED
    BY <1>2, <2>1, <2>2, <2>3, <2>4 DEF IsLegalEdge
<1>. QED
  BY <1>3, <1>4, <1>5, <1>6, <1>7

\* With every caller under STATE.lock the control plane implements the mode
\* ratchet: only an operator climbs, one step at a time; the drift oracle only
\* descends; LOCKED is left by an unlock or a new process.
THEOREM ImplementsRatchet ==
  ASSUME Serialised = Actors
  PROVE  Spec => RatchetSpec
<1>1. Init => Ratchet!Init
  BY DEF Init, Ratchet!Init
<1>2. TypeOK /\ OneCallAtATime /\ [Next]_vars => [Ratchet!Next]_(Ratchet!vars)
  <2>. SUFFICES ASSUME TypeOK, OneCallAtATime, [Next]_vars
                PROVE  Ratchet!Next \/ UNCHANGED Ratchet!vars
    OBVIOUS
  <2>1. ASSUME NEW a \in Actors, pending[a] \in Request, Approved(pending[a]),
               Execute(pending[a])
        PROVE  Ratchet!Next
    BY <2>1, ExecutedIsRatchetStep, NoneAssumption DEF Execute, OneCallAtATime
  <2>2. CASE Approved(HazardRequest) /\ Execute(HazardRequest)
    BY <2>2, ExecutedIsRatchetStep, HazardBuilds DEF Execute
  <2>3. ASSUME NEW a \in Actors, pending[a] \in Request, ProposeRaises(a)
        PROVE  Ratchet!Next \/ UNCHANGED Ratchet!vars
    <3>1. CASE LoseBoundRow(pending[a])
      BY <2>3, <3>1, ExecutedIsRatchetStep, NoneAssumption
         DEF LoseBoundRow, ProposeRaises, OneCallAtATime
    <3>2. CASE LoseConsentRow(pending[a]) \/ LoseMoveRow(pending[a])
      BY <3>2 DEF LoseConsentRow, LoseMoveRow, Ratchet!vars
    <3>. QED
      BY <2>3, <3>1, <3>2 DEF ProposeRaises
  <2>4. CASE Quiet
    BY <2>4 DEF Quiet, Ratchet!vars
  <2>5. CASE Restart
    BY <2>5 DEF Restart, Ratchet!Boot, Ratchet!Next
  <2>. QED
    BY <2>1, <2>2, <2>3, <2>4, <2>5, StepCases, QuietSteps
<1>. QED
  BY <1>1, <1>2, TypeCorrect, OneCallInvariant, PTL DEF Spec, RatchetSpec, Ratchet!Spec
=============================================================================
