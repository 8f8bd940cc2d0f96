-------------------------- MODULE OrderPath_proofs --------------------------
(***************************************************************************)
(* Theorems about OrderPath: they hold for every window table, capacity    *)
(* and bound, with every append of the switches free to raise.             *)
(***************************************************************************)
EXTENDS OrderPath, FiniteSetTheorems, TLAPS

Held(r) == {r[i] : i \in DOMAIN r}

\* Until it overflows, the ring holds everything observed.
RingIsHistory == /\ Len(ring) <= raised
                 /\ raised <= Capacity => observed = Held(ring)

\* While trading is off by the operator's word, neither the gate nor the flag
\* that a flip of the other switch publishes says otherwise.
SwitchesAgree == stopped => ~policy.trading /\ ~flags.trading

IInv == TypeOK /\ RingIsHistory /\ SwitchesAgree

-----------------------------------------------------------------------------

\* Observing keeps a ring a sequence of observations.
LEMMA ObserveType ==
  ASSUME NEW r \in Seq(Observation), NEW obs \in Observation
  PROVE  Observe(r, obs) \in Seq(Observation)
<1>1. CASE Len(r) < Capacity
  <2>1. Append(r, obs) \in Seq(Observation)
    OBVIOUS
  <2> QED
    BY <1>1, <2>1 DEF Observe
<1>2. CASE ~(Len(r) < Capacity)
  <2>1. r # <<>>
    BY <1>2, ThrottleAssumption
  <2>2. Tail(r) \in Seq(Observation)
    BY <2>1
  <2>3. Append(Tail(r), obs) \in Seq(Observation)
    BY <2>2
  <2> QED
    BY <1>2, <2>3 DEF Observe
<1> QED
  BY <1>1, <1>2

\* Below the capacity nothing is evicted.
LEMMA ObserveAppends ==
  ASSUME NEW r \in Seq(Observation), NEW obs \in Observation, Len(r) < Capacity
  PROVE  /\ Len(Observe(r, obs)) = Len(r) + 1
         /\ Held(Observe(r, obs)) = Held(r) \cup {obs}
<1>1. Observe(r, obs) = Append(r, obs)
  BY DEF Observe
<1>2. /\ Len(Append(r, obs)) = Len(r) + 1
      /\ DOMAIN Append(r, obs) = 1 .. Len(r) + 1 /\ DOMAIN r = 1 .. Len(r)
      /\ Append(r, obs)[Len(r) + 1] = obs
      /\ \A i \in 1 .. Len(r) : Append(r, obs)[i] = r[i]
  OBVIOUS
<1> QED
  BY <1>1, <1>2 DEF Held

\* At any length the ring grows by at most one.
LEMMA ObserveLength ==
  ASSUME NEW r \in Seq(Observation), NEW obs \in Observation
  PROVE  Len(Observe(r, obs)) <= Len(r) + 1
BY ThrottleAssumption DEF Observe

LEMMA HazardType == SomeHazard \subseteq Observation
BY OrderPathAssumption DEF SomeHazard, Observation

-----------------------------------------------------------------------------

\* An empty ring holds nothing.
LEMMA EmptyRing ==
  /\ <<>> \in Seq(Observation) /\ Len(<<>>) = 0
  /\ \A r : r = <<>> => Held(r) = {}
BY DEF Held

LEMMA InitInv == Init => IInv
<1> SUFFICES ASSUME Init PROVE IInv
  OBVIOUS
<1>1. TypeOK
  <2>1. policy \in Policy /\ flags \in Policy /\ stopped \in BOOLEAN /\ audited \in BOOLEAN
    BY OrderPathAssumption DEF Init, Booted, Policy
  <2>2. mode \in SystemMode /\ position \in Int /\ now \in Nat /\ raised \in Nat
    BY DEF Init, Booted, SystemMode
  <2>3. batch \in Batch \cup {None} /\ marked \in BOOLEAN
    BY DEF Init, Booted
  <2>4. ring \in Seq(Observation) /\ observed \subseteq Observation
    <3>1. ring = <<>> /\ observed = {}
      BY DEF Init, Booted
    <3> QED
      BY <3>1, EmptyRing
  <2> QED
    BY <2>1, <2>2, <2>3, <2>4 DEF TypeOK
<1>2. RingIsHistory
  BY OrderPathAssumption, EmptyRing DEF Init, Booted, RingIsHistory
<1>3. SwitchesAgree
  BY DEF Init, Booted, SwitchesAgree
<1> QED
  BY <1>1, <1>2, <1>3 DEF IInv

\* The step of a hazard.
LEMMA SenseInv ==
  ASSUME TypeOK, RingIsHistory, NEW obs \in SomeHazard, Sense(obs)
  PROVE  /\ mode' \in SystemMode /\ ring' \in Seq(Observation)
         /\ observed' \subseteq Observation /\ raised' \in Nat
         /\ RingIsHistory'
<1> obs \in Observation
  BY HazardType
<1>1. mode' \in SystemMode
  BY DEF Sense, TypeOK, SystemMode
<1>2. ring' \in Seq(Observation)
  BY ObserveType DEF Sense, TypeOK
<1>3. observed' \subseteq Observation /\ raised' \in Nat
  BY DEF Sense, TypeOK
<1>4. Len(ring') <= raised'
  BY ObserveLength, OrderPathAssumption DEF Sense, TypeOK, RingIsHistory
<1>5. raised' <= Capacity => observed' = Held(ring')
  <2> SUFFICES ASSUME raised' <= Capacity PROVE observed' = Held(ring')
    OBVIOUS
  <2>1. Len(ring) < Capacity /\ raised <= Capacity
    BY ThrottleAssumption DEF Sense, TypeOK, RingIsHistory
  <2>2. Held(ring') = Held(ring) \cup {obs}
    <3>1. ring \in Seq(Observation) /\ ring' = Observe(ring, obs)
      BY DEF Sense, TypeOK
    <3> QED
      BY <2>1, <3>1, ObserveAppends
  <2> QED
    <3>1. observed' = observed \cup {obs} /\ observed = Held(ring)
      BY <2>1 DEF Sense, RingIsHistory
    <3> QED
      BY <2>2, <3>1
<1> QED
  BY <1>1, <1>2, <1>3, <1>4, <1>5 DEF RingIsHistory

LEMMA StepInv == IInv /\ [Next]_vars => IInv'
<1> SUFFICES ASSUME TypeOK, RingIsHistory, SwitchesAgree, [Next]_vars PROVE IInv'
  BY DEF IInv
<1> USE OrderPathAssumption
<1>1. CASE BeginTick
  <2>1. batch' \in Batch \cup {None}
    BY <1>1 DEF BeginTick, Pending, Batch
  <2> QED
    BY <1>1, <2>1 DEF BeginTick, decided, IInv, TypeOK, RingIsHistory, SwitchesAgree
<1>2. CASE BeginSignal
  <2>1. batch' \in Batch \cup {None}
    BY <1>2 DEF BeginSignal, Pending, Batch
  <2> QED
    BY <1>2, <2>1 DEF BeginSignal, decided, IInv, TypeOK, RingIsHistory, SwitchesAgree
<1>3. CASE RecordSignal
  <2>1. batch' \in Batch \cup {None}
    BY <1>3 DEF RecordSignal, TypeOK, Batch
  <2> QED
    BY <1>3, <2>1 DEF RecordSignal, Unexecuted, decided, IInv, TypeOK, RingIsHistory, SwitchesAgree
<1>4. CASE RecordResult
  <2>1. batch' \in Batch \cup {None}
    <3>1. batch \in Batch /\ batch' = Pending(batch.left - 1, batch.given)
      BY <1>4 DEF RecordResult, TypeOK
    <3>2. batch.left - 1 \in Nat
      BY <3>1 DEF Batch
    <3> QED
      BY <3>1, <3>2 DEF Pending, Batch
  <2> QED
    BY <1>4, <2>1 DEF RecordResult, Unexecuted, decided, IInv, TypeOK, RingIsHistory, SwitchesAgree
<1>5. CASE Execute
  <2>1. batch' \in Batch \cup {None}
    BY <1>5 DEF Execute, TypeOK, Batch
  <2>2. position' \in Int
    BY <1>5 DEF Execute, Submit, TypeOK
  <2> QED
    BY <1>5, <2>1, <2>2 DEF Execute, Unexecuted, decided, IInv, TypeOK, RingIsHistory, SwitchesAgree
<1>6. CASE ExecuteRaises
  BY <1>6 DEF ExecuteRaises, Unexecuted, decided, IInv, TypeOK, RingIsHistory, SwitchesAgree
<1>7. CASE NewsHazard
  <2>1. PICK obs \in SomeHazard : Sense(obs)
    BY <1>7 DEF NewsHazard
  <2> QED
    BY <1>7, <2>1, SenseInv DEF NewsHazard, decided, IInv, TypeOK, SwitchesAgree
<1>8. CASE PollSensors
  <2>1. PICK obs \in SomeHazard : Sense(obs)
    BY <1>8 DEF PollSensors
  <2> QED
    BY <1>8, <2>1, SenseInv DEF PollSensors, decided, IInv, TypeOK, SwitchesAgree
<1>9. CASE ChangeMode
  BY <1>9 DEF ChangeMode, decided, IInv, TypeOK, RingIsHistory, SwitchesAgree
<1>10. CASE FlipTrading
  <2>1. policy' \in Policy /\ flags' \in Policy
    BY <1>10 DEF FlipTrading, TypeOK, Policy
  <2>2. stopped' \in BOOLEAN /\ audited' \in BOOLEAN
    BY <1>10 DEF FlipTrading, TypeOK
  <2>3. SwitchesAgree'
    <3>1. PICK enabled \in BOOLEAN :
            /\ flags' = [flags EXCEPT !.trading = enabled]
            /\ \/ policy'.trading = enabled /\ stopped' = ~enabled
               \/ policy' = policy /\ stopped' = (stopped /\ ~enabled)
      BY <1>10 DEF FlipTrading
    <3>2. flags'.trading = enabled
      BY <3>1 DEF TypeOK, Policy
    <3> QED
      BY <3>1, <3>2 DEF SwitchesAgree
  <2> QED
    BY <1>10, <2>1, <2>2, <2>3 DEF FlipTrading, IInv, TypeOK, RingIsHistory
<1>11. CASE FlipDevelopment
  <2>1. policy' \in Policy /\ flags' \in Policy
    BY <1>11 DEF FlipDevelopment, TypeOK, Policy
  <2>2. SwitchesAgree'
    <3>1. flags'.trading = flags.trading
      BY <1>11 DEF FlipDevelopment, TypeOK, Policy
    <3>2. policy'.trading = flags.trading \/ policy' = policy
      BY <1>11 DEF FlipDevelopment
    <3>3. stopped' = stopped
      BY <1>11 DEF FlipDevelopment, decided
    <3> QED
      BY <3>1, <3>2, <3>3 DEF SwitchesAgree
  <2> QED
    BY <1>11, <2>1, <2>2 DEF FlipDevelopment, decided, IInv, TypeOK, RingIsHistory
<1>12. CASE Tick
  BY <1>12 DEF Tick, decided, IInv, TypeOK, RingIsHistory, SwitchesAgree
<1>13. CASE Restart
  <2>1. TypeOK'
    <3>1. policy' \in Policy /\ flags' \in Policy /\ stopped' \in BOOLEAN /\ audited' \in BOOLEAN
      BY <1>13 DEF Restart, Policy
    <3>2. mode' \in SystemMode /\ position' \in Int /\ now' \in Nat /\ raised' \in Nat
      BY <1>13 DEF Restart, TypeOK, SystemMode
    <3>4. batch' \in Batch \cup {None} /\ marked' \in BOOLEAN
      BY <1>13 DEF Restart
    <3>3. ring' \in Seq(Observation) /\ observed' \subseteq Observation
      <4>1. ring' = <<>> /\ observed' = {}
        BY <1>13 DEF Restart
      <4> QED
        BY <4>1, EmptyRing
    <3> QED
      BY <3>1, <3>2, <3>3, <3>4 DEF TypeOK
  <2>2. RingIsHistory'
    BY <1>13, EmptyRing DEF Restart, RingIsHistory
  <2>3. SwitchesAgree'
    BY <1>13 DEF Restart, SwitchesAgree
  <2> QED
    BY <2>1, <2>2, <2>3 DEF IInv
<1>14. CASE UNCHANGED vars
  BY <1>14 DEF vars, decided, IInv, TypeOK, RingIsHistory, SwitchesAgree
<1> QED
  BY <1>1, <1>2, <1>3, <1>4, <1>5, <1>6, <1>7, <1>8, <1>9, <1>10, <1>11, <1>12, <1>13, <1>14
     DEF Next

LEMMA Invariance == Spec => []IInv
<1> QED
  BY InitInv, StepInv, PTL DEF Spec

-----------------------------------------------------------------------------

\* Every reachable state of the order path is well typed.
THEOREM OrderTypeCorrect == Spec => []TypeOK
<1>1. IInv => TypeOK
  BY DEF IInv
<1> QED
  BY <1>1, Invariance, PTL

\* A fill is an admitted execution.
LEMMA OnlyExecuteFills ==
  ASSUME TypeOK, [Next]_vars, Fills
  PROVE  Admitted /\ UNCHANGED <<mode, ring, observed, now, stopped>>
<1> USE DEF Fills
<1>1. Execute
  <2>1. ~BeginTick /\ ~BeginSignal /\ ~RecordSignal /\ ~RecordResult /\ ~PollSensors
    BY DEF BeginTick, BeginSignal, RecordSignal, RecordResult, PollSensors
  <2>2. ~ExecuteRaises /\ ~NewsHazard /\ ~ChangeMode /\ ~FlipTrading /\ ~FlipDevelopment
    BY DEF ExecuteRaises, NewsHazard, ChangeMode, FlipTrading, FlipDevelopment
  <2>3. ~Tick /\ ~Restart /\ ~UNCHANGED vars
    BY DEF Tick, Restart, vars
  <2> QED
    BY <2>1, <2>2, <2>3 DEF Next
<1> QED
  BY <1>1 DEF Execute, Unexecuted, decided

\* SAFE-68: while the ring holds everything it was given, a HIGH or CRITICAL
\* hazard inside its window stops every fill, whatever the ledger does.
THEOREM HazardsHaltFills == Spec => FillsClearOfHazards
<1>1. IInv /\ [Next]_vars
        => [Fills /\ raised <= Capacity
              => \A obs \in observed : Blocks(obs.severity) => ~IsActive(obs, now)]_vars
  <2> SUFFICES ASSUME IInv, [Next]_vars, Fills, raised <= Capacity,
                      NEW obs \in observed, Blocks(obs.severity), IsActive(obs, now)
               PROVE  FALSE
    OBVIOUS
  <2>1. ~Throttle.block
    BY OnlyExecuteFills DEF IInv, Admitted
  <2>2. obs \in ActiveIn(ring, now)
    BY DEF IInv, RingIsHistory, ActiveIn, Held
  <2>3. Throttle.block = \E o \in ActiveIn(ring, now) : Blocks(o.severity)
    BY DEF Throttle, ComputeThrottle
  <2> QED
    BY <2>1, <2>2, <2>3
<1> QED
  BY <1>1, Invariance, PTL DEF Spec, FillsClearOfHazards

\* Off means off: after an answered flip to off, as after a boot with trading
\* off, no order is filled until the operator asks for trading, whichever appends
\* of the two switches raise.
THEOREM OffStaysOff == Spec => OffHolds
<1>1. IInv /\ [Next]_vars => [Fills => ~stopped]_vars
  BY OnlyExecuteFills DEF IInv, SwitchesAgree, Admitted
<1> QED
  BY <1>1, Invariance, PTL DEF Spec, OffHolds

-----------------------------------------------------------------------------

\* The quantities and the floors of the rules have a least and a greatest one.
LEMMA LeastQty ==
  ASSUME NEW Q \in SUBSET {0, 50, 75, 100}, Q # {}
  PROVE  Min(Q) \in Q /\ \A q \in Q : Min(Q) <= q
<1>1. \E x \in Q : \A y \in Q : x <= y
  <2>1. CASE 0 \in Q
    BY <2>1
  <2>2. CASE 0 \notin Q /\ 50 \in Q
    BY <2>2
  <2>3. CASE 0 \notin Q /\ 50 \notin Q /\ 75 \in Q
    BY <2>3
  <2>4. CASE 0 \notin Q /\ 50 \notin Q /\ 75 \notin Q
    <3>1. Q \subseteq {100}
      BY <2>4
    <3>2. Q = {100}
      BY <3>1
    <3> QED
      BY <3>2
  <2> QED
    BY <2>1, <2>2, <2>3, <2>4
<1> QED
  BY <1>1 DEF Min

LEMMA GreatestFloor ==
  ASSUME NEW F \in SUBSET {0, 60, 100}, F # {}
  PROVE  Max(F) \in F /\ \A f \in F : f <= Max(F)
<1>1. \E x \in F : \A y \in F : y <= x
  <2>1. CASE 100 \in F
    BY <2>1
  <2>2. CASE 100 \notin F /\ 60 \in F
    BY <2>2
  <2>3. CASE 100 \notin F /\ 60 \notin F
    <3>1. F = {0}
      BY <2>3
    <3> QED
      BY <3>1
  <2> QED
    BY <2>1, <2>2, <2>3
<1> QED
  BY <1>1 DEF Max

\* compute_throttle is monotone: more active observations, a tighter decision.
LEMMA ThrottleMonotone ==
  ASSUME NEW r, NEW s, NEW t, ActiveIn(r, t) \subseteq ActiveIn(s, t)
  PROVE  AtLeastAsTight(ComputeThrottle(s, t), ComputeThrottle(r, t))
<1> DEFINE A == ActiveIn(r, t)
           B == ActiveIn(s, t)
           Qty(active)   == {100} \cup {QtyPercent(obs.severity) : obs \in active}
           Floor(active) == {0} \cup {FloorPercent(obs.severity) : obs \in active}
<1>1. \A obs : QtyPercent(obs.severity) \in {0, 50, 75, 100}
  BY DEF QtyPercent
<1>2. \A obs : FloorPercent(obs.severity) \in {0, 60, 100}
  BY DEF FloorPercent
<1>3. Qty(A) \in SUBSET {0, 50, 75, 100} /\ Qty(B) \in SUBSET {0, 50, 75, 100}
      /\ Qty(A) # {} /\ Qty(A) \subseteq Qty(B)
  BY <1>1
<1>4. Floor(A) \in SUBSET {0, 60, 100} /\ Floor(B) \in SUBSET {0, 60, 100}
      /\ Floor(A) # {} /\ Floor(A) \subseteq Floor(B)
  BY <1>2
<1>5. Min(Qty(B)) <= Min(Qty(A))
  BY <1>3, LeastQty
<1>6. Max(Floor(B)) >= Max(Floor(A))
  <2>1. Max(Floor(A)) \in Floor(B) /\ Max(Floor(B)) \in Floor(B)
        /\ \A f \in Floor(B) : f <= Max(Floor(B))
    BY <1>4, GreatestFloor
  <2> HIDE DEF Floor
  <2> QED
    BY <2>1, <1>4
<1>7. ComputeThrottle(s, t) = [block |-> \E obs \in B : Blocks(obs.severity),
                              qty |-> Min(Qty(B)), floor |-> Max(Floor(B))]
  BY DEF ComputeThrottle
<1>8. ComputeThrottle(r, t) = [block |-> \E obs \in A : Blocks(obs.severity),
                              qty |-> Min(Qty(A)), floor |-> Max(Floor(A))]
  BY DEF ComputeThrottle
<1>9. (\E obs \in A : Blocks(obs.severity)) => \E obs \in B : Blocks(obs.severity)
  OBVIOUS
<1> HIDE DEF A, B, Qty, Floor
<1> QED
  BY <1>5, <1>6, <1>7, <1>8, <1>9 DEF AtLeastAsTight

\* While nothing is evicted, what is observed only tightens the throttle.
THEOREM ObservingTightens == Spec => HazardNeverRelaxes
<1>1. IInv /\ IInv' /\ [Next]_vars
        => [raised' > raised /\ raised' <= Capacity /\ now' = now
              => AtLeastAsTight(Throttle', Throttle)]_vars
  <2> SUFFICES ASSUME IInv, IInv', [Next]_vars, raised' > raised, raised' <= Capacity, now' = now
               PROVE  AtLeastAsTight(Throttle', Throttle)
    OBVIOUS
  <2>1. observed \subseteq observed'
    <3>1. ~Restart
      BY DEF Restart, IInv, TypeOK
    <3> QED
      BY <3>1 DEF Next, vars, BeginTick, BeginSignal, RecordSignal, RecordResult, PollSensors,
         Sense, Execute, ExecuteRaises, Unexecuted, NewsHazard, ChangeMode,
         FlipTrading, FlipDevelopment, Tick
  <2>2. Held(ring) \subseteq Held(ring')
    <3>1. raised <= Capacity
      BY ThrottleAssumption DEF IInv, TypeOK
    <3> QED
      BY <2>1, <3>1 DEF IInv, RingIsHistory
  <2>3. ActiveIn(ring, now) \subseteq ActiveIn(ring', now)
    <3>1. \A r : ActiveIn(r, now) = {obs \in Held(r) : IsActive(obs, now)}
      BY DEF ActiveIn, Held
    <3> QED
      BY <2>2, <3>1
  <2> QED
    BY <2>3, ThrottleMonotone DEF Throttle
<1> QED
  BY <1>1, Invariance, PTL DEF Spec, HazardNeverRelaxes
=============================================================================
