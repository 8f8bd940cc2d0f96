--------------------------- MODULE HazardThrottle ---------------------------
(***************************************************************************)
(* The pure part of the hazard throttle: the severity rules, the window in *)
(* which an observation counts, the aggregation of compute_throttle and    *)
(* the bounded ring of HazardObserver.  Quantities are percentages.        *)
(***************************************************************************)
EXTENDS Integers, Sequences, FiniteSetsExt

CONSTANTS
  Window,     \* active_window_ns of each severity
  Capacity    \* HazardObserver.capacity

Severity == {"INFO", "LOW", "MEDIUM", "HIGH", "CRITICAL"}

ASSUME ThrottleAssumption ==
  /\ Window \in [Severity -> Nat \ {0}]
  /\ Capacity \in Nat \ {0}

\* HazardObservation: code and source decide nothing under the default table.
Observation == [severity : Severity, ts : Nat]

\* _DEFAULT_RULES.
Blocks(severity) == severity \in {"HIGH", "CRITICAL"}

QtyPercent(severity) == CASE severity = "INFO"   -> 100
                          [] severity = "LOW"    -> 75
                          [] severity = "MEDIUM" -> 50
                          [] OTHER               -> 0

FloorPercent(severity) == CASE severity = "MEDIUM"            -> 60
                            [] severity \in {"INFO", "LOW"}   -> 0
                            [] OTHER                          -> 100

\* An observation stamped in the future is active too.
IsActive(obs, now) == now - obs.ts < Window[obs.severity]

ActiveIn(ring, now) == {ring[i] : i \in {j \in DOMAIN ring : IsActive(ring[j], now)}}

\* Mutant: the first active observation decides.
MutThrottleNewest(ring, now) ==
  LET active == {ring[i] : i \in {j \in DOMAIN ring : IsActive(ring[j], now) /\ j = Len(ring)}} IN
    [block |-> \E obs \in active : Blocks(obs.severity),
     qty   |-> Min({100} \cup {QtyPercent(obs.severity) : obs \in active}),
     floor |-> Max({0} \cup {FloorPercent(obs.severity) : obs \in active})]

\* compute_throttle: the tightest of the active rules in each respect.
ComputeThrottle(ring, now) ==
  LET active == ActiveIn(ring, now) IN
    [block |-> \E obs \in active : Blocks(obs.severity),
     qty   |-> Min({100} \cup {QtyPercent(obs.severity) : obs \in active}),
     floor |-> Max({0} \cup {FloorPercent(obs.severity) : obs \in active})]

\* HazardObserver.observe: deque(maxlen = capacity).append.
Observe(ring, obs) == IF Len(ring) < Capacity THEN Append(ring, obs)
                                              ELSE Append(Tail(ring), obs)

\* Decision d restricts at least as much as decision e.
AtLeastAsTight(d, e) == (e.block => d.block) /\ d.qty <= e.qty /\ d.floor >= e.floor
=============================================================================
