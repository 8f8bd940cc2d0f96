------------------------------ MODULE DailyCaps ------------------------------
(***************************************************************************)
(* The daily notional cap of ComplianceValidator (governance_engine/       *)
(* control_plane/compliance_validator.py) over its ExposureStore           *)
(* (exposure_store.py): a running total in memory for one day, a row per   *)
(* domain and day on disk.  Days come in any order, reads and writes of    *)
(* the store may raise, the process may die between the write and the      *)
(* caller's order and starts again with no day in memory.  The store has a *)
(* file, as in ui/server.py; without one a day that comes back starts from *)
(* nothing.  The checks that keep no state (mode, unknown domain, per-trade*)
(* cap) only refuse more.                                                  *)
(***************************************************************************)
EXTENDS Integers

CONSTANTS Domain, Day,
          Cap,       \* max_daily_usd
          Notional,  \* what one order may spend
          NoDay,     \* _daily_iso is None
          MaxSpent   \* bound on what a day accepts

ASSUME CapsAssumption == /\ Cap \in Nat /\ Notional \subseteq Nat \ {0}
                         /\ NoDay \notin Day /\ MaxSpent \in Nat

VARIABLES cachedDay, \* _daily_iso
          spent,     \* _daily_spent
          onDisk,    \* the rows of compliance_daily
          accepted,  \* what passed reports added up to
          unread     \* a read of the store has raised

capsVars == <<cachedDay, spent, onDisk, accepted, unread>>

CapsTypeOK == /\ unread \in BOOLEAN
              /\ cachedDay \in Day \cup {NoDay}
              /\ spent \in [Domain -> Nat]
              /\ onDisk \in [Domain \X Day -> Nat]
              /\ accepted \in [Domain \X Day -> Nat]

Nothing == [d \in Domain |-> 0]

CapsInit == /\ unread = FALSE
            /\ cachedDay = NoDay
            /\ spent = Nothing
            /\ onDisk = [row \in Domain \X Day |-> 0]
            /\ accepted = onDisk

\* Mutant: a new day starts from nothing, the store is not asked.
MutEnsureToday(day) == IF cachedDay = day THEN spent ELSE Nothing

\* _ensure_today: the totals that count for this day.
EnsureToday(day) == IF cachedDay = day THEN spent ELSE [d \in Domain |-> onDisk[<<d, day>>]]

\* validate_order refuses: the day is turned over all the same.
RefuseOrder(d, day, notional) ==
  /\ EnsureToday(day)[d] + notional > Cap
  /\ cachedDay' = day
  /\ spent' = EnsureToday(day)
  /\ UNCHANGED <<onDisk, accepted, unread>>

\* It passes: the total in memory, then the row, then the report.
PassOrder(d, day, notional) ==
  /\ EnsureToday(day)[d] + notional <= Cap
  /\ cachedDay' = day
  /\ spent' = [EnsureToday(day) EXCEPT ![d] = @ + notional]
  /\ accepted[<<d, day>>] + notional <= MaxSpent
  /\ onDisk' = [onDisk EXCEPT ![<<d, day>>] = spent'[d]]
  /\ accepted' = [accepted EXCEPT ![<<d, day>>] = @ + notional]
  /\ UNCHANGED unread

\* The write raises: memory has counted an order that is not sent.
WriteRaises(d, day, notional) ==
  /\ EnsureToday(day)[d] + notional <= Cap
  /\ cachedDay' = day
  /\ spent' = [EnsureToday(day) EXCEPT ![d] = @ + notional]
  /\ UNCHANGED <<onDisk, accepted, unread>>

\* The read raises when the day is already set: the totals of the day before,
\* or of nothing after a start, go on as this day's.
ReadRaises(day) == /\ cachedDay # day
                   /\ cachedDay' = day
                   /\ unread' = TRUE
                   /\ UNCHANGED <<spent, onDisk, accepted>>

\* reset_daily; the next order reads the store again.
ResetDaily == /\ cachedDay' = NoDay
              /\ spent' = Nothing
              /\ UNCHANGED <<onDisk, accepted, unread>>

\* The process dies, at rest or with its row written and its order not sent.
CapsRestart ==
  /\ cachedDay' = NoDay
  /\ spent' = Nothing
  /\ \/ UNCHANGED onDisk
     \/ \E d \in Domain, day \in Day, notional \in Notional :
          /\ EnsureToday(day)[d] + notional <= Cap
          /\ onDisk' = [onDisk EXCEPT ![<<d, day>>] = EnsureToday(day)[d] + notional]
  /\ UNCHANGED <<accepted, unread>>

CapsNext == \/ \E d \in Domain, day \in Day, notional \in Notional :
                 \/ RefuseOrder(d, day, notional) \/ PassOrder(d, day, notional)
                 \/ WriteRaises(d, day, notional)
            \/ \E day \in Day : ReadRaises(day)
            \/ ResetDaily \/ CapsRestart

CapsSpec == CapsInit /\ [][CapsNext]_capsVars

-----------------------------------------------------------------------------
(* Properties.                                                             *)

\* AUDIT-P0.4, "resumes from the last committed spend": what was let through in
\* a day is at most the cap of that day, and not more than the file says, across
\* days out of order, writes that raise, resets and restarts.  It needs that no
\* read of the file raised.
CapsHold ==
  ~unread =>
    \A d \in Domain, day \in Day : /\ accepted[<<d, day>>] <= onDisk[<<d, day>>]
                                   /\ onDisk[<<d, day>>] <= Cap
=============================================================================
