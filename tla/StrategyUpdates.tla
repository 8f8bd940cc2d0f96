---------------------------- MODULE StrategyUpdates ----------------------------
(***************************************************************************)
(* The strategy registry (GOV-SR-01) and the update half of the learning   *)
(* loop (GOV-CP-08): a strategy is registered, moves through its approval  *)
(* lifecycle, and while APPROVED has parameters changed by proposals that  *)
(* governance ratifies.  Every change is a ledger row first and a record   *)
(* in memory second; a ratified proposal is two rows, and the process may  *)
(* stop, or the second append raise, between them.                         *)
(*                                                                         *)
(* Rows outlive the process, records do not.  replay_from_ledger rebuilds  *)
(* them entry by entry; ui/server.py:569 builds the registry and never     *)
(* calls it, so that Boots == {"empty"} is what the harness does.          *)
(*                                                                         *)
(* Timestamps, reasons, composed_from and why are left out.  A bound is    *)
(* the set of the values it admits, Value when none is declared; text that *)
(* is no number lies in no declared bound.                                 *)
(***************************************************************************)
EXTENDS Naturals, Sequences

CONSTANTS
  Strategy,    \* the strategy ids
  Parameter,   \* the names of parameters
  Value,       \* what a parameter may be set to
  Given,       \* the values they may be registered with, None if missing
  Bound,       \* the sets of values that parameter_bounds may declare
  None,        \* no record; no value; no proposal
  Boots,       \* what a restart does: "replay" the ledger or start "empty"
  MaxRows,     \* bound on the rows of the ledger
  MaxBoots     \* bound on the restarts

ASSUME ValueAssumption ==
  /\ Given \subseteq Value \cup {None}
  /\ Bound \subseteq SUBSET Value

ASSUME BootAssumption ==
  /\ Boots \subseteq {"replay", "empty"}
  /\ MaxRows \in Nat /\ MaxBoots \in Nat

VARIABLES
  rows,        \* the rows of the authority ledger this part writes
  records,     \* StrategyRegistry._records
  at,          \* how many rows the process has replayed or written itself
  ratified,    \* the proposal whose UPDATE_RATIFIED row is in, not yet applied
  base,        \* history: this process never saw the rows up to here
  forgotten,   \* history: how many rows there were at each empty start
  boots        \* history: the restarts so far

history == <<base, forgotten, boots>>
vars    == <<rows, records, at, ratified, history>>

Lifecycle == {"DRAFT", "VALIDATING", "APPROVED", "RETIRED"}

LegalTransitions ==
  [DRAFT      |-> {"VALIDATING", "RETIRED"},
   VALIDATING |-> {"APPROVED", "RETIRED"},
   APPROVED   |-> {"RETIRED"},
   RETIRED    |-> {}]

Record ==
  [version : Nat, lifecycle : Lifecycle, params : [Parameter -> Value \cup {None}],
   mutable : SUBSET Parameter, bounds : [Parameter -> SUBSET Value]]

ASSUME NoneAssumption == None \notin Record

Proposal == [strategy : Strategy, parameter : Parameter, value : Value]

LifecycleRow == [kind : {"LIFECYCLE"}, strategy : Strategy, record : Record]
UpdateRow    == [kind : {"UPDATE"}, strategy : Strategy, version : Nat,
                 parameter : Parameter, value : Value]
RatifiedRow  == [kind : {"RATIFIED"}, proposal : Proposal]
RejectedRow  == [kind : {"REJECTED"}]
Row          == LifecycleRow \cup UpdateRow \cup RatifiedRow \cup RejectedRow

TypeOK ==
  /\ rows \in Seq(Row)
  /\ records \in [Strategy -> Record \cup {None}]
  /\ at \in 0 .. Len(rows)
  /\ base \in 0 .. Len(rows) /\ forgotten \subseteq 0 .. Len(rows)
  /\ ratified \in Proposal \cup {None}
  /\ boots \in Nat

Nothing == [s \in Strategy |-> None]

Init ==
  /\ rows = <<>> /\ records = Nothing /\ at = 0 /\ ratified = None
  /\ base = 0 /\ forgotten = {} /\ boots = 0

-----------------------------------------------------------------------------
(* Pure parts: the records an operation makes, and the rows it writes.     *)

Registered(s) == records[s] # None

\* A declared bound names a mutable parameter and is an interval.
Draft(ps, ms, bs) ==
  [version |-> 1, lifecycle |-> "DRAFT", params |-> ps, mutable |-> ms, bounds |-> bs]

Moved(rec, new) == [rec EXCEPT !.version = @ + 1, !.lifecycle = new]

Tuned(rec, version, p, v) == [rec EXCEPT !.version = version, !.params[p] = v]

\* What apply_parameter_update asks again, and every check of the validator.
Tunable(s, p) ==
  /\ Registered(s)
  /\ records[s].lifecycle = "APPROVED"
  /\ p \in records[s].mutable

\* Mutant: the bounds are not checked.
MutRatifiable(u, learning) == learning /\ Tunable(u.strategy, u.parameter)

Ratifiable(u, learning) ==
  /\ learning
  /\ Tunable(u.strategy, u.parameter)
  /\ u.value \in records[u.strategy].bounds[u.parameter]

\* Mutant: an update's version is not replayed.
MutReplayed(recs, row) ==
  CASE row.kind = "LIFECYCLE" -> [recs EXCEPT ![row.strategy] = row.record]
    [] row.kind = "UPDATE"    -> [recs EXCEPT ![row.strategy] =
                                    Tuned(@, @.version, row.parameter, row.value)]
    [] OTHER                  -> recs

\* replay_from_ledger, one entry.
Replayed(recs, row) ==
  CASE row.kind = "LIFECYCLE" -> [recs EXCEPT ![row.strategy] = row.record]
    [] row.kind = "UPDATE"    -> [recs EXCEPT ![row.strategy] =
                                    Tuned(@, row.version, row.parameter, row.value)]
    [] OTHER                  -> recs

-----------------------------------------------------------------------------
(* Actions.  Every caller of the registry and of GovernanceEngine.process  *)
(* finishes before the next; an append that raises changes nothing, except *)
(* after UPDATE_RATIFIED.  learning: the proposal gives a reason, and the  *)
(* mode the handler reads, which other components move, allows learning.   *)

\* Mutant: a caller comes in while a ratified proposal waits to be applied.
MutReady == at = Len(rows)

Ready == at = Len(rows) /\ ratified = None

Written(row) ==
  /\ Len(rows) < MaxRows
  /\ rows' = Append(rows, row)
  /\ at' = at + 1

RegisterDraft(s, ps, ms, bs) ==
  /\ Ready
  /\ ~ Registered(s)
  /\ \A p \in Parameter : bs[p] # Value => p \in ms
  /\ LET rec == Draft(ps, ms, bs)
     IN  /\ Written([kind |-> "LIFECYCLE", strategy |-> s, record |-> rec])
         /\ records' = [records EXCEPT ![s] = rec]
  /\ UNCHANGED <<ratified, history>>

\* Mutant: transition does not ask is_legal_transition.
MutTransition(s, new) ==
  /\ Ready
  /\ Registered(s)
  /\ LET rec == Moved(records[s], new)
     IN  /\ Written([kind |-> "LIFECYCLE", strategy |-> s, record |-> rec])
         /\ records' = [records EXCEPT ![s] = rec]
  /\ UNCHANGED <<ratified, history>>

Transition(s, new) ==
  /\ Ready
  /\ Registered(s)
  /\ new \in LegalTransitions[records[s].lifecycle]
  /\ LET rec == Moved(records[s], new)
     IN  /\ Written([kind |-> "LIFECYCLE", strategy |-> s, record |-> rec])
         /\ records' = [records EXCEPT ![s] = rec]
  /\ UNCHANGED <<ratified, history>>

Reject(u, learning) ==
  /\ Ready
  /\ ~ Ratifiable(u, learning)
  /\ Written([kind |-> "REJECTED"])
  /\ UNCHANGED <<records, ratified, history>>

Ratify(u, learning) ==
  /\ Ready
  /\ Ratifiable(u, learning)
  /\ Written([kind |-> "RATIFIED", proposal |-> u])
  /\ ratified' = u
  /\ UNCHANGED <<records, history>>

Apply ==
  /\ ratified # None
  /\ LET s == ratified.strategy
         p == ratified.parameter
         v == ratified.value
     IN  /\ Tunable(s, p)
         /\ LET rec == Tuned(records[s], records[s].version + 1, p, v)
            IN  /\ Written([kind |-> "UPDATE", strategy |-> s, version |-> rec.version,
                            parameter |-> p, value |-> v])
                /\ records' = [records EXCEPT ![s] = rec]
  /\ ratified' = None
  /\ UNCHANGED history

\* The append of STRATEGY_PARAMETER_UPDATE raises.
ApplyRaises ==
  /\ ratified # None
  /\ ratified' = None
  /\ UNCHANGED <<rows, records, at, history>>

Restart(how) ==
  /\ boots < MaxBoots
  /\ boots' = boots + 1
  /\ records' = Nothing /\ ratified' = None
  /\ \/ /\ how = "replay"
        /\ at' = 0 /\ base' = 0
        /\ UNCHANGED forgotten
     \/ /\ how = "empty"
        /\ at' = Len(rows) /\ base' = Len(rows)
        /\ forgotten' = forgotten \cup {Len(rows)}
  /\ UNCHANGED rows

\* An UPDATE entry of a strategy without a record would be a KeyError.
ReplayEntry ==
  /\ at < Len(rows)
  /\ LET row == rows[at + 1]
     IN  /\ row.kind = "UPDATE" => Registered(row.strategy)
         /\ records' = Replayed(records, row)
  /\ at' = at + 1
  /\ UNCHANGED <<rows, ratified, history>>

Next ==
  \/ \E s \in Strategy, ps \in [Parameter -> Given],
        ms \in SUBSET Parameter, bs \in [Parameter -> Bound \cup {Value}] :
          RegisterDraft(s, ps, ms, bs)
  \/ \E s \in Strategy, new \in Lifecycle : Transition(s, new)
  \/ \E u \in Proposal, learning \in BOOLEAN : Reject(u, learning)
  \/ \E u \in Proposal, learning \in BOOLEAN : Ratify(u, learning)
  \/ Apply
  \/ ApplyRaises
  \/ \E how \in Boots : Restart(how)
  \/ ReplayEntry

Spec == Init /\ [][Next]_vars

-----------------------------------------------------------------------------
(* What the rows say, read by their definition instead of by the loop.     *)

LifecycleRows(rs, s, n) == {i \in 1 .. n : rs[i].kind = "LIFECYCLE" /\ rs[i].strategy = s}

UpdateRows(rs, s, n) == {i \in 1 .. n : rs[i].kind = "UPDATE" /\ rs[i].strategy = s}

RowsAbout(rs, s, n) == LifecycleRows(rs, s, n) \cup UpdateRows(rs, s, n)

Latest(I) == CHOOSE i \in I : \A j \in I : j <= i

UpdatesSince(rs, s, n) ==
  {i \in UpdateRows(rs, s, n) : i > Latest(LifecycleRows(rs, s, n))}

UpdatesOf(rs, s, p, n) == {i \in UpdatesSince(rs, s, n) : rs[i].parameter = p}

\* The record of s after n rows: its latest lifecycle row, with the version of
\* the latest update since and the latest value of each parameter.
AsOf(rs, s, n) ==
  LET rec == rs[Latest(LifecycleRows(rs, s, n))].record
      ups == UpdatesSince(rs, s, n)
  IN  [rec EXCEPT
        !.version = IF ups = {} THEN @ ELSE rs[Latest(ups)].version,
        !.params  = [p \in Parameter |->
                      IF UpdatesOf(rs, s, p, n) = {} THEN rec.params[p]
                      ELSE rs[Latest(UpdatesOf(rs, s, p, n))].value]]

\* StrategyRegistry: "The current StrategyRecord for any strategy_id is
\* replay_from_ledger of the chain truncated at the row's sequence number",
\* whatever raised and however the process came up; and a process knows a
\* strategy just when one of the rows it wrote or replayed registers it.
RecordsAreReplay == \A s \in Strategy :
  /\ Registered(s) <=> \E i \in LifecycleRows(rows, s, at) : i > base
  /\ Registered(s) => records[s] = AsOf(rows, s, at)

FirstDraft(rs, i) ==
  /\ rs[i].record.version = 1 /\ rs[i].record.lifecycle = "DRAFT"
  /\ LET before == RowsAbout(rs, rs[i].strategy, i - 1)
     IN  before = {} \/ \E e \in forgotten : e < i /\ \A j \in before : j <= e

LegalMove(rs, i) ==
  LET prev == AsOf(rs, rs[i].strategy, i - 1)
      next == rs[i].record
  IN  /\ LifecycleRows(rs, rs[i].strategy, i - 1) # {}
      /\ next.lifecycle \in LegalTransitions[prev.lifecycle]
      /\ next = Moved(prev, next.lifecycle)

LegalUpdate(rs, i) ==
  LET prev == AsOf(rs, rs[i].strategy, i - 1)
  IN  /\ LifecycleRows(rs, rs[i].strategy, i - 1) # {}
      /\ prev.lifecycle = "APPROVED"
      /\ rs[i].parameter \in prev.mutable
      /\ rs[i].value \in prev.bounds[rs[i].parameter]
      /\ rs[i].version = prev.version + 1

\* StrategyRegistry: "the chain only ever contains legal histories": each row of
\* a strategy continues what the rows before it say, its version included, across
\* restarts.  A second DRAFT appears only behind all rows of the strategy that a process
\* which came up without replay never saw.
HistoriesContinue == \A i \in 1 .. Len(rows) :
  /\ rows[i].kind = "LIFECYCLE" => FirstDraft(rows, i) \/ LegalMove(rows, i)
  /\ rows[i].kind = "UPDATE" => LegalUpdate(rows, i)

\* GovernanceEngine: "the chain reads UPDATE_RATIFIED -> STRATEGY_PARAMETER_UPDATE":
\* no parameter row stands without the verdict on that very proposal before it, and
\* one verdict is applied once at most, whatever is lost between the two.
UpdatesWereRatified == \A i \in 1 .. Len(rows) : rows[i].kind = "UPDATE" =>
  /\ i > 1
  /\ rows[i - 1] = [kind |-> "RATIFIED",
                    proposal |-> [strategy |-> rows[i].strategy,
                                  parameter |-> rows[i].parameter,
                                  value |-> rows[i].value]]

\* What learning may do to a strategy: a parameter in force is the one of its latest
\* DRAFT, or whitelisted and within the bounds declared there (UpdateValidator 4, 5).
ParametersInBounds == \A s \in Strategy : Registered(s) =>
  \E d \in LifecycleRows(rows, s, at) :
    LET draft == rows[d].record
    IN  /\ draft.version = 1
        /\ \A j \in LifecycleRows(rows, s, at) : j > d => rows[j].record.version > 1
        /\ \A p \in Parameter :
             \/ records[s].params[p] = draft.params[p]
             \/ p \in draft.mutable /\ records[s].params[p] \in draft.bounds[p]
=============================================================================
