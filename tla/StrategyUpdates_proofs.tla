------------------------ MODULE StrategyUpdates_proofs ------------------------
(***************************************************************************)
(* Theorems about StrategyUpdates, for any strategies, parameters, values, *)
(* bounds and restarts, replayed or not.                                   *)
(***************************************************************************)
EXTENDS StrategyUpdates, TLAPS, WellFoundedInduction

LEMMA LatestExists ==
  ASSUME NEW n \in Nat, NEW I \in SUBSET (1 .. n), I # {}
  PROVE  Latest(I) \in I /\ \A j \in I : j <= Latest(I)
<1> DEFINE T == {n - i : i \in I}
<1>0. \A i \in I : i \in 1 .. n
  OBVIOUS
<1>1. T \subseteq Nat /\ T # {}
  <2>1. \A i \in I : n - i \in Nat
    BY <1>0
  <2>2. T # {}
    OBVIOUS
  <2> QED BY <2>1, <2>2
<1>2. \E x \in T : \A y \in T : ~ (<<y, x>> \in OpToRel(<, Nat))
  <2> HIDE DEF T
  <2> QED BY <1>1, NatLessThanWellFounded, WFMin
<1>3. PICK x \in T : \A y \in T : ~ (y < x)
  BY <1>1, <1>2 DEF OpToRel
<1>4. PICK i \in I : x = n - i
  OBVIOUS
<1>5. \A j \in I : j <= i
  BY <1>0, <1>3, <1>4
<1> QED BY <1>0, <1>5 DEF Latest

-----------------------------------------------------------------------------
(* The record after n rows.                                                *)

\* Row n + 1 is about s.
Touches(rs, s, n) == rs[n + 1].kind \in {"LIFECYCLE", "UPDATE"} /\ rs[n + 1].strategy = s

LEMMA RowKinds ==
  ASSUME NEW row \in Row
  PROVE  /\ row.kind = "LIFECYCLE" => row.strategy \in Strategy /\ row.record \in Record
         /\ row.kind = "UPDATE" => /\ row.strategy \in Strategy /\ row.version \in Nat
                                   /\ row.parameter \in Parameter /\ row.value \in Value
BY DEF Row, LifecycleRow, UpdateRow, RatifiedRow, RejectedRow

\* Two records with the same fields are the same.
LEMMA SameFields ==
  ASSUME NEW r \in Record, NEW t \in Record,
         r.version = t.version, r.lifecycle = t.lifecycle,
         \A p \in Parameter : r.params[p] = t.params[p],
         r.mutable = t.mutable, r.bounds = t.bounds
  PROVE  r = t
<1>1. /\ r.params \in [Parameter -> Value \cup {None}]
      /\ t.params \in [Parameter -> Value \cup {None}]
  BY DEF Record
<1>2. r.params = t.params
  BY <1>1
<1> QED BY <1>2 DEF Record

LEMMA TunedFields ==
  ASSUME NEW r \in Record, NEW k \in Nat, NEW p \in Parameter, NEW v \in Value
  PROVE  /\ Tuned(r, k, p, v) \in Record
         /\ Tuned(r, k, p, v).version = k
         /\ Tuned(r, k, p, v).params = [r.params EXCEPT ![p] = v]
         /\ Tuned(r, k, p, v).lifecycle = r.lifecycle
         /\ Tuned(r, k, p, v).mutable = r.mutable
         /\ Tuned(r, k, p, v).bounds = r.bounds
BY DEF Tuned, Record

LEMMA MovedFields ==
  ASSUME NEW r \in Record, NEW new \in Lifecycle
  PROVE  /\ Moved(r, new) \in Record
         /\ Moved(r, new).version = r.version + 1
         /\ Moved(r, new).lifecycle = new
         /\ Moved(r, new).params = r.params
         /\ Moved(r, new).mutable = r.mutable
         /\ Moved(r, new).bounds = r.bounds
<1>1. r.version \in Nat /\ r.version + 1 \in Nat
  BY DEF Record
<1> DEFINE k == r.version + 1
<1>2. Moved(r, new) = [r EXCEPT !.version = k, !.lifecycle = new]
  BY DEF Moved
<1> HIDE DEF k
<1>3. k \in Nat
  BY <1>1 DEF k
<1>4. LET m == [r EXCEPT !.version = k, !.lifecycle = new]
      IN  /\ m \in Record /\ m.version = k /\ m.lifecycle = new
          /\ m.params = r.params /\ m.mutable = r.mutable /\ m.bounds = r.bounds
  BY <1>3 DEF Record
<1> QED BY <1>2, <1>4 DEF k

\* The latest lifecycle row is one, and AsOf takes its fields from it and from
\* the updates since.
LEMMA AsOfFields ==
  ASSUME NEW rs \in Seq(Row), NEW s \in Strategy, NEW n \in 0 .. Len(rs),
         LifecycleRows(rs, s, n) # {}
  PROVE  LET l   == Latest(LifecycleRows(rs, s, n))
             ups == UpdatesSince(rs, s, n)
             as  == AsOf(rs, s, n)
         IN  /\ l \in LifecycleRows(rs, s, n)
             /\ \A j \in LifecycleRows(rs, s, n) : j <= l
             /\ as \in Record
             /\ as.lifecycle = rs[l].record.lifecycle
             /\ as.mutable = rs[l].record.mutable
             /\ as.bounds = rs[l].record.bounds
             /\ as.version = IF ups = {} THEN rs[l].record.version ELSE rs[Latest(ups)].version
             /\ \A p \in Parameter :
                  as.params[p] = IF UpdatesOf(rs, s, p, n) = {} THEN rs[l].record.params[p]
                                 ELSE rs[Latest(UpdatesOf(rs, s, p, n))].value
<1> DEFINE L == LifecycleRows(rs, s, n)
           l == Latest(L)
           ups == UpdatesSince(rs, s, n)
           of(p) == UpdatesOf(rs, s, p, n)
           rec == rs[l].record
<1>0. n \in Nat
  OBVIOUS
<1>1. L \in SUBSET (1 .. n) /\ ups \in SUBSET (1 .. n)
  BY DEF LifecycleRows, UpdatesSince, UpdateRows
<1>2. \A p \in Parameter : of(p) \in SUBSET (1 .. n)
  BY DEF UpdatesOf, UpdatesSince, UpdateRows
<1>3. l \in L /\ \A j \in L : j <= l
  BY <1>0, <1>1, LatestExists
<1>4. \A i \in 1 .. n : rs[i] \in Row
  OBVIOUS
<1>5. rec \in Record
  BY <1>3, <1>4, RowKinds DEF LifecycleRows
<1>6. ups # {} => rs[Latest(ups)].version \in Nat
  <2>1. ups # {} => Latest(ups) \in ups
    BY <1>0, <1>1, LatestExists
  <2> QED BY <2>1, <1>4, RowKinds DEF UpdatesSince, UpdateRows
<1>7. \A p \in Parameter : of(p) # {} => rs[Latest(of(p))].value \in Value
  <2> TAKE p \in Parameter
  <2>1. of(p) # {} => Latest(of(p)) \in of(p)
    BY <1>0, <1>2, LatestExists
  <2> QED BY <2>1, <1>4, RowKinds DEF UpdatesOf, UpdatesSince, UpdateRows
<1> DEFINE ver == IF ups = {} THEN rec.version ELSE rs[Latest(ups)].version
           par == [p \in Parameter |-> IF of(p) = {} THEN rec.params[p]
                                       ELSE rs[Latest(of(p))].value]
<1>8. ver \in Nat /\ par \in [Parameter -> Value \cup {None}]
  BY <1>5, <1>6, <1>7 DEF Record
<1>9. AsOf(rs, s, n) = [rec EXCEPT !.version = ver, !.params = par]
  BY DEF AsOf
<1> HIDE DEF ver, par, rec, ups, of
<1>10. LET as == AsOf(rs, s, n)
       IN  /\ as \in Record
           /\ as.lifecycle = rec.lifecycle /\ as.mutable = rec.mutable
           /\ as.bounds = rec.bounds /\ as.version = ver /\ as.params = par
  BY <1>5, <1>8, <1>9 DEF Record
<1> QED BY <1>3, <1>10 DEF ver, par, rec, ups, of

\* Sequences that agree up to n agree on every record after n rows.
LEMMA AsOfPrefix ==
  ASSUME NEW rs \in Seq(Row), NEW rt \in Seq(Row), NEW s \in Strategy,
         NEW n \in 0 .. Len(rs), n <= Len(rt), \A i \in 1 .. n : rs[i] = rt[i]
  PROVE  /\ LifecycleRows(rs, s, n) = LifecycleRows(rt, s, n)
         /\ LifecycleRows(rs, s, n) # {} => AsOf(rs, s, n) = AsOf(rt, s, n)
<1>1. /\ LifecycleRows(rs, s, n) = LifecycleRows(rt, s, n)
      /\ UpdateRows(rs, s, n) = UpdateRows(rt, s, n)
  BY DEF LifecycleRows, UpdateRows
<1>2. UpdatesSince(rs, s, n) = UpdatesSince(rt, s, n)
  BY <1>1 DEF UpdatesSince
<1>3. \A p \in Parameter : UpdatesOf(rs, s, p, n) = UpdatesOf(rt, s, p, n)
  BY <1>2 DEF UpdatesOf, UpdatesSince, UpdateRows
<1>4. SUFFICES ASSUME LifecycleRows(rs, s, n) # {}
               PROVE  AsOf(rs, s, n) = AsOf(rt, s, n)
  BY <1>1
<1> DEFINE l == Latest(LifecycleRows(rs, s, n))
<1>5. rs[l] = rt[l]
  BY <1>4, AsOfFields DEF LifecycleRows
<1>6. \A I \in SUBSET (1 .. n) : I # {} => rs[Latest(I)] = rt[Latest(I)]
  <2> TAKE I \in SUBSET (1 .. n)
  <2> HAVE I # {}
  <2>1. n \in Nat
    OBVIOUS
  <2>2. Latest(I) \in I
    BY <2>1, LatestExists
  <2> QED BY <2>2
<1>7. /\ UpdatesSince(rs, s, n) \in SUBSET (1 .. n)
      /\ \A p \in Parameter : UpdatesOf(rs, s, p, n) \in SUBSET (1 .. n)
  BY DEF UpdatesOf, UpdatesSince, UpdateRows
<1>8. n \in 0 .. Len(rt) /\ LifecycleRows(rt, s, n) # {}
  BY <1>1, <1>4
<1> DEFINE a == AsOf(rs, s, n)
           b == AsOf(rt, s, n)
<1>9. a \in Record /\ b \in Record
  BY <1>4, <1>8, AsOfFields
<1>10. a.lifecycle = b.lifecycle /\ a.mutable = b.mutable /\ a.bounds = b.bounds
  BY <1>1, <1>4, <1>5, <1>8, AsOfFields
<1>11. a.version = b.version
  BY <1>1, <1>2, <1>4, <1>5, <1>6, <1>7, <1>8, AsOfFields
<1>12. \A p \in Parameter : a.params[p] = b.params[p]
  <2> TAKE p \in Parameter
  <2>1. a.params[p] = IF UpdatesOf(rs, s, p, n) = {} THEN rs[l].record.params[p]
                      ELSE rs[Latest(UpdatesOf(rs, s, p, n))].value
    BY <1>4, AsOfFields
  <2>2. b.params[p] = IF UpdatesOf(rt, s, p, n) = {} THEN rt[l].record.params[p]
                      ELSE rt[Latest(UpdatesOf(rt, s, p, n))].value
    BY <1>1, <1>8, AsOfFields
  <2> HIDE DEF a, b, l
  <2>3. UpdatesOf(rs, s, p, n) # {} =>
          rs[Latest(UpdatesOf(rs, s, p, n))] = rt[Latest(UpdatesOf(rs, s, p, n))]
    BY <1>6, <1>7
  <2> QED BY <1>3, <1>5, <2>1, <2>2, <2>3
<1> HIDE DEF a, b
<1> QED BY <1>9, <1>10, <1>11, <1>12, SameFields DEF a, b

\* A lifecycle row is the record from then on.
LEMMA AsOfLifecycle ==
  ASSUME NEW rs \in Seq(Row), NEW n \in 0 .. Len(rs) - 1,
         rs[n + 1].kind = "LIFECYCLE"
  PROVE  LET s == rs[n + 1].strategy
         IN  /\ LifecycleRows(rs, s, n + 1) = LifecycleRows(rs, s, n) \cup {n + 1}
             /\ AsOf(rs, s, n + 1) = rs[n + 1].record
<1> DEFINE s == rs[n + 1].strategy
           l == Latest(LifecycleRows(rs, s, n + 1))
           as == AsOf(rs, s, n + 1)
<1>1. n \in Nat /\ n + 1 \in 1 .. Len(rs) /\ n + 1 \in 0 .. Len(rs) /\ rs[n + 1] \in Row
  OBVIOUS
<1>2. s \in Strategy /\ rs[n + 1].record \in Record
  BY <1>1, RowKinds
<1>3. LifecycleRows(rs, s, n + 1) = LifecycleRows(rs, s, n) \cup {n + 1}
  BY <1>1 DEF LifecycleRows
<1>4. n + 1 \in LifecycleRows(rs, s, n + 1) /\ LifecycleRows(rs, s, n + 1) # {}
  BY <1>3
<1> HIDE DEF s
<1>5. l = n + 1
  <2>1. l \in LifecycleRows(rs, s, n + 1) /\ \A j \in LifecycleRows(rs, s, n + 1) : j <= l
    BY <1>1, <1>2, <1>4, AsOfFields
  <2> HIDE DEF l
  <2> QED BY <1>1, <1>4, <2>1 DEF LifecycleRows
<1>6. UpdatesSince(rs, s, n + 1) = {}
  BY <1>1, <1>5 DEF UpdatesSince, UpdateRows
<1>7. \A p \in Parameter : UpdatesOf(rs, s, p, n + 1) = {}
  BY <1>6 DEF UpdatesOf
<1>8. /\ as \in Record
      /\ as.lifecycle = rs[l].record.lifecycle
      /\ as.mutable = rs[l].record.mutable
      /\ as.bounds = rs[l].record.bounds
  BY <1>1, <1>2, <1>4, AsOfFields
<1>9. as.version = rs[l].record.version
  BY <1>1, <1>2, <1>4, <1>6, AsOfFields
<1>10. \A p \in Parameter : as.params[p] = rs[l].record.params[p]
  <2> TAKE p \in Parameter
  <2> QED BY <1>1, <1>2, <1>4, <1>7, AsOfFields
<1> HIDE DEF as, l
<1> DEFINE rec == rs[n + 1].record
<1>11. as \in Record /\ rec \in Record /\ \A p \in Parameter : as.params[p] = rec.params[p]
  BY <1>2, <1>5, <1>8, <1>10
<1>12. rec.lifecycle = as.lifecycle /\ rec.mutable = as.mutable /\ rec.bounds = as.bounds
         /\ rec.version = as.version
  BY <1>5, <1>8, <1>9
<1> HIDE DEF rec
<1>13. as = rec
  BY <1>11, <1>12, SameFields
<1> QED BY <1>3, <1>13 DEF as, s, rec

\* An update row changes its version and its parameter, and nothing else.
LEMMA AsOfUpdate ==
  ASSUME NEW rs \in Seq(Row), NEW n \in 0 .. Len(rs) - 1,
         rs[n + 1].kind = "UPDATE",
         LifecycleRows(rs, rs[n + 1].strategy, n) # {}
  PROVE  LET row == rs[n + 1]
         IN  /\ LifecycleRows(rs, row.strategy, n + 1) = LifecycleRows(rs, row.strategy, n)
             /\ AsOf(rs, row.strategy, n + 1) =
                  Tuned(AsOf(rs, row.strategy, n), row.version, row.parameter, row.value)
<1> DEFINE row == rs[n + 1]
           s == row.strategy
           l == Latest(LifecycleRows(rs, s, n))
           a == AsOf(rs, s, n)
           b == AsOf(rs, s, n + 1)
           t == Tuned(a, row.version, row.parameter, row.value)
<1>1. /\ n \in Nat /\ n + 1 \in Nat
      /\ n + 1 \in 1 .. Len(rs) /\ n + 1 \in 0 .. Len(rs) /\ n \in 0 .. Len(rs) /\ row \in Row
  OBVIOUS
<1>2. s \in Strategy /\ row.version \in Nat /\ row.parameter \in Parameter /\ row.value \in Value
  BY <1>1, RowKinds
<1>3. LifecycleRows(rs, s, n + 1) = LifecycleRows(rs, s, n)
  BY <1>1 DEF LifecycleRows
<1>4. LifecycleRows(rs, s, n) # {} /\ LifecycleRows(rs, s, n + 1) # {}
  BY <1>3
<1>5. UpdateRows(rs, s, n + 1) = UpdateRows(rs, s, n) \cup {n + 1}
  BY <1>1 DEF UpdateRows
<1> HIDE DEF s
<1>6. l \in 1 .. n /\ rs[l].record \in Record
  <2>1. l \in LifecycleRows(rs, s, n)
    BY <1>1, <1>2, <1>4, AsOfFields
  <2>2. l \in 1 .. n /\ rs[l].kind = "LIFECYCLE"
    BY <2>1 DEF LifecycleRows
  <2> HIDE DEF l
  <2>3. rs[l] \in Row
    BY <1>1, <2>2
  <2> QED BY <2>2, <2>3, RowKinds
<1>7. UpdatesSince(rs, s, n + 1) = UpdatesSince(rs, s, n) \cup {n + 1}
  <2> HIDE DEF l
  <2>1. n + 1 > l
    BY <1>1, <1>6
  <2> QED BY <1>3, <1>5, <2>1 DEF UpdatesSince, l
<1>8. Latest(UpdatesSince(rs, s, n + 1)) = n + 1
  <2>1. UpdatesSince(rs, s, n + 1) \in SUBSET (1 .. n + 1)
    BY DEF UpdatesSince, UpdateRows
  <2>2. n + 1 \in UpdatesSince(rs, s, n + 1)
    BY <1>7
  <2>3. \A j \in 1 .. n + 1 : n + 1 <= j => j = n + 1
    BY <1>1
  <2>4. LET m == Latest(UpdatesSince(rs, s, n + 1))
        IN  m \in UpdatesSince(rs, s, n + 1) /\ \A j \in UpdatesSince(rs, s, n + 1) : j <= m
    BY <1>1, <2>1, <2>2, LatestExists
  <2> QED BY <2>1, <2>2, <2>3, <2>4
<1>9. /\ \A p \in Parameter \ {row.parameter} :
           UpdatesOf(rs, s, p, n + 1) = UpdatesOf(rs, s, p, n)
      /\ UpdatesOf(rs, s, row.parameter, n + 1) =
           UpdatesOf(rs, s, row.parameter, n) \cup {n + 1}
  BY <1>7 DEF UpdatesOf
<1>10. Latest(UpdatesOf(rs, s, row.parameter, n + 1)) = n + 1
  <2>1. UpdatesOf(rs, s, row.parameter, n + 1) \in SUBSET (1 .. n + 1)
    BY DEF UpdatesOf, UpdatesSince, UpdateRows
  <2>2. n + 1 \in UpdatesOf(rs, s, row.parameter, n + 1)
    BY <1>9
  <2>3. \A j \in 1 .. n + 1 : n + 1 <= j => j = n + 1
    BY <1>1
  <2>4. LET m == Latest(UpdatesOf(rs, s, row.parameter, n + 1))
        IN  m \in UpdatesOf(rs, s, row.parameter, n + 1) /\ \A j \in UpdatesOf(rs, s, row.parameter, n + 1) : j <= m
    BY <1>1, <2>1, <2>2, LatestExists
  <2> QED BY <2>1, <2>2, <2>3, <2>4
<1>11. /\ a \in Record /\ a.lifecycle = rs[l].record.lifecycle
       /\ a.mutable = rs[l].record.mutable /\ a.bounds = rs[l].record.bounds
  BY <1>1, <1>2, <1>4, AsOfFields
<1>12. /\ b \in Record /\ b.lifecycle = rs[l].record.lifecycle
       /\ b.mutable = rs[l].record.mutable /\ b.bounds = rs[l].record.bounds
  BY <1>1, <1>2, <1>3, <1>4, AsOfFields
<1>13. b.version = row.version
  BY <1>1, <1>2, <1>4, <1>7, <1>8, AsOfFields
<1>14. \A p \in Parameter : a.params[p] =
         IF UpdatesOf(rs, s, p, n) = {} THEN rs[l].record.params[p]
         ELSE rs[Latest(UpdatesOf(rs, s, p, n))].value
  BY <1>1, <1>2, <1>4, AsOfFields
<1>15. \A p \in Parameter : b.params[p] =
         IF UpdatesOf(rs, s, p, n + 1) = {} THEN rs[l].record.params[p]
         ELSE rs[Latest(UpdatesOf(rs, s, p, n + 1))].value
  BY <1>1, <1>2, <1>3, <1>4, AsOfFields
<1> HIDE DEF a, b, l
<1>16. \A p \in Parameter :
         b.params[p] = IF p = row.parameter THEN row.value ELSE a.params[p]
  <2> TAKE p \in Parameter
  <2>1. CASE p = row.parameter
    BY <2>1, <1>2, <1>9, <1>10, <1>15
  <2>2. CASE p # row.parameter
    BY <2>2, <1>9, <1>14, <1>15
  <2> QED BY <2>1, <2>2
<1>17. /\ t \in Record /\ t.version = row.version
       /\ t.params = [a.params EXCEPT ![row.parameter] = row.value]
       /\ t.lifecycle = a.lifecycle /\ t.mutable = a.mutable /\ t.bounds = a.bounds
  BY <1>2, <1>11, TunedFields
<1> HIDE DEF t
<1>18. \A p \in Parameter : b.params[p] = t.params[p]
  <2>1. a.params \in [Parameter -> Value \cup {None}]
    BY <1>11 DEF Record
  <2> QED BY <1>16, <1>17, <2>1
<1>19. /\ b.version = t.version /\ b.lifecycle = t.lifecycle
       /\ b.mutable = t.mutable /\ b.bounds = t.bounds
  BY <1>11, <1>12, <1>13, <1>17
<1>20. b \in Record /\ t \in Record
  BY <1>12, <1>17
<1>21. b = t
  BY <1>18, <1>19, <1>20, SameFields
<1> QED BY <1>3, <1>21 DEF a, b, s, t

\* A row about another strategy, or about none, changes nothing.
LEMMA AsOfOther ==
  ASSUME NEW rs \in Seq(Row), NEW n \in 0 .. Len(rs) - 1, NEW s \in Strategy,
         ~ Touches(rs, s, n)
  PROVE  /\ LifecycleRows(rs, s, n + 1) = LifecycleRows(rs, s, n)
         /\ AsOf(rs, s, n + 1) = AsOf(rs, s, n)
<1>1. n \in Nat /\ 1 .. n + 1 = (1 .. n) \cup {n + 1}
  OBVIOUS
<1>2. /\ LifecycleRows(rs, s, n + 1) = LifecycleRows(rs, s, n)
      /\ UpdateRows(rs, s, n + 1) = UpdateRows(rs, s, n)
  BY <1>1 DEF LifecycleRows, UpdateRows, Touches
<1>3. UpdatesSince(rs, s, n + 1) = UpdatesSince(rs, s, n)
  BY <1>2 DEF UpdatesSince
<1>4. \A p : UpdatesOf(rs, s, p, n + 1) = UpdatesOf(rs, s, p, n)
  BY <1>3 DEF UpdatesOf
<1> DEFINE inForce(k, p) == IF UpdatesOf(rs, s, p, k) = {}
                           THEN rs[Latest(LifecycleRows(rs, s, k))].record.params[p]
                           ELSE rs[Latest(UpdatesOf(rs, s, p, k))].value
<1>5. [p \in Parameter |-> inForce(n + 1, p)] = [p \in Parameter |-> inForce(n, p)]
  BY <1>2, <1>4
<1> QED BY <1>2, <1>3, <1>5 DEF AsOf

-----------------------------------------------------------------------------
(* The invariant.                                                          *)

\* What a process never saw was forgotten by an empty start.
Bases == base <= at /\ (base # 0 => base \in forgotten)

\* An update the process may have seen follows a lifecycle row it may have seen.
UpdatesFollow == \A i \in 1 .. Len(rows) : rows[i].kind = "UPDATE" /\ i > base =>
  \E j \in LifecycleRows(rows, rows[i].strategy, i - 1) : j > base

\* A ratified proposal is the last row and still what the registry accepts.
RatifiedFits == ratified # None =>
  /\ at = Len(rows) /\ at # 0
  /\ rows[at] = [kind |-> "RATIFIED", proposal |-> ratified]
  /\ Ratifiable(ratified, TRUE)

IInv == TypeOK /\ Bases /\ RecordsAreReplay /\ HistoriesContinue
          /\ UpdatesWereRatified /\ UpdatesFollow /\ RatifiedFits

\* The loop of replay_from_ledger and the write of an operation do the same to the
\* records: they follow the next row.
LEMMA StepReplays ==
  ASSUME TypeOK, TypeOK', Bases, RecordsAreReplay,
         at < Len(rows'), at' = at + 1, base' = base,
         \A i \in 1 .. at : rows'[i] = rows[i],
         records' = Replayed(records, rows'[at + 1]),
         rows'[at + 1].kind = "UPDATE" => Registered(rows'[at + 1].strategy)
  PROVE  RecordsAreReplay'
<1> DEFINE row == rows'[at + 1]
<1>1. /\ rows \in Seq(Row) /\ rows' \in Seq(Row) /\ at \in Nat /\ at \in 0 .. Len(rows)
      /\ at <= Len(rows') /\ at \in 0 .. Len(rows') - 1 /\ row \in Row
      /\ base \in Nat /\ base <= at
  BY DEF TypeOK, Bases
<1> SUFFICES ASSUME NEW s \in Strategy
             PROVE  /\ Registered(s)' <=> \E i \in LifecycleRows(rows', s, at + 1) : i > base
                    /\ Registered(s)' => records'[s] = AsOf(rows', s, at + 1)
  BY DEF RecordsAreReplay
<1>2. /\ Registered(s) <=> \E i \in LifecycleRows(rows, s, at) : i > base
      /\ Registered(s) => records[s] = AsOf(rows, s, at)
  BY DEF RecordsAreReplay
<1>3. /\ LifecycleRows(rows, s, at) = LifecycleRows(rows', s, at)
      /\ LifecycleRows(rows, s, at) # {} => AsOf(rows, s, at) = AsOf(rows', s, at)
  <2>1. \A i \in 1 .. at : rows[i] = rows'[i]
    OBVIOUS
  <2> QED BY <1>1, <2>1, AsOfPrefix
<1>4. /\ Registered(s) <=> \E i \in LifecycleRows(rows', s, at) : i > base
      /\ Registered(s) => LifecycleRows(rows', s, at) # {} /\ records[s] = AsOf(rows', s, at)
  BY <1>2, <1>3
<1>5. records \in [Strategy -> Record \cup {None}]
  BY DEF TypeOK
<1>6. CASE row.kind = "LIFECYCLE" /\ row.strategy = s
  <2>1. /\ LifecycleRows(rows', s, at + 1) = LifecycleRows(rows', s, at) \cup {at + 1}
        /\ AsOf(rows', s, at + 1) = row.record
    BY <1>1, <1>6, AsOfLifecycle
  <2>2. row.record \in Record /\ records'[s] = row.record
    BY <1>1, <1>5, <1>6, RowKinds DEF Replayed
  <2>3. Registered(s)'
    BY <2>2, NoneAssumption DEF Registered
  <2>4. at + 1 > base
    BY <1>1
  <2> QED BY <2>1, <2>2, <2>3, <2>4
<1>7. CASE row.kind = "UPDATE" /\ row.strategy = s
  <2>1. Registered(s)
    BY <1>7
  <2>2. /\ LifecycleRows(rows', s, at + 1) = LifecycleRows(rows', s, at)
        /\ AsOf(rows', s, at + 1) =
             Tuned(AsOf(rows', s, at), row.version, row.parameter, row.value)
    BY <1>1, <1>4, <1>7, <2>1, AsOfUpdate
  <2>3. records'[s] = Tuned(records[s], row.version, row.parameter, row.value)
    BY <1>5, <1>7 DEF Replayed
  <2>4. records[s] \in Record
    BY <1>5, <2>1 DEF Registered
  <2>5. records'[s] \in Record
    <3>1. row.version \in Nat /\ row.parameter \in Parameter /\ row.value \in Value
      BY <1>1, <1>7, RowKinds
    <3> HIDE DEF row
    <3> DEFINE rec == records[s]
    <3>2. rec \in Record
      BY <2>4
    <3> HIDE DEF rec
    <3>3. Tuned(rec, row.version, row.parameter, row.value) \in Record
      BY <3>1, <3>2, TunedFields
    <3> QED BY <2>3, <3>3 DEF rec
  <2>6. Registered(s)'
    BY <2>5, NoneAssumption DEF Registered
  <2> QED BY <1>4, <2>1, <2>2, <2>3, <2>6
<1>8. CASE ~ (row.kind \in {"LIFECYCLE", "UPDATE"} /\ row.strategy = s)
  <2>1. /\ LifecycleRows(rows', s, at + 1) = LifecycleRows(rows', s, at)
        /\ AsOf(rows', s, at + 1) = AsOf(rows', s, at)
    BY <1>1, <1>8, AsOfOther DEF Touches
  <2>2. records'[s] = records[s]
    <3>1. CASE row.kind = "LIFECYCLE"
      BY <1>1, <1>5, <1>8, <3>1, RowKinds DEF Replayed
    <3>2. CASE row.kind = "UPDATE"
      BY <1>1, <1>5, <1>8, <3>2, RowKinds DEF Replayed
    <3>3. CASE row.kind \notin {"LIFECYCLE", "UPDATE"}
      BY <3>3 DEF Replayed
    <3> QED BY <3>1, <3>2, <3>3
  <2>3. Registered(s)' <=> Registered(s)
    BY <2>2 DEF Registered
  <2> QED BY <1>4, <2>1, <2>2, <2>3
<1> QED BY <1>6, <1>7, <1>8

\* What legality asks of row i is settled by the rows up to i.
LEMMA LegalPrefix ==
  ASSUME NEW rs \in Seq(Row), NEW rt \in Seq(Row), NEW i \in 1 .. Len(rs),
         i <= Len(rt), \A j \in 1 .. i : rs[j] = rt[j]
  PROVE  /\ rs[i].kind = "LIFECYCLE" /\ FirstDraft(rs, i) => FirstDraft(rt, i)
         /\ rs[i].kind = "LIFECYCLE" /\ LegalMove(rs, i) => LegalMove(rt, i)
         /\ rs[i].kind = "UPDATE" /\ LegalUpdate(rs, i) => LegalUpdate(rt, i)
<1> DEFINE n == i - 1
           s == rs[i].strategy
<1>1. /\ n \in 0 .. Len(rs) /\ n <= Len(rt) /\ rs[i] \in Row /\ rs[i] = rt[i]
      /\ \A j \in 1 .. n : rs[j] = rt[j]
  OBVIOUS
<1>2. SUFFICES ASSUME rs[i].kind \in {"LIFECYCLE", "UPDATE"}
               PROVE  /\ FirstDraft(rs, i) => FirstDraft(rt, i)
                      /\ LegalMove(rs, i) => LegalMove(rt, i)
                      /\ LegalUpdate(rs, i) => LegalUpdate(rt, i)
  OBVIOUS
<1>3. s \in Strategy
  BY <1>1, <1>2, RowKinds
<1>4. /\ LifecycleRows(rs, s, n) = LifecycleRows(rt, s, n)
      /\ LifecycleRows(rs, s, n) # {} => AsOf(rs, s, n) = AsOf(rt, s, n)
  <2> HIDE DEF s, n
  <2> QED BY <1>1, <1>3, AsOfPrefix
<1>5. FirstDraft(rs, i) => FirstDraft(rt, i)
  <2>1. UpdateRows(rs, s, n) = UpdateRows(rt, s, n)
    BY <1>1 DEF UpdateRows
  <2>2. RowsAbout(rs, s, n) = RowsAbout(rt, s, n)
    BY <1>4, <2>1 DEF RowsAbout
  <2> QED BY <1>1, <2>2 DEF FirstDraft
<1>6. LegalMove(rs, i) => LegalMove(rt, i)
  BY <1>1, <1>4 DEF LegalMove
<1>7. LegalUpdate(rs, i) => LegalUpdate(rt, i)
  BY <1>1, <1>4 DEF LegalUpdate
<1> QED BY <1>5, <1>6, <1>7

\* A row that continues the chain leaves a chain in which every row does.
LEMMA ChainGrows ==
  ASSUME TypeOK, TypeOK', HistoriesContinue, NEW row \in Row,
         rows' = Append(rows, row), forgotten' = forgotten,
         row.kind = "LIFECYCLE" =>
           FirstDraft(rows', Len(rows) + 1) \/ LegalMove(rows', Len(rows) + 1),
         row.kind = "UPDATE" => LegalUpdate(rows', Len(rows) + 1)
  PROVE  HistoriesContinue'
<1>1. /\ rows \in Seq(Row) /\ rows' \in Seq(Row) /\ Len(rows') = Len(rows) + 1
      /\ \A i \in 1 .. Len(rows) : rows'[i] = rows[i]
      /\ rows'[Len(rows) + 1] = row /\ Len(rows) \in Nat
  BY DEF TypeOK
<1>2. SUFFICES ASSUME NEW i \in 1 .. Len(rows')
               PROVE  /\ rows'[i].kind = "LIFECYCLE" =>
                           FirstDraft(rows', i) \/ LegalMove(rows', i)
                      /\ rows'[i].kind = "UPDATE" => LegalUpdate(rows', i)
  BY DEF HistoriesContinue, FirstDraft, LegalMove, LegalUpdate
<1>3. CASE i = Len(rows) + 1
  BY <1>1, <1>3
<1>4. CASE i \in 1 .. Len(rows)
  <2>1. /\ rows[i].kind = "LIFECYCLE" => FirstDraft(rows, i) \/ LegalMove(rows, i)
        /\ rows[i].kind = "UPDATE" => LegalUpdate(rows, i)
    BY <1>4 DEF HistoriesContinue
  <2>2. i <= Len(rows') /\ rows'[i] = rows[i] /\ \A j \in 1 .. i : rows[j] = rows'[j]
    BY <1>1, <1>4
  <2> QED BY <1>1, <1>4, <2>1, <2>2, LegalPrefix
<1> QED BY <1>1, <1>3, <1>4

\* What every operation that writes a row preserves.
LEMMA RowWritten ==
  ASSUME IInv, NEW row \in Row, at = Len(rows), Written(row),
         base' = base, forgotten' = forgotten, boots' = boots,
         records' = Replayed(records, row),
         records' \in [Strategy -> Record \cup {None}], ratified' \in Proposal \cup {None},
         row.kind = "LIFECYCLE" =>
           FirstDraft(rows', Len(rows) + 1) \/ LegalMove(rows', Len(rows) + 1),
         row.kind = "UPDATE" =>
           /\ Registered(row.strategy)
           /\ LegalUpdate(rows', Len(rows) + 1)
           /\ at # 0
           /\ rows[at] = [kind |-> "RATIFIED",
                          proposal |-> [strategy |-> row.strategy,
                                        parameter |-> row.parameter,
                                        value |-> row.value]]
  PROVE  /\ TypeOK' /\ Bases' /\ RecordsAreReplay'
         /\ HistoriesContinue' /\ UpdatesWereRatified' /\ UpdatesFollow'
<1>1. /\ rows \in Seq(Row) /\ Len(rows) \in Nat
      /\ rows' = Append(rows, row) /\ at' = at + 1
      /\ rows' \in Seq(Row) /\ Len(rows') = Len(rows) + 1
      /\ \A i \in 1 .. Len(rows) : rows'[i] = rows[i]
      /\ rows'[Len(rows) + 1] = row
  BY DEF IInv, TypeOK, Written
<1>2. TypeOK'
  <2>1. /\ base \in 0 .. Len(rows) /\ forgotten \subseteq 0 .. Len(rows) /\ boots \in Nat
    BY DEF IInv, TypeOK
  <2> QED BY <1>1, <2>1 DEF TypeOK
<1>3. Bases'
  BY <1>1 DEF IInv, Bases, TypeOK
<1>4. RecordsAreReplay'
  <2>1. /\ at < Len(rows') /\ rows'[at + 1] = row
        /\ \A i \in 1 .. at : rows'[i] = rows[i]
    BY <1>1
  <2> QED BY <1>1, <1>2, <2>1, StepReplays DEF IInv
<1>5. HistoriesContinue'
  BY <1>1, <1>2, ChainGrows DEF IInv
<1>6. UpdatesWereRatified'
  <2> SUFFICES ASSUME NEW i \in 1 .. Len(rows'), rows'[i].kind = "UPDATE"
               PROVE  /\ i > 1
                      /\ rows'[i - 1] = [kind |-> "RATIFIED",
                                         proposal |-> [strategy |-> rows'[i].strategy,
                                                       parameter |-> rows'[i].parameter,
                                                       value |-> rows'[i].value]]
    BY DEF UpdatesWereRatified
  <2>1. CASE i = Len(rows) + 1
    <3>1. rows'[i] = row /\ i - 1 = Len(rows)
      BY <1>1, <2>1
    <3>2. Len(rows) \in 1 .. Len(rows)
      BY <1>1, <3>1
    <3>3. rows'[i - 1] = rows[at]
      BY <1>1, <3>1, <3>2
    <3> QED BY <3>1, <3>2, <3>3
  <2>2. CASE i \in 1 .. Len(rows)
    <3>1. rows[i].kind = "UPDATE" /\ rows'[i] = rows[i]
      BY <1>1, <2>2
    <3>2. i > 1 /\ rows[i - 1] = [kind |-> "RATIFIED",
                                  proposal |-> [strategy |-> rows[i].strategy,
                                                parameter |-> rows[i].parameter,
                                                value |-> rows[i].value]]
      BY <2>2, <3>1 DEF IInv, UpdatesWereRatified
    <3>3. rows'[i - 1] = rows[i - 1]
      BY <1>1, <2>2, <3>2
    <3> QED BY <3>1, <3>2, <3>3
  <2> QED BY <1>1, <2>1, <2>2
<1>7. UpdatesFollow'
  <2> SUFFICES ASSUME NEW i \in 1 .. Len(rows'), rows'[i].kind = "UPDATE", i > base
               PROVE  \E j \in LifecycleRows(rows', rows'[i].strategy, i - 1) : j > base
    BY DEF UpdatesFollow
  <2>1. CASE i = Len(rows) + 1
    <3>1. rows'[i] = row /\ i - 1 = Len(rows) /\ row.kind = "UPDATE"
      BY <1>1, <2>1
    <3>2. row.strategy \in Strategy
      BY <3>1, RowKinds
    <3>3. \E j \in LifecycleRows(rows, row.strategy, Len(rows)) : j > base
      BY <3>1, <3>2 DEF IInv, RecordsAreReplay
    <3>4. LifecycleRows(rows, row.strategy, Len(rows)) =
            LifecycleRows(rows', row.strategy, Len(rows))
      BY <1>1 DEF LifecycleRows
    <3> QED BY <3>1, <3>3, <3>4
  <2>2. CASE i \in 1 .. Len(rows)
    <3>1. rows'[i] = rows[i] /\ \A j \in 1 .. i - 1 : rows'[j] = rows[j]
      BY <1>1, <2>2
    <3>2. \E j \in LifecycleRows(rows, rows[i].strategy, i - 1) : j > base
      BY <2>2, <3>1 DEF IInv, UpdatesFollow
    <3>3. LifecycleRows(rows, rows[i].strategy, i - 1) =
            LifecycleRows(rows', rows[i].strategy, i - 1)
      BY <3>1 DEF LifecycleRows
    <3> QED BY <3>1, <3>2, <3>3
  <2> QED BY <1>1, <2>1, <2>2
<1> QED BY <1>2, <1>3, <1>4, <1>5, <1>6, <1>7

\* What a process that took all rows into account knows of s is in the rows, and
\* still is after the next one.
LEMMA RegisteredIsInRows ==
  ASSUME IInv, NEW s \in Strategy, at = Len(rows), NEW row \in Row, Written(row)
  PROVE  /\ LifecycleRows(rows', s, Len(rows)) = LifecycleRows(rows, s, Len(rows))
         /\ Registered(s) => /\ LifecycleRows(rows', s, Len(rows)) # {}
                             /\ records[s] \in Record
                             /\ records[s] = AsOf(rows', s, Len(rows))
         /\ ~ Registered(s) =>
              \A j \in RowsAbout(rows', s, Len(rows)) : j <= base
<1> DEFINE n == Len(rows)
<1>1. /\ rows \in Seq(Row) /\ rows' \in Seq(Row) /\ n \in 0 .. Len(rows) /\ n <= Len(rows')
      /\ \A i \in 1 .. n : rows[i] = rows'[i]
  BY DEF IInv, TypeOK, Written
<1>2. /\ LifecycleRows(rows, s, n) = LifecycleRows(rows', s, n)
      /\ LifecycleRows(rows, s, n) # {} => AsOf(rows, s, n) = AsOf(rows', s, n)
  BY <1>1, AsOfPrefix
<1>3. /\ Registered(s) <=> \E i \in LifecycleRows(rows, s, n) : i > base
      /\ Registered(s) => records[s] = AsOf(rows, s, n)
  BY DEF IInv, RecordsAreReplay
<1>4. Registered(s) => records[s] \in Record
  BY DEF IInv, TypeOK, Registered
<1>5. ASSUME ~ Registered(s), NEW j \in RowsAbout(rows', s, n)
      PROVE  j <= base
  <2>1. j \in 1 .. n /\ rows'[j] = rows[j] /\ base \in Nat
    BY <1>1, <1>5 DEF RowsAbout, LifecycleRows, UpdateRows, IInv, TypeOK
  <2>2. ~ \E i \in LifecycleRows(rows, s, n) : i > base
    BY <1>3, <1>5
  <2>3. CASE j \in LifecycleRows(rows', s, n)
    BY <1>2, <2>1, <2>2, <2>3
  <2>4. CASE rows[j].kind = "UPDATE" /\ rows[j].strategy = s
    <3>1. j > base => \E i \in LifecycleRows(rows, s, j - 1) : i > base
      BY <2>1, <2>4 DEF IInv, UpdatesFollow
    <3>2. LifecycleRows(rows, s, j - 1) \subseteq LifecycleRows(rows, s, n)
      BY <1>1, <2>1 DEF LifecycleRows
    <3> QED BY <2>1, <2>2, <3>1, <3>2
  <2> QED BY <1>5, <2>1, <2>3, <2>4 DEF RowsAbout, UpdateRows
<1> HIDE DEF n
<1> QED BY <1>2, <1>3, <1>4, <1>5 DEF n

-----------------------------------------------------------------------------
(* One lemma per action.                                                   *)

LEMMA InitInvariant == Init => IInv
<1> SUFFICES ASSUME Init
             PROVE  IInv
  OBVIOUS
<1>0. /\ rows = <<>> /\ records = Nothing /\ at = 0 /\ ratified = None
      /\ base = 0 /\ forgotten = {} /\ boots = 0
  BY DEF Init
<1>1. TypeOK
  BY <1>0 DEF TypeOK, Nothing
<1>2. Bases /\ RatifiedFits
  BY <1>0 DEF Bases, RatifiedFits
<1>3. HistoriesContinue /\ UpdatesWereRatified /\ UpdatesFollow
  <2>1. 1 .. Len(rows) = {}
    BY <1>0
  <2> QED BY <2>1 DEF HistoriesContinue, UpdatesWereRatified, UpdatesFollow
<1>4. RecordsAreReplay
  <2>1. \A s \in Strategy : ~ Registered(s)
    BY <1>0 DEF Registered, Nothing
  <2>2. 1 .. at = {}
    BY <1>0
  <2>3. \A s \in Strategy : LifecycleRows(rows, s, at) = {}
    BY <2>2 DEF LifecycleRows
  <2> QED BY <2>1, <2>3 DEF RecordsAreReplay
<1> QED BY <1>1, <1>2, <1>3, <1>4 DEF IInv

LEMMA RegisterInvariant ==
  ASSUME IInv, NEW s \in Strategy, NEW ps \in [Parameter -> Given],
         NEW ms \in SUBSET Parameter, NEW bs \in [Parameter -> Bound \cup {Value}],
         RegisterDraft(s, ps, ms, bs)
  PROVE  IInv'
<1> DEFINE rec == Draft(ps, ms, bs)
           row == [kind |-> "LIFECYCLE", strategy |-> s, record |-> rec]
<1>1. /\ at = Len(rows) /\ ratified = None /\ ~ Registered(s)
      /\ Written(row) /\ records' = [records EXCEPT ![s] = rec]
      /\ ratified' = ratified /\ base' = base /\ forgotten' = forgotten /\ boots' = boots
  BY DEF RegisterDraft, Ready, history
<1>2. rec \in Record /\ rec.version = 1 /\ rec.lifecycle = "DRAFT"
  <2>1. ps \in [Parameter -> Value \cup {None}]
    BY ValueAssumption
  <2>2. bs \in [Parameter -> SUBSET Value]
    BY ValueAssumption
  <2> QED BY <2>1, <2>2 DEF Draft, Record, Lifecycle
<1> HIDE DEF rec
<1>3. row \in Row /\ row.kind = "LIFECYCLE" /\ row.strategy = s /\ row.record = rec
  BY <1>2 DEF Row, LifecycleRow
<1>4. records' = Replayed(records, row) /\ records' \in [Strategy -> Record \cup {None}]
  BY <1>1, <1>2, <1>3 DEF Replayed, IInv, TypeOK
<1> HIDE DEF row
<1>5. /\ rows \in Seq(Row) /\ rows' \in Seq(Row) /\ Len(rows) \in Nat
      /\ rows'[Len(rows) + 1] = row
  BY <1>1, <1>3 DEF IInv, TypeOK, Written
<1>6. FirstDraft(rows', Len(rows) + 1)
  <2> DEFINE before == RowsAbout(rows', s, Len(rows))
  <2>1. \A j \in before : j <= base
    BY <1>1, <1>3, RegisteredIsInRows
  <2>2. \A j \in before : j \in 1 .. Len(rows)
    BY DEF RowsAbout, LifecycleRows, UpdateRows
  <2>3. base \in 0 .. Len(rows) /\ (base # 0 => base \in forgotten)
    BY <1>1 DEF IInv, TypeOK, Bases
  <2>4. before = {} \/ \E e \in forgotten : e < Len(rows) + 1 /\ \A j \in before : j <= e
    <3> HIDE DEF before
    <3>1. CASE base = 0
      BY <1>5, <2>1, <2>2, <3>1
    <3>2. CASE base # 0
      BY <1>5, <2>1, <2>3, <3>2
    <3> QED BY <3>1, <3>2
  <2>5. Len(rows) + 1 - 1 = Len(rows)
    BY <1>5
  <2> QED BY <1>2, <1>3, <1>5, <2>4, <2>5 DEF FirstDraft
<1>7. ratified' \in Proposal \cup {None}
  BY <1>1 DEF IInv, TypeOK
<1>8. /\ TypeOK' /\ Bases' /\ RecordsAreReplay'
      /\ HistoriesContinue' /\ UpdatesWereRatified' /\ UpdatesFollow'
  BY <1>1, <1>3, <1>4, <1>6, <1>7, RowWritten
<1>9. RatifiedFits'
  BY <1>1 DEF RatifiedFits
<1> QED BY <1>8, <1>9 DEF IInv

LEMMA TransitionInvariant ==
  ASSUME IInv, NEW s \in Strategy, NEW new \in Lifecycle, Transition(s, new)
  PROVE  IInv'
<1> DEFINE rec == Moved(records[s], new)
           row == [kind |-> "LIFECYCLE", strategy |-> s, record |-> rec]
<1>1. /\ at = Len(rows) /\ ratified = None /\ Registered(s)
      /\ new \in LegalTransitions[records[s].lifecycle]
      /\ Written(row) /\ records' = [records EXCEPT ![s] = rec]
      /\ ratified' = ratified /\ base' = base /\ forgotten' = forgotten /\ boots' = boots
  BY DEF Transition, Ready, history
<1>2. records[s] \in Record
  BY <1>1 DEF IInv, TypeOK, Registered
<1>3. rec \in Record /\ rec.lifecycle = new
  BY <1>2, MovedFields
<1>4. rec = Moved(records[s], rec.lifecycle)
  BY <1>3
<1> HIDE DEF rec
<1>5. row \in Row /\ row.kind = "LIFECYCLE" /\ row.strategy = s /\ row.record = rec
  BY <1>3 DEF Row, LifecycleRow
<1>6. records' = Replayed(records, row) /\ records' \in [Strategy -> Record \cup {None}]
  BY <1>1, <1>3, <1>5 DEF Replayed, IInv, TypeOK
<1> HIDE DEF row
<1>7. /\ rows \in Seq(Row) /\ rows' \in Seq(Row) /\ Len(rows) \in Nat
      /\ rows'[Len(rows) + 1] = row
  BY <1>1, <1>5 DEF IInv, TypeOK, Written
<1>8. LegalMove(rows', Len(rows) + 1)
  <2>1. /\ LifecycleRows(rows', s, Len(rows)) # {}
        /\ records[s] = AsOf(rows', s, Len(rows))
    BY <1>1, <1>5, RegisteredIsInRows
  <2>2. Len(rows) + 1 - 1 = Len(rows)
    BY <1>7
  <2> QED BY <1>1, <1>3, <1>4, <1>5, <1>7, <2>1, <2>2 DEF LegalMove
<1>9. ratified' \in Proposal \cup {None}
  BY <1>1 DEF IInv, TypeOK
<1>10. /\ TypeOK' /\ Bases' /\ RecordsAreReplay'
       /\ HistoriesContinue' /\ UpdatesWereRatified' /\ UpdatesFollow'
  BY <1>1, <1>5, <1>6, <1>8, <1>9, RowWritten
<1>11. RatifiedFits'
  BY <1>1 DEF RatifiedFits
<1> QED BY <1>10, <1>11 DEF IInv

LEMMA RejectInvariant ==
  ASSUME IInv, NEW u \in Proposal, NEW learning \in BOOLEAN, Reject(u, learning)
  PROVE  IInv'
<1> DEFINE row == [kind |-> "REJECTED"]
<1>1. /\ at = Len(rows) /\ ratified = None /\ Written(row) /\ records' = records
      /\ ratified' = ratified /\ base' = base /\ forgotten' = forgotten /\ boots' = boots
  BY DEF Reject, Ready, history
<1>2. row \in Row /\ row.kind = "REJECTED"
  BY DEF Row, RejectedRow
<1>3. /\ records' = Replayed(records, row) /\ records' \in [Strategy -> Record \cup {None}]
      /\ ratified' \in Proposal \cup {None}
  BY <1>1, <1>2 DEF Replayed, IInv, TypeOK
<1> HIDE DEF row
<1>4. /\ TypeOK' /\ Bases' /\ RecordsAreReplay'
      /\ HistoriesContinue' /\ UpdatesWereRatified' /\ UpdatesFollow'
  BY <1>1, <1>2, <1>3, RowWritten
<1>5. RatifiedFits'
  BY <1>1 DEF RatifiedFits
<1> QED BY <1>4, <1>5 DEF IInv

LEMMA RatifyInvariant ==
  ASSUME IInv, NEW u \in Proposal, NEW learning \in BOOLEAN, Ratify(u, learning)
  PROVE  IInv'
<1> DEFINE row == [kind |-> "RATIFIED", proposal |-> u]
<1>1. /\ at = Len(rows) /\ Written(row) /\ records' = records /\ Ratifiable(u, learning)
      /\ ratified' = u /\ base' = base /\ forgotten' = forgotten /\ boots' = boots
  BY DEF Ratify, Ready, history
<1>2. row \in Row /\ row.kind = "RATIFIED"
  BY DEF Row, RatifiedRow
<1>3. /\ records' = Replayed(records, row) /\ records' \in [Strategy -> Record \cup {None}]
      /\ ratified' \in Proposal \cup {None}
  BY <1>1, <1>2 DEF Replayed, IInv, TypeOK
<1>4. /\ at' = Len(rows') /\ at' # 0 /\ rows'[at'] = row
  BY <1>1, <1>2 DEF IInv, TypeOK, Written
<1>5. Ratifiable(ratified, TRUE)'
  BY <1>1 DEF Ratifiable, Tunable, Registered
<1>6. RatifiedFits'
  BY <1>1, <1>4, <1>5 DEF RatifiedFits
<1> HIDE DEF row
<1>7. /\ TypeOK' /\ Bases' /\ RecordsAreReplay'
      /\ HistoriesContinue' /\ UpdatesWereRatified' /\ UpdatesFollow'
  BY <1>1, <1>2, <1>3, RowWritten
<1> QED BY <1>6, <1>7 DEF IInv

\* The row of an update continues the chain because nothing came between the
\* verdict and it: the record is still the one the validator saw.
LEMMA ApplyInvariant ==
  ASSUME IInv, Apply
  PROVE  IInv'
<1> DEFINE s == ratified.strategy
           p == ratified.parameter
           v == ratified.value
           ver == records[s].version + 1
           rec == Tuned(records[s], ver, p, v)
           row == [kind |-> "UPDATE", strategy |-> s, version |-> ver,
                   parameter |-> p, value |-> v]
<1>1. ratified \in Proposal /\ s \in Strategy /\ p \in Parameter /\ v \in Value
  BY DEF Apply, IInv, TypeOK, Proposal
<1>2. /\ at = Len(rows) /\ at # 0
      /\ rows[at] = [kind |-> "RATIFIED", proposal |-> ratified]
      /\ Ratifiable(ratified, TRUE)
  BY DEF Apply, IInv, RatifiedFits
<1>3. /\ Registered(s) /\ records[s].lifecycle = "APPROVED"
      /\ p \in records[s].mutable /\ v \in records[s].bounds[p]
  BY <1>2 DEF Ratifiable, Tunable
<1>4. records[s] \in Record /\ records[s].version \in Nat /\ ver \in Nat
  BY <1>1, <1>3 DEF IInv, TypeOK, Registered, Record
<1>5. rec \in Record /\ rec.version = ver
  <2>1. \A r \in Record, k \in Nat, q \in Parameter, w \in Value :
          Tuned(r, k, q, w) \in Record /\ Tuned(r, k, q, w).version = k
    <3> HIDE DEF s, p, v, ver, rec, row
    <3> TAKE r \in Record, k \in Nat, q \in Parameter, w \in Value
    <3>1. Tuned(r, k, q, w) \in Record
      BY TunedFields
    <3>2. Tuned(r, k, q, w).version = k
      BY DEF Tuned, Record
    <3> QED BY <3>1, <3>2
  <2> QED BY <1>1, <1>4, <2>1
<1>6. /\ Written(row) /\ records' = [records EXCEPT ![s] = rec] /\ ratified' = None
      /\ base' = base /\ forgotten' = forgotten /\ boots' = boots
  <2>1. Written([kind |-> "UPDATE", strategy |-> s, version |-> rec.version,
                 parameter |-> p, value |-> v])
    BY DEF Apply
  <2> QED BY <1>5, <2>1 DEF Apply, history
<1>7. ratified = [strategy |-> s, parameter |-> p, value |-> v]
  BY <1>1 DEF Proposal
<1> HIDE DEF s, p, v, ver
<1>8. /\ row \in Row /\ row.kind = "UPDATE" /\ row.strategy = s /\ row.version = ver
      /\ row.parameter = p /\ row.value = v
  BY <1>1, <1>4 DEF Row, UpdateRow
<1>9. records' = Replayed(records, row)
  BY <1>6, <1>8 DEF Replayed
<1>10. records' \in [Strategy -> Record \cup {None}] /\ ratified' \in Proposal \cup {None}
  BY <1>1, <1>5, <1>6 DEF IInv, TypeOK
<1> HIDE DEF row, rec
<1>11. /\ rows \in Seq(Row) /\ rows' \in Seq(Row) /\ Len(rows) \in Nat
       /\ rows'[Len(rows) + 1] = row
  BY <1>6, <1>8 DEF IInv, TypeOK, Written
<1>12. LegalUpdate(rows', Len(rows) + 1)
  <2>1. /\ LifecycleRows(rows', s, Len(rows)) # {}
        /\ records[s] = AsOf(rows', s, Len(rows))
    BY <1>1, <1>2, <1>3, <1>6, <1>8, RegisteredIsInRows
  <2>2. Len(rows) + 1 - 1 = Len(rows)
    BY <1>11
  <2> QED BY <1>3, <1>8, <1>11, <2>1, <2>2 DEF LegalUpdate, ver
<1>13. /\ TypeOK' /\ Bases' /\ RecordsAreReplay'
       /\ HistoriesContinue' /\ UpdatesWereRatified' /\ UpdatesFollow'
  BY <1>2, <1>3, <1>6, <1>7, <1>8, <1>9, <1>10, <1>12, RowWritten
<1>14. RatifiedFits'
  BY <1>6 DEF RatifiedFits
<1> QED BY <1>13, <1>14 DEF IInv

\* The verdict's row stays, the records are those of before it.
LEMMA ApplyRaisesInvariant ==
  ASSUME IInv, ApplyRaises
  PROVE  IInv'
<1>1. /\ rows' = rows /\ records' = records /\ at' = at /\ ratified' = None
      /\ base' = base /\ forgotten' = forgotten /\ boots' = boots
  BY DEF ApplyRaises, history
<1>2. TypeOK' /\ Bases' /\ RatifiedFits'
  BY <1>1 DEF IInv, TypeOK, Bases, RatifiedFits
<1>3. RecordsAreReplay'
  BY <1>1 DEF IInv, RecordsAreReplay, Registered
<1>4. HistoriesContinue'
  BY <1>1 DEF IInv, HistoriesContinue, FirstDraft, LegalMove, LegalUpdate
<1>5. UpdatesWereRatified' /\ UpdatesFollow'
  BY <1>1 DEF IInv, UpdatesWereRatified, UpdatesFollow
<1> QED BY <1>2, <1>3, <1>4, <1>5 DEF IInv

\* A new process knows nothing: before a replay no row counts, after an empty start
\* none of the old ones does.
LEMMA RestartInvariant ==
  ASSUME IInv, NEW how \in Boots, Restart(how)
  PROVE  IInv'
<1>1. /\ rows' = rows /\ records' = Nothing /\ ratified' = None /\ boots' = boots + 1
      /\ forgotten \subseteq forgotten'
      /\ \/ at' = 0 /\ base' = 0 /\ forgotten' = forgotten
         \/ at' = Len(rows) /\ base' = Len(rows) /\ forgotten' = forgotten \cup {Len(rows)}
  BY DEF Restart
<1>2. rows \in Seq(Row) /\ Len(rows) \in Nat /\ boots \in Nat /\ forgotten \subseteq 0 .. Len(rows)
  BY DEF IInv, TypeOK
<1>3. TypeOK'
  BY <1>1, <1>2 DEF TypeOK, Nothing
<1>4. Bases' /\ RatifiedFits'
  BY <1>1, <1>2 DEF Bases, RatifiedFits
<1>5. RecordsAreReplay'
  <2>1. at' = base' /\ at' \in Nat
    BY <1>1, <1>2
  <2>2. \A s \in Strategy : ~ Registered(s)'
    BY <1>1 DEF Registered, Nothing
  <2>3. \A s \in Strategy : \A i \in LifecycleRows(rows', s, at') : ~ (i > base')
    BY <2>1 DEF LifecycleRows
  <2> QED BY <2>2, <2>3 DEF RecordsAreReplay
<1>6. HistoriesContinue'
  <2> SUFFICES ASSUME NEW i \in 1 .. Len(rows)
               PROVE  /\ rows[i].kind = "LIFECYCLE" =>
                           FirstDraft(rows, i)' \/ LegalMove(rows, i)
                      /\ rows[i].kind = "UPDATE" => LegalUpdate(rows, i)
    BY <1>1 DEF HistoriesContinue, FirstDraft, LegalMove, LegalUpdate
  <2>1. FirstDraft(rows, i) => FirstDraft(rows, i)'
    BY <1>1 DEF FirstDraft
  <2> QED BY <2>1 DEF IInv, HistoriesContinue
<1>7. UpdatesWereRatified'
  BY <1>1 DEF IInv, UpdatesWereRatified
<1>8. UpdatesFollow'
  <2> SUFFICES ASSUME NEW i \in 1 .. Len(rows), rows[i].kind = "UPDATE", i > base'
               PROVE  \E j \in LifecycleRows(rows, rows[i].strategy, i - 1) : j > base'
    BY <1>1 DEF UpdatesFollow
  <2>1. base' = 0
    BY <1>1, <1>2
  <2>2. LifecycleRows(rows, rows[i].strategy, i - 1) # {}
    BY DEF IInv, HistoriesContinue, LegalUpdate
  <2>3. \A j \in LifecycleRows(rows, rows[i].strategy, i - 1) : j > 0
    BY DEF LifecycleRows
  <2> QED BY <2>1, <2>2, <2>3
<1> QED BY <1>3, <1>4, <1>5, <1>6, <1>7, <1>8 DEF IInv

LEMMA ReplayInvariant ==
  ASSUME IInv, ReplayEntry
  PROVE  IInv'
<1> DEFINE row == rows[at + 1]
<1>1. /\ at < Len(rows) /\ at' = at + 1 /\ rows' = rows /\ records' = Replayed(records, row)
      /\ (row.kind = "UPDATE" => Registered(row.strategy))
      /\ ratified' = ratified /\ base' = base /\ forgotten' = forgotten /\ boots' = boots
  BY DEF ReplayEntry, history
<1>2. rows \in Seq(Row) /\ at \in 0 .. Len(rows) /\ row \in Row
  BY <1>1 DEF IInv, TypeOK
<1>3. records' \in [Strategy -> Record \cup {None}]
  <2>1. records \in [Strategy -> Record \cup {None}]
    BY DEF IInv, TypeOK
  <2>2. CASE row.kind = "LIFECYCLE"
    BY <1>1, <1>2, <2>1, <2>2, RowKinds DEF Replayed
  <2>3. CASE row.kind = "UPDATE"
    <3> DEFINE s == row.strategy
               old == records[s]
               t == Tuned(old, row.version, row.parameter, row.value)
    <3>1. /\ s \in Strategy /\ row.version \in Nat
          /\ row.parameter \in Parameter /\ row.value \in Value
      BY <1>2, <2>3, RowKinds
    <3>2. old \in Record
      BY <1>1, <2>1, <2>3, <3>1 DEF Registered
    <3>3. records' = [records EXCEPT ![s] = t]
      BY <1>1, <2>3 DEF Replayed
    <3> HIDE DEF row, s, old
    <3>4. t \in Record
      BY <3>1, <3>2, TunedFields
    <3> HIDE DEF t
    <3> QED BY <2>1, <3>1, <3>3, <3>4
  <2>4. CASE row.kind \notin {"LIFECYCLE", "UPDATE"}
    BY <1>1, <2>1, <2>4 DEF Replayed
  <2> QED BY <2>2, <2>3, <2>4
<1>4. TypeOK'
  BY <1>1, <1>2, <1>3 DEF IInv, TypeOK
<1>5. Bases'
  BY <1>1, <1>2 DEF IInv, Bases, TypeOK
<1>6. RecordsAreReplay'
  BY <1>1, <1>4, StepReplays DEF IInv
<1>7. HistoriesContinue'
  BY <1>1 DEF IInv, HistoriesContinue, FirstDraft, LegalMove, LegalUpdate
<1>8. UpdatesWereRatified' /\ UpdatesFollow'
  BY <1>1 DEF IInv, UpdatesWereRatified, UpdatesFollow
<1>9. RatifiedFits'
  BY <1>1 DEF IInv, RatifiedFits
<1> QED BY <1>4, <1>5, <1>6, <1>7, <1>8, <1>9 DEF IInv

LEMMA StutterInvariant ==
  ASSUME IInv, UNCHANGED vars
  PROVE  IInv'
<1>1. /\ rows' = rows /\ records' = records /\ at' = at /\ ratified' = ratified
      /\ base' = base /\ forgotten' = forgotten /\ boots' = boots
  BY DEF vars, history
<1>2. TypeOK' /\ Bases'
  BY <1>1 DEF IInv, TypeOK, Bases
<1>3. RecordsAreReplay'
  BY <1>1 DEF IInv, RecordsAreReplay, Registered
<1>4. HistoriesContinue'
  BY <1>1 DEF IInv, HistoriesContinue, FirstDraft, LegalMove, LegalUpdate
<1>5. UpdatesWereRatified' /\ UpdatesFollow' /\ RatifiedFits'
  BY <1>1 DEF IInv, UpdatesWereRatified, UpdatesFollow, RatifiedFits, Ratifiable, Tunable,
              Registered
<1> QED BY <1>2, <1>3, <1>4, <1>5 DEF IInv

THEOREM Invariant == Spec => []IInv
<1>1. Init => IInv
  BY InitInvariant
<1>2. IInv /\ [Next]_vars => IInv'
  <2> SUFFICES ASSUME IInv, [Next]_vars
               PROVE  IInv'
    OBVIOUS
  <2>1. CASE \E s \in Strategy, ps \in [Parameter -> Given],
                ms \in SUBSET Parameter, bs \in [Parameter -> Bound \cup {Value}] :
                  RegisterDraft(s, ps, ms, bs)
    BY <2>1, RegisterInvariant
  <2>2. CASE \E s \in Strategy, new \in Lifecycle : Transition(s, new)
    BY <2>2, TransitionInvariant
  <2>3. CASE \E u \in Proposal, learning \in BOOLEAN : Reject(u, learning)
    BY <2>3, RejectInvariant
  <2>4. CASE \E u \in Proposal, learning \in BOOLEAN : Ratify(u, learning)
    BY <2>4, RatifyInvariant
  <2>5. CASE Apply
    BY <2>5, ApplyInvariant
  <2>6. CASE ApplyRaises
    BY <2>6, ApplyRaisesInvariant
  <2>7. CASE \E how \in Boots : Restart(how)
    BY <2>7, RestartInvariant
  <2>8. CASE ReplayEntry
    BY <2>8, ReplayInvariant
  <2>9. CASE UNCHANGED vars
    BY <2>9, StutterInvariant
  <2> QED BY <2>1, <2>2, <2>3, <2>4, <2>5, <2>6, <2>7, <2>8, <2>9 DEF Next
<1> QED BY <1>1, <1>2, PTL DEF Spec

-----------------------------------------------------------------------------
(* Parameters stay in the bounds of their DRAFT.                           *)

\* ParametersInBounds of the record after n rows, with what carries it on: moves and
\* updates keep the DRAFT's whitelist and bounds.
InBounds(rs, s, n) == \E d \in LifecycleRows(rs, s, n) :
  LET draft == rs[d].record
      as    == AsOf(rs, s, n)
  IN  /\ draft.version = 1
      /\ \A j \in LifecycleRows(rs, s, n) : j > d => rs[j].record.version > 1
      /\ as.version >= 1 /\ as.mutable = draft.mutable /\ as.bounds = draft.bounds
      /\ \A p \in Parameter :
           \/ as.params[p] = draft.params[p]
           \/ p \in draft.mutable /\ as.params[p] \in draft.bounds[p]

RowsInBounds == \A s \in Strategy : \A n \in 0 .. Len(rows) :
  LifecycleRows(rows, s, n) # {} => InBounds(rows, s, n)

LEMMA InBoundsPrefix ==
  ASSUME NEW rs \in Seq(Row), NEW rt \in Seq(Row), NEW s \in Strategy,
         NEW n \in 0 .. Len(rs), n <= Len(rt), \A i \in 1 .. n : rs[i] = rt[i],
         LifecycleRows(rs, s, n) # {}, InBounds(rs, s, n)
  PROVE  InBounds(rt, s, n)
<1>1. /\ LifecycleRows(rs, s, n) = LifecycleRows(rt, s, n)
      /\ AsOf(rs, s, n) = AsOf(rt, s, n)
  BY AsOfPrefix
<1>2. \A i \in LifecycleRows(rs, s, n) : rs[i] = rt[i]
  BY DEF LifecycleRows
<1> QED BY <1>1, <1>2 DEF InBounds

\* A DRAFT is in its own bounds, a move keeps everything, an update was checked.
LEMMA InBoundsNext ==
  ASSUME NEW rs \in Seq(Row), NEW n \in 0 .. Len(rs) - 1, NEW s \in Strategy,
         rs[n + 1].kind = "LIFECYCLE" => FirstDraft(rs, n + 1) \/ LegalMove(rs, n + 1),
         rs[n + 1].kind = "UPDATE" => LegalUpdate(rs, n + 1),
         LifecycleRows(rs, s, n) # {} => InBounds(rs, s, n),
         LifecycleRows(rs, s, n + 1) # {}
  PROVE  InBounds(rs, s, n + 1)
<1> DEFINE row == rs[n + 1]
           a == AsOf(rs, s, n)
           b == AsOf(rs, s, n + 1)
           L == LifecycleRows(rs, s, n)
           M == LifecycleRows(rs, s, n + 1)
<1>1. /\ n \in Nat /\ n + 1 - 1 = n /\ n \in 0 .. Len(rs) /\ row \in Row
      /\ \A j \in L : j \in Nat /\ j <= n
  BY DEF LifecycleRows
<1>2. ASSUME L # {}
      PROVE  a \in Record
  BY <1>1, <1>2, AsOfFields
<1>3. CASE row.kind = "LIFECYCLE" /\ row.strategy = s
  <2>1. M = L \cup {n + 1} /\ b = row.record /\ row.record \in Record
    BY <1>1, <1>3, AsOfLifecycle, RowKinds
  <2>2. CASE FirstDraft(rs, n + 1)
    <3>1. row.record.version = 1
      BY <2>2 DEF FirstDraft
    <3> HIDE DEF row, b, L
    <3>2. /\ n + 1 \in M
          /\ \A j \in M : ~ (j > n + 1)
      BY <1>1, <2>1
    <3>3. b.version >= 1
      BY <2>1, <3>1
    <3> QED BY <2>1, <3>1, <3>2, <3>3 DEF InBounds, row, b
  <2>3. CASE LegalMove(rs, n + 1)
    <3>1. L # {} /\ row.record = Moved(a, row.record.lifecycle)
      BY <1>1, <1>3, <2>3 DEF LegalMove
    <3>2. row.record.lifecycle \in Lifecycle
      BY <2>1 DEF Record
    <3>3. /\ b.version = a.version + 1 /\ b.params = a.params
          /\ b.mutable = a.mutable /\ b.bounds = a.bounds
      BY <1>2, <2>1, <3>1, <3>2, MovedFields
    <3>4. PICK d \in L :
            /\ rs[d].record.version = 1
            /\ \A j \in L : j > d => rs[j].record.version > 1
            /\ a.version >= 1 /\ a.mutable = rs[d].record.mutable
            /\ a.bounds = rs[d].record.bounds
            /\ \A p \in Parameter :
                 \/ a.params[p] = rs[d].record.params[p]
                 \/ p \in rs[d].record.mutable /\ a.params[p] \in rs[d].record.bounds[p]
      BY <3>1 DEF InBounds
    <3>5. a.version \in Nat
      BY <1>2, <3>1 DEF Record
    <3> HIDE DEF a, b, L, M
    <3>6. d \in M /\ \A j \in M : j > d => rs[j].record.version > 1
      BY <2>1, <3>3, <3>4, <3>5
    <3>7. b.version >= 1
      BY <3>3, <3>4, <3>5
    <3> QED BY <3>3, <3>4, <3>6, <3>7 DEF InBounds, b, M
  <2> QED BY <1>3, <2>2, <2>3
<1>4. CASE row.kind = "UPDATE" /\ row.strategy = s
  <2>1. /\ L # {} /\ row.parameter \in a.mutable
        /\ row.value \in a.bounds[row.parameter] /\ row.version = a.version + 1
    BY <1>1, <1>4 DEF LegalUpdate
  <2>2. M = L /\ b = Tuned(a, row.version, row.parameter, row.value)
    BY <1>4, <2>1, AsOfUpdate
  <2>3. row.version \in Nat /\ row.parameter \in Parameter /\ row.value \in Value
    BY <1>1, <1>4, RowKinds
  <2>4. /\ b.version = row.version
        /\ b.params = [a.params EXCEPT ![row.parameter] = row.value]
        /\ b.mutable = a.mutable /\ b.bounds = a.bounds
    <3>1. a \in Record
      BY <1>2, <2>1
    <3> HIDE DEF a, b, row
    <3> QED BY <2>2, <2>3, <3>1, TunedFields
  <2>5. PICK d \in L :
          /\ rs[d].record.version = 1
          /\ \A j \in L : j > d => rs[j].record.version > 1
          /\ a.version >= 1 /\ a.mutable = rs[d].record.mutable
          /\ a.bounds = rs[d].record.bounds
          /\ \A p \in Parameter :
               \/ a.params[p] = rs[d].record.params[p]
               \/ p \in rs[d].record.mutable /\ a.params[p] \in rs[d].record.bounds[p]
    BY <2>1 DEF InBounds
  <2>6. a.version \in Nat /\ a.params \in [Parameter -> Value \cup {None}]
    BY <1>2, <2>1 DEF Record
  <2> HIDE DEF a, b, L, M, row
  <2>7. b.version >= 1
    BY <2>1, <2>4, <2>5, <2>6
  <2>8. \A p \in Parameter :
          \/ b.params[p] = rs[d].record.params[p]
          \/ p \in rs[d].record.mutable /\ b.params[p] \in rs[d].record.bounds[p]
    <3> TAKE p \in Parameter
    <3>1. CASE p = row.parameter
      BY <2>1, <2>3, <2>4, <2>5, <2>6, <3>1
    <3>2. CASE p # row.parameter
      BY <2>3, <2>4, <2>5, <2>6, <3>2
    <3> QED BY <3>1, <3>2
  <2> QED BY <2>2, <2>4, <2>5, <2>7, <2>8 DEF InBounds, b, L, M
<1>5. CASE ~ Touches(rs, s, n)
  <2>1. M = L /\ b = a
    BY <1>5, AsOfOther
  <2> QED BY <2>1 DEF InBounds
<1> QED BY <1>3, <1>4, <1>5 DEF Touches

\* Whatever Next does, the rows stay or get one more, and none is written by a restart.
LEMMA RowsOnlyGrow ==
  ASSUME IInv, IInv', [Next]_vars
  PROVE  \/ rows' = rows
         \/ forgotten' = forgotten /\ \E row : rows' = Append(rows, row)
BY DEF Next, RegisterDraft, Transition, Reject, Ratify, Apply, ApplyRaises, Restart,
       ReplayEntry, Written, vars, history

LEMMA BoundsInvariant ==
  ASSUME IInv, IInv', RowsInBounds, [Next]_vars
  PROVE  RowsInBounds'
<1>1. CASE rows' = rows
  BY <1>1 DEF RowsInBounds
<1>2. ASSUME NEW row, rows' = Append(rows, row), forgotten' = forgotten
      PROVE  RowsInBounds'
  <2>1. /\ rows \in Seq(Row) /\ rows' \in Seq(Row) /\ Len(rows') = Len(rows) + 1
        /\ \A i \in 1 .. Len(rows) : rows[i] = rows'[i]
        /\ Len(rows) \in Nat
    BY <1>2 DEF IInv, TypeOK
  <2> SUFFICES ASSUME NEW s \in Strategy, NEW n \in 0 .. Len(rows'),
                      LifecycleRows(rows', s, n) # {}
               PROVE  InBounds(rows', s, n)
    BY DEF RowsInBounds
  <2>2. ASSUME NEW m \in 0 .. Len(rows), LifecycleRows(rows', s, m) # {}
        PROVE  InBounds(rows', s, m)
    <3>1. m <= Len(rows') /\ \A i \in 1 .. m : rows[i] = rows'[i]
      BY <2>1
    <3>2. LifecycleRows(rows, s, m) # {}
      BY <2>1, <2>2, <3>1, AsOfPrefix
    <3>3. InBounds(rows, s, m)
      BY <3>2 DEF RowsInBounds
    <3> QED BY <2>1, <3>1, <3>2, <3>3, InBoundsPrefix
  <2>3. CASE n = Len(rows) + 1
    <3> DEFINE m == Len(rows)
    <3>1. m \in 0 .. Len(rows') - 1 /\ m + 1 \in 1 .. Len(rows') /\ m \in 0 .. Len(rows)
      BY <2>1
    <3>2. /\ rows'[m + 1].kind = "LIFECYCLE" =>
               FirstDraft(rows', m + 1) \/ LegalMove(rows', m + 1)
          /\ rows'[m + 1].kind = "UPDATE" => LegalUpdate(rows', m + 1)
      BY <1>2, <3>1 DEF IInv, HistoriesContinue, FirstDraft, LegalMove, LegalUpdate
    <3>3. LifecycleRows(rows', s, m) # {} => InBounds(rows', s, m)
      BY <2>2, <3>1
    <3> HIDE DEF m
    <3>4. InBounds(rows', s, m + 1)
      BY <2>1, <2>3, <3>1, <3>2, <3>3, InBoundsNext DEF m
    <3> QED BY <2>3, <3>4 DEF m
  <2>4. CASE n \in 0 .. Len(rows)
    BY <2>2, <2>4
  <2> QED BY <2>1, <2>3, <2>4
<1> QED BY <1>1, <1>2, RowsOnlyGrow

-----------------------------------------------------------------------------
(* One life after another.                                                 *)

VersionIn(row) == IF row.kind = "LIFECYCLE" THEN row.record.version ELSE row.version

Retires(row) == row.kind = "LIFECYCLE" /\ row.record.lifecycle = "RETIRED"

\* Behind row i and up to row j a process that had come up empty, where there were so
\* many rows as F says, drafted s anew.
Reborn(rs, F, s, i, j) == \E d \in LifecycleRows(rs, s, j), e \in F :
  i <= e /\ e < d /\ rs[d].record.version = 1

\* Of two rows of a strategy the later has the greater version, and none comes behind
\* its retirement, unless it was drafted anew between them.
OneLife == \A s \in Strategy : \A i, j \in RowsAbout(rows, s, Len(rows)) : i < j =>
  \/ Reborn(rows, forgotten, s, i, j)
  \/ VersionIn(rows[i]) < VersionIn(rows[j]) /\ ~ Retires(rows[i])

\* The same of the first n rows, with what carries it on: no row of the present life has
\* a greater version than the record they make, and a retired record stays so.
LifeAt(rs, F, s, n) == \A i \in RowsAbout(rs, s, n) :
  /\ LifecycleRows(rs, s, n) # {}
  /\ \/ Reborn(rs, F, s, i, n)
     \/ /\ VersionIn(rs[i]) <= AsOf(rs, s, n).version
        /\ Retires(rs[i]) => AsOf(rs, s, n).lifecycle = "RETIRED"
  /\ \A j \in RowsAbout(rs, s, n) : i < j =>
       \/ Reborn(rs, F, s, i, j)
       \/ VersionIn(rs[i]) < VersionIn(rs[j]) /\ ~ Retires(rs[i])

LEMMA VersionsAreNumbers ==
  ASSUME NEW rs \in Seq(Row), NEW s \in Strategy, NEW n \in 0 .. Len(rs)
  PROVE  \A i \in RowsAbout(rs, s, n) : i \in 1 .. n /\ VersionIn(rs[i]) \in Nat
<1> TAKE i \in RowsAbout(rs, s, n)
<1>1. i \in 1 .. n /\ rs[i] \in Row /\ rs[i].kind \in {"LIFECYCLE", "UPDATE"}
  BY DEF RowsAbout, LifecycleRows, UpdateRows
<1> QED BY <1>1, RowKinds DEF VersionIn, Record

LEMMA LifePrefix ==
  ASSUME NEW rs \in Seq(Row), NEW rt \in Seq(Row), NEW s \in Strategy,
         NEW n \in 0 .. Len(rs), n <= Len(rt), \A i \in 1 .. n : rs[i] = rt[i],
         LifeAt(rs, forgotten, s, n)
  PROVE  LifeAt(rt, forgotten, s, n)
<1>1. /\ LifecycleRows(rs, s, n) = LifecycleRows(rt, s, n)
      /\ LifecycleRows(rs, s, n) # {} => AsOf(rs, s, n) = AsOf(rt, s, n)
  BY AsOfPrefix
<1>2. RowsAbout(rs, s, n) = RowsAbout(rt, s, n)
  BY <1>1 DEF RowsAbout, UpdateRows
<1>3. \A i \in RowsAbout(rs, s, n) : i \in 1 .. n /\ rs[i] = rt[i]
  BY DEF RowsAbout, LifecycleRows, UpdateRows
<1>4. ASSUME NEW i, NEW j \in 1 .. n
      PROVE  Reborn(rs, forgotten, s, i, j) => Reborn(rt, forgotten, s, i, j)
  <2>1. LifecycleRows(rs, s, j) = LifecycleRows(rt, s, j)
    BY <1>4 DEF LifecycleRows
  <2>2. \A d \in LifecycleRows(rs, s, j) : rs[d] = rt[d]
    BY <1>4 DEF LifecycleRows
  <2> QED BY <2>1, <2>2 DEF Reborn
<1>5. \A i : Reborn(rs, forgotten, s, i, n) => Reborn(rt, forgotten, s, i, n)
  <2>1. \A d \in LifecycleRows(rs, s, n) : rs[d] = rt[d]
    BY DEF LifecycleRows
  <2> QED BY <1>1, <2>1 DEF Reborn
<1> QED BY <1>1, <1>2, <1>3, <1>4, <1>5 DEF LifeAt

\* A row that continues the history has a new greatest version, and no row continues
\* a retired one; any other row begins a new life.
LEMMA LifeNext ==
  ASSUME NEW rs \in Seq(Row), NEW n \in 0 .. Len(rs) - 1, NEW s \in Strategy,
         LifeAt(rs, forgotten, s, n),
         rs[n + 1].kind = "LIFECYCLE" => FirstDraft(rs, n + 1) \/ LegalMove(rs, n + 1),
         rs[n + 1].kind = "UPDATE" => LegalUpdate(rs, n + 1)
  PROVE  LifeAt(rs, forgotten, s, n + 1)
<1> DEFINE row == rs[n + 1]
           a == AsOf(rs, s, n)
           b == AsOf(rs, s, n + 1)
           L == LifecycleRows(rs, s, n)
           M == LifecycleRows(rs, s, n + 1)
           R == RowsAbout(rs, s, n)
           S == RowsAbout(rs, s, n + 1)
<1>1. /\ n \in Nat /\ n + 1 \in Nat /\ n + 1 - 1 = n /\ n \in 0 .. Len(rs) /\ row \in Row
      /\ n + 1 \in 0 .. Len(rs) /\ 1 .. n + 1 = (1 .. n) \cup {n + 1}
  OBVIOUS
<1>2. \A i \in R : i \in 1 .. n /\ VersionIn(rs[i]) \in Nat
  BY <1>1, VersionsAreNumbers
<1>3. ASSUME L # {}
      PROVE  a \in Record /\ a.version \in Nat
  BY <1>1, <1>3, AsOfFields DEF Record
\* The step, from what the new row says of the record.
<1>4. ASSUME S = R \cup {n + 1}, M # {}, b.version = VersionIn(row), VersionIn(row) \in Nat,
             Retires(row) => b.lifecycle = "RETIRED",
             \A i \in R : \/ Reborn(rs, forgotten, s, i, n + 1)
                          \/ VersionIn(rs[i]) < VersionIn(row) /\ ~ Retires(rs[i])
      PROVE  LifeAt(rs, forgotten, s, n + 1)
  <2> DEFINE Grows(i, j) == VersionIn(rs[i]) < VersionIn(rs[j]) /\ ~ Retires(rs[i])
             Keeps(i) == VersionIn(rs[i]) <= b.version /\ (Retires(rs[i]) => b.lifecycle = "RETIRED")
  <2> SUFFICES ASSUME NEW i \in S
               PROVE  /\ Reborn(rs, forgotten, s, i, n + 1) \/ Keeps(i)
                      /\ \A j \in S : i < j => Reborn(rs, forgotten, s, i, j) \/ Grows(i, j)
    BY <1>4 DEF LifeAt
  <2>1. CASE i = n + 1
    <3>1. \A j \in S : ~ (i < j)
      BY <1>1, <1>2, <1>4, <2>1
    <3> QED BY <1>4, <2>1, <3>1
  <2>2. CASE i \in R
    <3>1. Reborn(rs, forgotten, s, i, n + 1) \/ Grows(i, n + 1)
      BY <1>4, <2>2
    <3>2. \A j \in R : i < j => Reborn(rs, forgotten, s, i, j) \/ Grows(i, j)
      BY <2>2 DEF LifeAt
    <3>3. \A j \in S : i < j => Reborn(rs, forgotten, s, i, j) \/ Grows(i, j)
      BY <1>4, <3>1, <3>2
    <3>4. Grows(i, n + 1) => Keeps(i)
      <4>1. VersionIn(rs[i]) \in Nat
        BY <1>2, <2>2
      <4> QED BY <1>4, <4>1
    <3> QED BY <3>1, <3>3, <3>4
  <2> QED BY <1>4, <2>1, <2>2
<1>8. ASSUME a.lifecycle # "RETIRED"
      PROVE  \A i \in R : \/ Reborn(rs, forgotten, s, i, n)
                          \/ VersionIn(rs[i]) <= a.version /\ ~ Retires(rs[i])
  <2> TAKE i \in R
  <2>1. \/ Reborn(rs, forgotten, s, i, n)
        \/ VersionIn(rs[i]) <= a.version /\ (Retires(rs[i]) => a.lifecycle = "RETIRED")
    BY DEF LifeAt
  <2> QED BY <1>8, <2>1
\* A life that was over after n rows is over after one more.
<1>9. \A i \in R : Reborn(rs, forgotten, s, i, n) => Reborn(rs, forgotten, s, i, n + 1)
  <2>1. L \subseteq M
    BY <1>1 DEF LifecycleRows
  <2> QED BY <2>1 DEF Reborn
<1>5. CASE row.kind = "LIFECYCLE" /\ row.strategy = s
  <2>1. M = L \cup {n + 1} /\ b = row.record /\ row.record \in Record
    BY <1>1, <1>5, AsOfLifecycle, RowKinds
  <2>2. S = R \cup {n + 1}
    BY <1>1, <1>5 DEF RowsAbout, LifecycleRows, UpdateRows
  <2>3. /\ M # {} /\ VersionIn(row) = row.record.version
        /\ b.version = VersionIn(row) /\ VersionIn(row) \in Nat
        /\ Retires(row) => b.lifecycle = "RETIRED"
    BY <1>5, <2>1 DEF VersionIn, Retires, Record
  <2>4. CASE FirstDraft(rs, n + 1)
    <3>1. /\ row.record.version = 1
          /\ R = {} \/ \E e \in forgotten : e < n + 1 /\ \A i \in R : i <= e
      BY <1>1, <1>5, <2>4 DEF FirstDraft
    <3>2. \A i \in R : Reborn(rs, forgotten, s, i, n + 1)
      <4>1. n + 1 \in M
        BY <2>1
      <4> HIDE DEF R
      <4> QED BY <3>1, <4>1 DEF Reborn
    <3> QED BY <1>4, <2>2, <2>3, <3>2
  <2>5. CASE LegalMove(rs, n + 1)
    <3>1. /\ L # {} /\ row.record = Moved(a, row.record.lifecycle)
          /\ row.record.lifecycle \in LegalTransitions[a.lifecycle]
      BY <1>1, <1>5, <2>5 DEF LegalMove
    <3>2. row.record.lifecycle \in Lifecycle
      BY <2>1 DEF Record
    <3>3. VersionIn(row) = a.version + 1
      BY <1>3, <2>3, <3>1, <3>2, MovedFields
    <3>4. a.lifecycle # "RETIRED"
      BY <3>1 DEF LegalTransitions
    <3>5. \A i \in R : \/ Reborn(rs, forgotten, s, i, n)
                       \/ VersionIn(rs[i]) <= a.version /\ ~ Retires(rs[i])
      BY <1>8, <3>4
    <3>6. \A i \in R : VersionIn(rs[i]) <= a.version => VersionIn(rs[i]) < VersionIn(row)
      <4> HIDE DEF row, a, R
      <4> QED BY <1>2, <1>3, <3>1, <3>3
    <3>7. \A i \in R : \/ Reborn(rs, forgotten, s, i, n + 1)
                       \/ VersionIn(rs[i]) < VersionIn(row) /\ ~ Retires(rs[i])
      <4> HIDE DEF row, a, R
      <4> QED BY <1>9, <3>5, <3>6
    <3> QED BY <1>4, <2>2, <2>3, <3>7
  <2> QED BY <1>5, <2>4, <2>5
<1>6. CASE row.kind = "UPDATE" /\ row.strategy = s
  <2>1. L # {} /\ a.lifecycle = "APPROVED" /\ row.version = a.version + 1
    BY <1>1, <1>6 DEF LegalUpdate
  <2>2. M = L /\ b = Tuned(a, row.version, row.parameter, row.value)
    BY <1>6, <2>1, AsOfUpdate
  <2>3. row.version \in Nat /\ row.parameter \in Parameter /\ row.value \in Value
    BY <1>1, <1>6, RowKinds
  <2>4. b.version = row.version
    <3>1. a \in Record
      BY <1>3, <2>1
    <3> DEFINE k == row.version
               p == row.parameter
               v == row.value
    <3>2. b = Tuned(a, k, p, v) /\ k \in Nat /\ p \in Parameter /\ v \in Value
      BY <2>2, <2>3
    <3> HIDE DEF a, b, row, k, p, v, L, M, R, S
    <3>3. Tuned(a, k, p, v).version = k
      BY <3>1, <3>2 DEF Tuned, Record
    <3> QED BY <3>2, <3>3 DEF k
  <2>5. S = R \cup {n + 1}
    BY <1>1, <1>6 DEF RowsAbout, LifecycleRows, UpdateRows
  <2>6. VersionIn(row) = row.version /\ ~ Retires(row)
    BY <1>6 DEF VersionIn, Retires
  <2>7. \A i \in R : \/ Reborn(rs, forgotten, s, i, n)
                     \/ VersionIn(rs[i]) <= a.version /\ ~ Retires(rs[i])
    BY <1>8, <2>1
  <2>8. \A i \in R : VersionIn(rs[i]) <= a.version => VersionIn(rs[i]) < VersionIn(row)
    <3> HIDE DEF row, a, R
    <3> QED BY <1>2, <1>3, <2>1, <2>6
  <2>9. \A i \in R : \/ Reborn(rs, forgotten, s, i, n + 1)
                     \/ VersionIn(rs[i]) < VersionIn(row) /\ ~ Retires(rs[i])
    <3> HIDE DEF row, a, R
    <3> QED BY <1>9, <2>7, <2>8
  <2> QED BY <1>4, <2>1, <2>2, <2>3, <2>4, <2>5, <2>6, <2>9
<1>7. CASE ~ Touches(rs, s, n)
  <2>1. M = L /\ b = a
    BY <1>7, AsOfOther
  <2>2. S = R
    BY <1>1, <1>7 DEF RowsAbout, LifecycleRows, UpdateRows, Touches
  <2> QED BY <1>9, <2>1, <2>2 DEF LifeAt
<1> QED BY <1>5, <1>6, <1>7 DEF Touches

Lives == \A s \in Strategy : LifeAt(rows, forgotten, s, Len(rows))

LEMMA LivesInvariant ==
  ASSUME IInv, IInv', Lives, [Next]_vars
  PROVE  Lives'
<1>1. CASE rows' = rows
  <2>1. forgotten \subseteq forgotten'
    BY DEF Next, RegisterDraft, Transition, Reject, Ratify, Apply, ApplyRaises, Restart,
           ReplayEntry, vars, history
  <2>2. \A s, i, j : Reborn(rows, forgotten, s, i, j) => Reborn(rows, forgotten', s, i, j)
    BY <2>1 DEF Reborn
  <2>3. \A s \in Strategy :
          LifeAt(rows, forgotten, s, Len(rows)) => LifeAt(rows, forgotten', s, Len(rows))
    BY <2>2 DEF LifeAt
  <2> QED BY <1>1, <2>3 DEF Lives
<1>2. ASSUME NEW row, rows' = Append(rows, row), forgotten' = forgotten
      PROVE  Lives'
  <2> DEFINE n == Len(rows)
  <2>1. /\ rows \in Seq(Row) /\ rows' \in Seq(Row) /\ Len(rows') = n + 1
        /\ \A i \in 1 .. n : rows[i] = rows'[i]
        /\ n \in 0 .. Len(rows) /\ n \in 0 .. Len(rows') - 1 /\ n <= Len(rows')
        /\ n + 1 \in 1 .. Len(rows')
    BY <1>2 DEF IInv, TypeOK
  <2>2. /\ rows'[n + 1].kind = "LIFECYCLE" =>
             FirstDraft(rows', n + 1) \/ LegalMove(rows', n + 1)
        /\ rows'[n + 1].kind = "UPDATE" => LegalUpdate(rows', n + 1)
    BY <1>2, <2>1 DEF IInv, HistoriesContinue, FirstDraft, LegalMove, LegalUpdate
  <2>3. \A s \in Strategy : LifeAt(rows, forgotten, s, n)
    BY DEF Lives
  <2> HIDE DEF n
  <2>4. \A s \in Strategy : LifeAt(rows', forgotten, s, n)
    BY <2>1, <2>3, LifePrefix
  <2>5. \A s \in Strategy : LifeAt(rows', forgotten, s, n + 1)
    BY <2>1, <2>2, <2>4, LifeNext
  <2> QED BY <1>2, <2>1, <2>5 DEF Lives
<1> QED BY <1>1, <1>2, RowsOnlyGrow

-----------------------------------------------------------------------------
(* Theorems.                                                               *)

\* Every reachable state of the registry and its rows is well typed.
THEOREM RegistryTypeCorrect == Spec => []TypeOK
BY Invariant, PTL DEF IInv

\* StrategyRegistry's first promise: whatever raised, stopped or was replayed, the
\* records in memory are what the rows say of the strategies the process knows.
THEOREM RecordsEqualReplay == Spec => []RecordsAreReplay
BY Invariant, PTL DEF IInv

\* Its second promise: the chain holds legal histories only, and a strategy starts
\* anew just where a process came up without replay.
THEOREM ChainHoldsLegalHistories == Spec => []HistoriesContinue
BY Invariant, PTL DEF IInv

\* No parameter row without its verdict, one row for a verdict at most.
THEOREM NoUpdateWithoutVerdict == Spec => []UpdatesWereRatified
BY Invariant, PTL DEF IInv

\* Learning moves a parameter inside the whitelist and the bounds of the strategy's
\* DRAFT, over any moves, updates, failures and restarts.
THEOREM ParametersStayInBounds == Spec => []ParametersInBounds
<1>1. Init => RowsInBounds
  <2> SUFFICES ASSUME Init, NEW s \in Strategy, NEW n \in 0 .. Len(rows)
               PROVE  LifecycleRows(rows, s, n) = {}
    BY DEF RowsInBounds
  <2>1. 1 .. n = {}
    BY DEF Init
  <2> QED BY <2>1 DEF LifecycleRows
<1>2. IInv /\ IInv' /\ RowsInBounds /\ [Next]_vars => RowsInBounds'
  BY BoundsInvariant
<1>3. IInv /\ RowsInBounds => ParametersInBounds
  <2> SUFFICES ASSUME IInv, RowsInBounds, NEW s \in Strategy, Registered(s)
               PROVE  \E d \in LifecycleRows(rows, s, at) :
                        LET draft == rows[d].record
                        IN  /\ draft.version = 1
                            /\ \A j \in LifecycleRows(rows, s, at) :
                                 j > d => rows[j].record.version > 1
                            /\ \A p \in Parameter :
                                 \/ records[s].params[p] = draft.params[p]
                                 \/ /\ p \in draft.mutable
                                    /\ records[s].params[p] \in draft.bounds[p]
    BY DEF ParametersInBounds
  <2>1. LifecycleRows(rows, s, at) # {} /\ records[s] = AsOf(rows, s, at)
    BY DEF IInv, RecordsAreReplay
  <2>2. at \in 0 .. Len(rows)
    BY DEF IInv, TypeOK
  <2>3. InBounds(rows, s, at)
    BY <2>1, <2>2 DEF RowsInBounds
  <2> QED BY <2>1, <2>3 DEF InBounds
<1> QED BY <1>1, <1>2, <1>3, Invariant, PTL DEF Spec

\* StrategyRecord: a version is "monotonically increasing per strategy_id", and RETIRED
\* is "the single terminal state": so it is over any updates, failures and restarts, up
\* to the place where a process that came up empty, as the harness does, drafted the
\* strategy anew.  Where every process replays there is no such place.
THEOREM LivesFollowOneAnother == Spec => []OneLife
<1>1. Init => Lives
  <2> SUFFICES ASSUME Init, NEW s \in Strategy
               PROVE  RowsAbout(rows, s, Len(rows)) = {}
    BY DEF Lives, LifeAt
  <2>1. 1 .. Len(rows) = {}
    BY DEF Init
  <2> QED BY <2>1 DEF RowsAbout, LifecycleRows, UpdateRows
<1>2. IInv /\ IInv' /\ Lives /\ [Next]_vars => Lives'
  BY LivesInvariant
<1>3. Lives => OneLife
  BY DEF Lives, LifeAt, OneLife
<1> QED BY <1>1, <1>2, <1>3, Invariant, PTL DEF Spec
=============================================================================
