----------------------- MODULE AuthorityLedger_proofs -----------------------
(***************************************************************************)
(* Theorems about AuthorityLedger, for any number of processes, requests   *)
(* and crashes: first on a file that nobody edits (MaxEdits = 0), then     *)
(* what the boot check is worth on one that somebody does.                 *)
(***************************************************************************)
EXTENDS AuthorityLedger, WellFoundedInduction, TLAPS

\* The file is not edited behind the writer's back.
Undamaged == MaxEdits = 0

\* Row i of the table has number i - 1.
Numbered == \A i \in DOMAIN disk : disk[i].seq = i - 1

\* An append in progress continues the mirror; after its INSERT it is in the
\* table where the mirror will have it.
StepsContinue == \A p \in Process :
  /\ status[p] = "down" => step[p] = None
  /\ Computed(p) => step[p].row = NewRow(rows[p], step[p].row.request)
  /\ step[p] # None /\ step[p].stage = "inserted" =>
       status[p] = "up" /\ IsPrefixOf(Append(rows[p], step[p].row), disk)

\* A request is in one place: to be made, in an append, or in the table once.
RequestsApart ==
  /\ \A i \in DOMAIN disk : disk[i].request \notin todo
  /\ \A i, j \in DOMAIN disk : disk[i].request = disk[j].request => i = j
  /\ \A p \in Process : Computed(p) =>
       /\ step[p].row.request \notin todo
       /\ \A i \in DOMAIN disk : disk[i].request # step[p].row.request
       /\ \A q \in Process : Computed(q) /\ step[q].row.request = step[p].row.request => q = p

ChainInv == TypeOK /\ edits = 0 /\ Numbered /\ ChainSurvives /\ MirrorsArePrefixes
              /\ StepsContinue

IInv == ChainInv /\ RequestsApart

-----------------------------------------------------------------------------
(* Sequences and chains.                                                   *)

\* A sequence stays a prefix when the longer one grows.
LEMMA PrefixGrows ==
  ASSUME NEW S, NEW s \in Seq(S), NEW t \in Seq(S), NEW e \in S, IsPrefixOf(s, t)
  PROVE  IsPrefixOf(s, Append(t, e))
BY DEF IsPrefixOf

\* Equally long, prefix and sequence are followed by the same.
LEMMA PrefixWhole ==
  ASSUME NEW S, NEW s \in Seq(S), NEW t \in Seq(S), NEW e \in S,
         IsPrefixOf(s, t), Len(s) = Len(t)
  PROVE  IsPrefixOf(Append(s, e), Append(t, e))
BY DEF IsPrefixOf

LEMMA PrefixSelf ==
  ASSUME NEW S, NEW s \in Seq(S)
  PROVE  IsPrefixOf(s, s)
BY DEF IsPrefixOf

\* Of two prefixes of one sequence ... the head of a whole prefix is its own.
LEMMA HeadOfWhole ==
  ASSUME NEW s \in Seq(Row), NEW t \in Seq(Row), IsPrefixOf(s, t), Len(s) = Len(t)
  PROVE  HeadHash(s) = HeadHash(t)
<1>1. CASE s = <<>>
  BY <1>1 DEF HeadHash
<1>2. CASE s # <<>>
  <2>1. t # <<>> /\ Len(s) \in DOMAIN s /\ s[Len(s)] = t[Len(t)]
    BY <1>2 DEF IsPrefixOf
  <2> QED
    BY <1>2, <2>1 DEF HeadHash
<1> QED
  BY <1>1, <1>2

LEMMA HeadType == \A s \in Seq(Row) : HeadHash(s) \in Digest
<1> SUFFICES ASSUME NEW s \in Seq(Row) PROVE HeadHash(s) \in Digest
  OBVIOUS
<1>1. CASE s = <<>>
  BY <1>1 DEF HeadHash, Genesis, Digest
<1>2. CASE s # <<>>
  <2>1. s[Len(s)] \in Row
    BY <1>2
  <2> QED
    BY <1>2, <2>1 DEF HeadHash, Row
<1> QED
  BY <1>1, <1>2

LEMMA NewRowType == \A s \in Seq(Row), r \in Request : NewRow(s, r) \in Row
<1> SUFFICES ASSUME NEW s \in Seq(Row), NEW r \in Request PROVE NewRow(s, r) \in Row
  OBVIOUS
<1>1. HeadHash(s) \in Digest
  BY HeadType
<1>2. Len(s) \in Nat
  OBVIOUS
<1>3. Hash(HeadHash(s), Len(s), r) \in Digest
  BY <1>1, <1>2 DEF Hash, Digest
<1> QED
  BY <1>1, <1>2, <1>3 DEF NewRow, Row

\* A chain that verifies still does with the next row of its mirror.
LEMMA ChainGrows ==
  ASSUME NEW t \in Seq(Row), Verify(t), NEW r \in Request
  PROVE  Verify(Append(t, NewRow(t, r)))
<1> DEFINE u == Append(t, NewRow(t, r))
<1>0. NewRow(t, r) \in Row
  BY NewRowType
<1>1. DOMAIN u = 1 .. Len(t) + 1 /\ DOMAIN t = 1 .. Len(t)
      /\ u[Len(t) + 1] = NewRow(t, r) /\ \A i \in 1 .. Len(t) : u[i] = t[i]
  BY <1>0
<1>2. ASSUME NEW i \in 1 .. Len(t)
      PROVE  u[i].prev = PrevHash(u, i) /\ u[i].hash = Hash(u[i].prev, u[i].seq, u[i].request)
  <2>1. PrevHash(u, i) = PrevHash(t, i)
    BY <1>1 DEF PrevHash
  <2> HIDE DEF u
  <2> QED
    BY <1>1, <2>1 DEF Verify
<1>3. u[Len(t) + 1].prev = PrevHash(u, Len(t) + 1)
  <2>1. CASE t = <<>>
    <3>1. Len(t) = 0
      BY <2>1
    <3> HIDE DEF u
    <3> QED
      BY <1>1, <2>1, <3>1 DEF NewRow, HeadHash, PrevHash
  <2>2. CASE t # <<>>
    <3> HIDE DEF u
    <3>0. Len(t) \in 1 .. Len(t)
      BY <2>2
    <3>1. Len(t) > 0 /\ u[Len(t)] = t[Len(t)]
      BY <1>1, <3>0
    <3> QED
      BY <1>1, <2>2, <3>1 DEF NewRow, HeadHash, PrevHash
  <2> QED
    BY <2>1, <2>2
<1>4. u[Len(t) + 1].hash =
        Hash(u[Len(t) + 1].prev, u[Len(t) + 1].seq, u[Len(t) + 1].request)
  <2> HIDE DEF u
  <2> QED
    BY <1>1 DEF NewRow
<1> HIDE DEF u
<1>5. Verify(u)
  BY <1>1, <1>2, <1>3, <1>4 DEF Verify
<1> QED
  BY <1>5 DEF u

\* A chain cut short still verifies, which is why the boot check cannot see it.
LEMMA ChainCut ==
  ASSUME NEW t \in Seq(Row), Verify(t), NEW n \in 0 .. Len(t)
  PROVE  Verify(SubSeq(t, 1, n))
<1> DEFINE u == SubSeq(t, 1, n)
<1>1. DOMAIN u = 1 .. n /\ \A i \in 1 .. n : u[i] = t[i]
  OBVIOUS
<1> HIDE DEF u
<1>2. \A i \in 1 .. n : PrevHash(u, i) = PrevHash(t, i)
  BY <1>1 DEF PrevHash
<1>3. Verify(u)
  BY <1>1, <1>2 DEF Verify
<1> QED
  BY <1>3 DEF u

-----------------------------------------------------------------------------
(* Types, whatever happens to the file.                                    *)

\* What a process that has a connection holds in an append.
LEMMA StepType ==
  ASSUME TypeOK, NEW p \in Process
  PROVE  /\ step[p] # None => step[p] \in InProgress /\ step[p].row \in Row
                                /\ step[p].row.request \in Request /\ step[p].row.hash \in Digest
                                /\ step[p].stage \in {"computed", "inserted"}
         /\ rows[p] \in Seq(Row)
BY DEF TypeOK, InProgress, Row

\* A damaged file is still a sequence of rows, and of its hashes none is new.
LEMMA DamageTypes ==
  ASSUME TypeOK, Damage
  PROVE  disk' \in Seq(Row) /\ \A j \in DOMAIN disk' : \E k \in DOMAIN disk : disk'[j].hash = disk[k].hash
<1>1. disk \in Seq(Row)
  BY DEF TypeOK
<1>2. PICK i \in DOMAIN disk :
        \/ disk' = SubSeq(disk, 1, i - 1) \o SubSeq(disk, i + 1, Len(disk))
        \/ \E r \in Request : disk' = [disk EXCEPT ![i].request = r]
  BY DEF Damage
<1>3. i \in 1 .. Len(disk) /\ Len(disk) \in Nat
  BY <1>1, <1>2
<1>4. CASE disk' = SubSeq(disk, 1, i - 1) \o SubSeq(disk, i + 1, Len(disk))
  <2> DEFINE a == SubSeq(disk, 1, i - 1)
             b == SubSeq(disk, i + 1, Len(disk))
  <2>1. /\ a \in Seq(Row) /\ Len(a) = i - 1 /\ \A j \in 1 .. i - 1 : a[j] = disk[j]
        /\ b \in Seq(Row) /\ Len(b) = Len(disk) - i
        /\ \A j \in 1 .. Len(disk) - i : b[j] = disk[i + j]
    BY <1>1, <1>3
  <2> HIDE DEF a, b
  <2>2. /\ a \o b \in Seq(Row) /\ DOMAIN (a \o b) = 1 .. Len(disk) - 1
        /\ \A j \in 1 .. Len(disk) - 1 : (a \o b)[j] = IF j <= i - 1 THEN a[j] ELSE b[j - (i - 1)]
    BY <1>3, <2>1
  <2>3. \A j \in 1 .. Len(disk) - 1 : (a \o b)[j] = IF j <= i - 1 THEN disk[j] ELSE disk[j + 1]
    <3> TAKE j \in 1 .. Len(disk) - 1
    <3>1. CASE j <= i - 1
      <4>1. j \in 1 .. i - 1
        BY <1>3, <3>1
      <4> QED
        BY <2>1, <2>2, <3>1, <4>1
    <3>2. CASE ~ (j <= i - 1)
      <4>1. j - (i - 1) \in 1 .. Len(disk) - i /\ i + (j - (i - 1)) = j + 1
        BY <1>3, <3>2
      <4>2. b[j - (i - 1)] = disk[i + (j - (i - 1))]
        BY <2>1, <4>1
      <4> QED
        BY <2>2, <3>2, <4>1, <4>2
    <3> QED
      BY <3>1, <3>2
  <2>4. \A j \in 1 .. Len(disk) - 1 : j \in DOMAIN disk /\ j + 1 \in DOMAIN disk
    BY <1>1, <1>3
  <2> QED
    BY <1>4, <2>2, <2>3, <2>4 DEF a, b
<1>5. ASSUME NEW r \in Request, disk' = [disk EXCEPT ![i].request = r]
      PROVE  disk' \in Seq(Row) /\ \A j \in DOMAIN disk' : disk'[j].hash = disk[j].hash /\ j \in DOMAIN disk
  <2>1. disk[i] \in Row
    BY <1>1, <1>3
  <2>2. [disk[i] EXCEPT !.request = r] \in Row /\ [disk[i] EXCEPT !.request = r].hash = disk[i].hash
    BY <2>1 DEF Row
  <2>3. disk' = [disk EXCEPT ![i] = [disk[i] EXCEPT !.request = r]]
    BY <1>5
  <2> QED
    BY <1>1, <1>3, <2>2, <2>3
<1> QED
  BY <1>2, <1>4, <1>5

LEMMA TypesKept == ASSUME TypeOK, Next PROVE TypeOK'
<1>1. ASSUME NEW p \in Process, Boot(p) \/ Crash(p) \/ Close(p) PROVE TypeOK'
  <2>1. <<>> \in Seq(Row)
    OBVIOUS
  <2> QED
    BY <1>1, <2>1 DEF Boot, Crash, Close, TypeOK
<1>2. ASSUME NEW p \in Process, NEW r \in Request, Compute(p, r) PROVE TypeOK'
  <2>1. NewRow(rows[p], r) \in Row
    BY NewRowType DEF TypeOK
  <2>2. [row |-> NewRow(rows[p], r), stage |-> "computed"] \in InProgress
    BY <2>1 DEF InProgress
  <2> QED
    BY <1>2, <2>2 DEF Compute, TypeOK
<1>3. ASSUME NEW p \in Process, Insert(p) PROVE TypeOK'
  <2>1. step[p] \in InProgress /\ step[p].row \in Row /\ step[p].row.hash \in Digest
    BY <1>3, StepType DEF Insert, Computed
  <2>2. disk' \in Seq(Row)
    BY <1>3, <2>1 DEF Insert, TypeOK
  <2>3. [step[p] EXCEPT !.stage = "inserted"] \in InProgress
    BY <2>1 DEF InProgress
  <2>4. step' \in [Process -> InProgress \cup {None}]
    <3>1. step' = [step EXCEPT ![p] = [step[p] EXCEPT !.stage = "inserted"]]
      BY <1>3 DEF Insert
    <3> QED
      BY <2>3, <3>1 DEF TypeOK
  <2>5. written' \subseteq Digest
    BY <1>3, <2>1 DEF Insert, TypeOK
  <2> QED
    BY <1>3, <2>2, <2>4, <2>5 DEF Insert, TypeOK
<1>4. ASSUME NEW p \in Process, Raise(p) PROVE TypeOK'
  <2>1. step[p].row.request \in Request
    BY <1>4, StepType DEF Raise, Computed
  <2> QED
    BY <1>4, <2>1 DEF Raise, TypeOK
<1>5. ASSUME NEW p \in Process, Mirror(p) PROVE TypeOK'
  <2>1. rows[p] \in Seq(Row) /\ step[p].row \in Row /\ step[p].row.request \in Request
    BY <1>5, StepType DEF Mirror
  <2> QED
    BY <1>5, <2>1 DEF Mirror, TypeOK
<1>6. CASE PowerLoss
  <2>1. PICK n \in 0 .. Len(disk) : disk' = SubSeq(disk, 1, n)
    BY <1>6 DEF PowerLoss
  <2>2. disk' \in Seq(Row)
    BY <2>1 DEF TypeOK
  <2>3. rows' \in [Process -> Seq(Row)]
    <3>1. <<>> \in Seq(Row)
      OBVIOUS
    <3> QED
      BY <1>6, <3>1 DEF PowerLoss
  <2>4. status' \in [Process -> {"down", "up", "closed"}]
        /\ step' \in [Process -> InProgress \cup {None}]
    BY <1>6 DEF PowerLoss
  <2> QED
    BY <1>6, <2>2, <2>3, <2>4 DEF PowerLoss, TypeOK
<1>7. CASE Damage
  <2>1. edits' \in Nat
    BY <1>7 DEF Damage, TypeOK
  <2> QED
    BY <1>7, <2>1, DamageTypes DEF Damage, TypeOK
<1>8. CASE ReadPage
  <2>1. PICK n \in Len(seen) + 1 .. Len(disk) : seen' = seen \o SubSeq(disk, Len(seen) + 1, n)
    BY <1>8 DEF ReadPage
  <2>2. seen \in Seq(Row) /\ SubSeq(disk, Len(seen) + 1, n) \in Seq(Row)
    BY DEF TypeOK
  <2>3. seen' \in Seq(Row)
    BY <2>1, <2>2
  <2> QED
    BY <1>8, <2>3 DEF ReadPage, TypeOK
<1> QED
  BY <1>1, <1>2, <1>3, <1>4, <1>5, <1>6, <1>7, <1>8 DEF Next

-----------------------------------------------------------------------------
(* The chain.                                                              *)

LEMMA InitChain == Init => ChainInv
<1> SUFFICES ASSUME Init PROVE ChainInv
  OBVIOUS
<1>1. TypeOK
  <2>1. \A p \in Process : <<>> \in Seq(Row)
    OBVIOUS
  <2>2. disk \in Seq(Row) /\ seen \in Seq(Row) /\ rows \in [Process -> Seq(Row)]
    BY <2>1 DEF Init
  <2>3. /\ status \in [Process -> {"down", "up", "closed"}]
        /\ step \in [Process -> InProgress \cup {None}]
        /\ todo \subseteq Request /\ acked \subseteq Request
        /\ edits \in Nat /\ written \subseteq Digest
    BY DEF Init
  <2> QED
    BY <2>2, <2>3 DEF TypeOK
<1>2. disk = <<>> /\ DOMAIN disk = {}
  BY DEF Init
<1>3. Numbered /\ ChainSurvives
  BY <1>2 DEF Numbered, ChainSurvives, Verify
<1>4. MirrorsArePrefixes
  BY DEF Init, MirrorsArePrefixes
<1>5. StepsContinue
  BY DEF Init, StepsContinue, Computed
<1> QED
  BY <1>1, <1>3, <1>4, <1>5 DEF ChainInv, Init

LEMMA BootChain ==
  ASSUME ChainInv, NEW p \in Process, Boot(p)
  PROVE  ChainInv'
<1>1. TypeOK'
  BY TypesKept DEF ChainInv, Next
<1>2. (edits = 0 /\ Numbered /\ ChainSurvives)'
  BY DEF ChainInv, Boot, Numbered, ChainSurvives
<1>3. MirrorsArePrefixes'
  <2>1. IsPrefixOf(disk, disk)
    BY PrefixSelf DEF ChainInv, TypeOK
  <2> QED
    BY <2>1 DEF ChainInv, Boot, MirrorsArePrefixes, TypeOK
<1>4. StepsContinue'
  BY DEF ChainInv, Boot, StepsContinue, Computed, TypeOK
<1> QED
  BY <1>1, <1>2, <1>3, <1>4 DEF ChainInv

LEMMA ComputeChain ==
  ASSUME ChainInv, NEW p \in Process, NEW r \in Request, Compute(p, r)
  PROVE  ChainInv'
<1>1. TypeOK'
  BY TypesKept DEF ChainInv, Next
<1>2. (edits = 0 /\ Numbered /\ ChainSurvives /\ MirrorsArePrefixes)'
  BY DEF ChainInv, Compute, Numbered, ChainSurvives, MirrorsArePrefixes
<1>3. StepsContinue'
  <2>1. step'[p] = [row |-> NewRow(rows[p], r), stage |-> "computed"]
        /\ \A q \in Process \ {p} : step'[q] = step[q]
    BY DEF ChainInv, Compute, TypeOK
  <2>2. NewRow(rows[p], r).request = r
    BY DEF NewRow
  <2>3. status' = status /\ rows' = rows /\ disk' = disk /\ status[p] # "down"
    BY DEF Compute
  <2> QED
    BY <2>1, <2>2, <2>3 DEF ChainInv, StepsContinue, Computed
<1> QED
  BY <1>1, <1>2, <1>3 DEF ChainInv

\* The one step that writes: what the primary key admits goes on where the
\* table ends, because the mirror it was computed from is then all of it.
LEMMA InsertChain ==
  ASSUME ChainInv, NEW p \in Process, Insert(p)
  PROVE  /\ ChainInv' /\ rows[p] \in Seq(Row) /\ step[p].row \in Row
         /\ disk' = Append(disk, NewRow(disk, step[p].row.request))
<1> DEFINE row == step[p].row
<1>1. /\ rows[p] \in Seq(Row) /\ disk \in Seq(Row) /\ row \in Row /\ row.request \in Request
      /\ row.hash \in Digest
      /\ row = NewRow(rows[p], row.request) /\ IsPrefixOf(rows[p], disk)
  BY StepType DEF ChainInv, Insert, Computed, StepsContinue, MirrorsArePrefixes, TypeOK, Row
<1>2. Len(rows[p]) = Len(disk)
  <2>1. Len(rows[p]) <= Len(disk) /\ row.seq = Len(rows[p])
    BY <1>1 DEF IsPrefixOf, NewRow
  <2>2. ASSUME Len(rows[p]) < Len(disk) PROVE FALSE
    <3>1. Len(rows[p]) + 1 \in DOMAIN disk
      BY <1>1, <2>2
    <3>2. disk[Len(rows[p]) + 1].seq = Len(rows[p])
      BY <1>1, <3>1 DEF ChainInv, Numbered
    <3> QED
      BY <2>1, <3>1, <3>2 DEF Insert, Taken
  <2> QED
    BY <1>1, <2>1, <2>2
<1>3. row = NewRow(disk, row.request)
  <2>1. HeadHash(rows[p]) = HeadHash(disk)
    BY <1>1, <1>2, HeadOfWhole
  <2> QED
    BY <1>1, <1>2, <2>1 DEF NewRow
<1>4. disk' = Append(disk, row)
  BY DEF Insert
<1>5. TypeOK'
  BY TypesKept DEF ChainInv, Next
<1>6. Numbered'
  <2>1. DOMAIN disk' = 1 .. Len(disk) + 1 /\ DOMAIN disk = 1 .. Len(disk)
        /\ disk'[Len(disk) + 1] = row /\ \A i \in 1 .. Len(disk) : disk'[i] = disk[i]
    BY <1>1, <1>4
  <2>2. row.seq = Len(disk)
    BY <1>3 DEF NewRow
  <2> HIDE DEF row
  <2> QED
    BY <2>1, <2>2, <1>1 DEF ChainInv, Numbered
<1>7. ChainSurvives'
  BY <1>1, <1>3, <1>4, ChainGrows DEF ChainInv, ChainSurvives
<1>8. MirrorsArePrefixes'
  BY <1>1, <1>4, PrefixGrows DEF ChainInv, Insert, MirrorsArePrefixes, TypeOK
<1>9. StepsContinue'
  <2>1. /\ step'[p].row = row /\ step'[p].stage = "inserted"
        /\ \A q \in Process \ {p} : step'[q] = step[q]
        /\ status' = status /\ rows' = rows /\ status[p] = "up"
    BY DEF ChainInv, Insert, TypeOK, InProgress, Computed
  <2>2. IsPrefixOf(Append(rows[p], row), disk')
    BY <1>1, <1>2, <1>4, PrefixWhole
  <2>3. ASSUME NEW q \in Process \ {p}, step[q] # None, step[q].stage = "inserted"
        PROVE  IsPrefixOf(Append(rows[q], step[q].row), disk')
    <3>1. rows[q] \in Seq(Row) /\ step[q].row \in Row
      BY <2>3, StepType DEF ChainInv
    <3>2. IsPrefixOf(Append(rows[q], step[q].row), disk)
      BY <2>3 DEF ChainInv, StepsContinue
    <3>3. Append(rows[q], step[q].row) \in Seq(Row)
      BY <3>1
    <3> QED
      BY <1>1, <1>4, <3>2, <3>3, PrefixGrows
  <2>4. ASSUME NEW q \in Process
        PROVE  /\ status'[q] = "down" => step'[q] = None
               /\ Computed(q)' => step'[q].row = NewRow(rows'[q], step'[q].row.request)
               /\ step'[q] # None /\ step'[q].stage = "inserted" =>
                    status'[q] = "up" /\ IsPrefixOf(Append(rows'[q], step'[q].row), disk')
    <3>1. CASE q = p
      BY <2>1, <2>2, <3>1 DEF Computed
    <3>2. CASE q # p
      BY <2>1, <2>3, <3>2 DEF ChainInv, StepsContinue, Computed
    <3> QED
      BY <3>1, <3>2
  <2> QED
    BY <2>4 DEF StepsContinue
<1> QED
  BY <1>1, <1>3, <1>4, <1>5, <1>6, <1>7, <1>8, <1>9 DEF ChainInv, Insert

LEMMA RaiseChain ==
  ASSUME ChainInv, NEW p \in Process, Raise(p)
  PROVE  ChainInv'
<1>1. TypeOK'
  BY TypesKept DEF ChainInv, Next
<1>2. (edits = 0 /\ Numbered /\ ChainSurvives /\ MirrorsArePrefixes)'
  BY DEF ChainInv, Raise, Numbered, ChainSurvives, MirrorsArePrefixes
<1>3. StepsContinue'
  BY DEF ChainInv, Raise, StepsContinue, Computed, TypeOK
<1> QED
  BY <1>1, <1>2, <1>3 DEF ChainInv

LEMMA MirrorChain ==
  ASSUME ChainInv, NEW p \in Process, Mirror(p)
  PROVE  ChainInv'
<1> DEFINE row == step[p].row
<1>1. rows[p] \in Seq(Row) /\ row \in Row /\ row.request \in Request
  BY StepType DEF ChainInv, Mirror, Row
<1>2. TypeOK'
  BY TypesKept DEF ChainInv, Next
<1>3. (edits = 0 /\ Numbered /\ ChainSurvives)'
  BY DEF ChainInv, Mirror, Numbered, ChainSurvives
<1>4. /\ rows'[p] = Append(rows[p], row) /\ step'[p] = None
      /\ \A q \in Process \ {p} : rows'[q] = rows[q] /\ step'[q] = step[q]
      /\ status' = status /\ disk' = disk
  BY DEF ChainInv, Mirror, TypeOK
<1>5. status[p] = "up" => IsPrefixOf(Append(rows[p], row), disk)
  <2>1. status[p] = "up" => step[p].stage = "inserted" /\ step[p] # None
    BY DEF Mirror
  <2> QED
    BY <2>1 DEF ChainInv, StepsContinue
<1> HIDE DEF row
<1>6. MirrorsArePrefixes'
  BY <1>4, <1>5 DEF ChainInv, MirrorsArePrefixes
<1>7. StepsContinue'
  BY <1>4 DEF ChainInv, StepsContinue, Computed
<1> QED
  BY <1>2, <1>3, <1>6, <1>7 DEF ChainInv

LEMMA CloseChain ==
  ASSUME ChainInv, NEW p \in Process, Close(p)
  PROVE  ChainInv'
<1>1. TypeOK'
  BY TypesKept DEF ChainInv, Next
<1>2. (edits = 0 /\ Numbered /\ ChainSurvives /\ MirrorsArePrefixes)'
  BY DEF ChainInv, Close, Numbered, ChainSurvives, MirrorsArePrefixes, TypeOK
<1>3. StepsContinue'
  BY DEF ChainInv, Close, StepsContinue, Computed, TypeOK
<1> QED
  BY <1>1, <1>2, <1>3 DEF ChainInv

LEMMA CrashChain ==
  ASSUME ChainInv, NEW p \in Process, Crash(p)
  PROVE  ChainInv'
<1>1. TypeOK'
  BY TypesKept DEF ChainInv, Next
<1>2. (edits = 0 /\ Numbered /\ ChainSurvives /\ MirrorsArePrefixes)'
  BY DEF ChainInv, Crash, Numbered, ChainSurvives, MirrorsArePrefixes, TypeOK
<1>3. StepsContinue'
  BY DEF ChainInv, Crash, StepsContinue, Computed, TypeOK
<1> QED
  BY <1>1, <1>2, <1>3 DEF ChainInv

LEMMA PowerLossChain ==
  ASSUME ChainInv, PowerLoss
  PROVE  ChainInv'
<1>0. PICK n \in 0 .. Len(disk) : disk' = SubSeq(disk, 1, n)
  BY DEF PowerLoss
<1>1. disk' \in Seq(Row) /\ DOMAIN disk' = 1 .. n /\ DOMAIN disk = 1 .. Len(disk)
      /\ \A i \in 1 .. n : disk'[i] = disk[i]
  BY <1>0 DEF ChainInv, TypeOK
<1>2. TypeOK'
  BY TypesKept DEF ChainInv, Next
<1>3. (edits = 0 /\ Numbered)'
  BY <1>0, <1>1 DEF ChainInv, PowerLoss, Numbered
<1>4. ChainSurvives'
  BY <1>0, ChainCut DEF ChainInv, TypeOK, ChainSurvives
<1>5. MirrorsArePrefixes' /\ StepsContinue'
  BY DEF PowerLoss, MirrorsArePrefixes, StepsContinue, Computed
<1> QED
  BY <1>2, <1>3, <1>4, <1>5 DEF ChainInv

LEMMA ReadPageChain ==
  ASSUME ChainInv, ReadPage
  PROVE  ChainInv'
<1>1. TypeOK'
  BY TypesKept DEF ChainInv, Next
<1> QED
  BY <1>1 DEF ChainInv, ReadPage, Numbered, ChainSurvives, MirrorsArePrefixes,
     StepsContinue, Computed

LEMMA StepChain ==
  ASSUME Undamaged
  PROVE  ChainInv /\ [Next]_vars => ChainInv'
<1> SUFFICES ASSUME ChainInv, [Next]_vars PROVE ChainInv'
  OBVIOUS
<1>1. ~Damage
  BY DEF Damage, Undamaged, ChainInv
<1>2. CASE UNCHANGED vars
  BY <1>2 DEF vars, ChainInv, TypeOK, Numbered, ChainSurvives, MirrorsArePrefixes,
     StepsContinue, Computed
<1> QED
  BY <1>1, <1>2, BootChain, ComputeChain, InsertChain, RaiseChain, MirrorChain, CloseChain,
     CrashChain, PowerLossChain, ReadPageChain DEF Next

\* Every reachable state is well typed, whatever becomes of the file.
THEOREM LedgerTypeCorrect == Spec => []TypeOK
<1>1. Init => TypeOK
  BY InitChain DEF ChainInv
<1>2. TypeOK /\ [Next]_vars => TypeOK'
  <2>1. TypeOK /\ UNCHANGED vars => TypeOK'
    BY DEF vars, TypeOK
  <2> QED
    BY <2>1, TypesKept
<1> QED
  BY <1>1, <1>2, PTL DEF Spec

\* The chain verifies at every point where a process can crash or the power
\* can fail, with any number of processes appending to the same file.
THEOREM ChainAlwaysVerifies ==
  ASSUME Undamaged
  PROVE  Spec => []ChainSurvives
<1>1. ChainInv => ChainSurvives
  BY DEF ChainInv
<1> QED
  BY <1>1, InitChain, StepChain, PTL DEF Spec

\* A mirror with a connection never says anything the table does not.
THEOREM MirrorsNeverDiverge ==
  ASSUME Undamaged
  PROVE  Spec => []MirrorsArePrefixes
<1>1. ChainInv => MirrorsArePrefixes
  BY DEF ChainInv
<1> QED
  BY <1>1, InitChain, StepChain, PTL DEF Spec

-----------------------------------------------------------------------------
(* Requests, durability and the abstract log.                              *)

LEMMA InitApart == Init => RequestsApart
BY DEF Init, RequestsApart, Computed

LEMMA BootApart ==
  ASSUME RequestsApart, NEW p \in Process, Boot(p)
  PROVE  RequestsApart'
BY DEF Boot, RequestsApart, Computed

LEMMA ComputeApart ==
  ASSUME ChainInv, RequestsApart, NEW p \in Process, NEW r \in Request, Compute(p, r)
  PROVE  RequestsApart'
<1>1. /\ step'[p] = [row |-> NewRow(rows[p], r), stage |-> "computed"]
      /\ \A q \in Process \ {p} : step'[q] = step[q]
      /\ disk' = disk /\ todo' = todo \ {r} /\ r \in todo
  BY DEF ChainInv, Compute, TypeOK
<1>2. step'[p].row.request = r
  BY <1>1 DEF NewRow
<1>3. \A q \in Process \ {p} : Computed(q)' => Computed(q)
  BY <1>1 DEF Computed
<1>4. ASSUME NEW q \in Process, Computed(q)'
      PROVE  /\ step'[q].row.request \notin todo'
             /\ \A i \in DOMAIN disk' : disk'[i].request # step'[q].row.request
             /\ \A o \in Process :
                  Computed(o)' /\ step'[o].row.request = step'[q].row.request => o = q
  <2>1. CASE q = p
    BY <1>1, <1>2, <1>3, <2>1 DEF RequestsApart
  <2>2. CASE q # p
    BY <1>1, <1>2, <1>3, <1>4, <2>2 DEF RequestsApart
  <2> QED
    BY <2>1, <2>2
<1> QED
  BY <1>1, <1>4 DEF RequestsApart

LEMMA InsertApart ==
  ASSUME ChainInv, RequestsApart, NEW p \in Process, Insert(p)
  PROVE  RequestsApart'
<1> DEFINE row == step[p].row
<1>1. disk \in Seq(Row) /\ row \in Row /\ disk' = Append(disk, row) /\ todo' = todo
      /\ Computed(p)
  BY InsertChain DEF Insert, ChainInv, TypeOK
<1>2. DOMAIN disk' = 1 .. Len(disk) + 1 /\ DOMAIN disk = 1 .. Len(disk)
      /\ disk'[Len(disk) + 1] = row /\ \A i \in 1 .. Len(disk) : disk'[i] = disk[i]
  BY <1>1
<1>3. /\ ~Computed(p)' /\ \A q \in Process \ {p} : step'[q] = step[q]
      /\ \A q \in Process \ {p} : Computed(q)' => Computed(q)
  <2>1. step'[p].stage = "inserted"
    <3>1. step[p] \in InProgress
      BY <1>1, StepType DEF ChainInv, Computed
    <3>2. step'[p] = [step[p] EXCEPT !.stage = "inserted"]
      BY DEF Insert, ChainInv, TypeOK
    <3> QED
      BY <3>1, <3>2 DEF InProgress
  <2>2. \A q \in Process \ {p} : step'[q] = step[q]
    BY DEF Insert, ChainInv, TypeOK
  <2> QED
    BY <2>1, <2>2 DEF Computed
<1>4. /\ row.request \notin todo
      /\ \A i \in DOMAIN disk : disk[i].request # row.request
      /\ \A q \in Process \ {p} : Computed(q) => step[q].row.request # row.request
  BY <1>1 DEF RequestsApart
<1> HIDE DEF row
<1>5. \A i \in DOMAIN disk' : disk'[i].request \notin todo'
  BY <1>1, <1>2, <1>4 DEF RequestsApart
<1>6. \A i, j \in DOMAIN disk' : disk'[i].request = disk'[j].request => i = j
  BY <1>1, <1>2, <1>4 DEF RequestsApart
<1>7. ASSUME NEW q \in Process, Computed(q)'
      PROVE  /\ step'[q].row.request \notin todo'
             /\ \A i \in DOMAIN disk' : disk'[i].request # step'[q].row.request
             /\ \A o \in Process :
                  Computed(o)' /\ step'[o].row.request = step'[q].row.request => o = q
  <2>1. q # p /\ Computed(q) /\ step'[q] = step[q]
    BY <1>3, <1>7
  <2>2. \A o \in Process : Computed(o)' => o # p /\ Computed(o) /\ step'[o] = step[o]
    BY <1>3
  <2>3. step[q].row.request \notin todo /\ \A i \in DOMAIN disk : disk[i].request # step[q].row.request
    BY <2>1 DEF RequestsApart
  <2>4. step[q].row.request # row.request
    <3>1. q \in Process \ {p}
      BY <2>1
    <3>2. \A o \in Process \ {p} : Computed(o) => step[o].row.request # row.request
      BY <1>4
    <3> QED
      BY <2>1, <3>1, <3>2
  <2>5. \A i \in DOMAIN disk' : disk'[i].request # step[q].row.request
    BY <1>1, <1>2, <2>3, <2>4
  <2>6. \A o \in Process : Computed(o) /\ step[o].row.request = step[q].row.request => o = q
    BY <2>1 DEF RequestsApart
  <2> QED
    BY <1>1, <2>1, <2>2, <2>3, <2>5, <2>6
<1> QED
  BY <1>5, <1>6, <1>7 DEF RequestsApart

\* An append ends, without a row in the table or with the row it had there.
LEMMA EndApart ==
  ASSUME ChainInv, RequestsApart, NEW p \in Process,
         step' = [step EXCEPT ![p] = None], disk' = disk,
         \/ todo' = todo
         \/ Computed(p) /\ todo' = todo \cup {step[p].row.request}
  PROVE  RequestsApart'
<1>1. step'[p] = None /\ \A q \in Process \ {p} : step'[q] = step[q]
  BY DEF ChainInv, TypeOK
<1>2. \A q \in Process : Computed(q)' => q # p /\ Computed(q) /\ step'[q] = step[q]
  BY <1>1 DEF Computed
<1>3. \A i \in DOMAIN disk : disk[i].request \notin todo'
  BY DEF RequestsApart
<1>4. \A q \in Process : Computed(q)' => step'[q].row.request \notin todo'
  BY <1>2 DEF RequestsApart
<1> QED
  BY <1>2, <1>3, <1>4 DEF RequestsApart

LEMMA PowerLossApart ==
  ASSUME ChainInv, RequestsApart, PowerLoss
  PROVE  RequestsApart'
<1>1. PICK n \in 0 .. Len(disk) : disk' = SubSeq(disk, 1, n)
  BY DEF PowerLoss
<1>2. DOMAIN disk' = 1 .. n /\ DOMAIN disk = 1 .. Len(disk)
      /\ \A i \in 1 .. n : disk'[i] = disk[i]
  BY <1>1 DEF ChainInv, TypeOK
<1>3. \A q \in Process : ~Computed(q)'
  BY DEF PowerLoss, Computed
<1> QED
  BY <1>2, <1>3 DEF PowerLoss, RequestsApart

LEMMA StepApart ==
  ASSUME Undamaged
  PROVE  IInv /\ [Next]_vars => IInv'
<1> SUFFICES ASSUME ChainInv, RequestsApart, [Next]_vars PROVE RequestsApart'
  BY StepChain DEF IInv
<1>1. ~Damage
  BY DEF Damage, Undamaged, ChainInv
<1>2. ASSUME NEW p \in Process, Raise(p) \/ Mirror(p) \/ Crash(p)
      PROVE  RequestsApart'
  <2>1. step' = [step EXCEPT ![p] = None] /\ disk' = disk
    BY <1>2 DEF Raise, Mirror, Crash
  <2>2. \/ todo' = todo
        \/ Computed(p) /\ todo' = todo \cup {step[p].row.request}
    <3>1. CASE Raise(p)
      BY <3>1 DEF Raise
    <3>2. CASE Mirror(p) \/ Crash(p)
      <4>1. todo' = todo
        BY <3>2 DEF Mirror, Crash
      <4> QED
        BY <4>1
    <3> QED
      BY <1>2, <3>1, <3>2
  <2> QED
    BY <2>1, <2>2, EndApart
<1>3. ASSUME NEW p \in Process, Close(p)
      PROVE  RequestsApart'
  BY <1>3 DEF Close, RequestsApart, Computed
<1>4. CASE ReadPage
  BY <1>4 DEF ReadPage, RequestsApart, Computed
<1>5. CASE UNCHANGED vars
  BY <1>5 DEF vars, RequestsApart, Computed
<1> QED
  BY <1>1, <1>2, <1>3, <1>4, <1>5, BootApart, ComputeApart, InsertApart, PowerLossApart DEF Next

\* The requests of a longer table are those of the shorter one and the new one.
LEMMA RequestsAppend ==
  ASSUME NEW t \in Seq(Row), NEW e \in Row
  PROVE  [i \in DOMAIN Append(t, e) |-> Append(t, e)[i].request] =
            Append([i \in DOMAIN t |-> t[i].request], e.request)
<1> DEFINE u == Append(t, e)
           s == [i \in DOMAIN t |-> t[i].request]
<1>1. DOMAIN u = 1 .. Len(t) + 1 /\ DOMAIN t = 1 .. Len(t)
      /\ u[Len(t) + 1] = e /\ \A i \in 1 .. Len(t) : u[i] = t[i]
  OBVIOUS
<1>2. s \in Seq(Request) /\ Len(s) = Len(t) /\ \A i \in 1 .. Len(t) : s[i] = t[i].request
  <2>1. \A r \in Row : r.request \in Request
    BY DEF Row
  <2>2. \A i \in 1 .. Len(t) : t[i] \in Row
    OBVIOUS
  <2>3. \A i \in 1 .. Len(t) : t[i].request \in Request
    BY <2>1, <2>2
  <2> QED
    BY <2>3
<1>3. e.request \in Request
  BY DEF Row
<1> HIDE DEF u, s
<1>4. Append(s, e.request) = [i \in 1 .. Len(t) + 1 |->
        IF i \in 1 .. Len(t) THEN s[i] ELSE e.request]
  <2>1. /\ DOMAIN Append(s, e.request) = 1 .. Len(t) + 1
        /\ Append(s, e.request)[Len(t) + 1] = e.request
        /\ \A i \in 1 .. Len(t) : Append(s, e.request)[i] = s[i]
    BY <1>2, <1>3
  <2> QED
    BY <1>2, <1>3, <2>1
<1>5. [i \in DOMAIN u |-> u[i].request] = [i \in 1 .. Len(t) + 1 |->
        IF i \in 1 .. Len(t) THEN s[i] ELSE e.request]
  BY <1>1, <1>2
<1> QED
  BY <1>4, <1>5 DEF u, s

\* The table is the append-only log: every step that changes it adds one
\* request that it does not hold, however often an INSERT raised before.
THEOREM LedgerIsAppendOnly ==
  ASSUME Undamaged, ~PowerFails
  PROVE  Spec => LogSpec
<1> DEFINE log == [i \in DOMAIN disk |-> disk[i].request]
<1>1. Init => log = <<>>
  BY DEF Init
<1>2. IInv /\ [Next]_vars => [Log!Next]_log
  <2> SUFFICES ASSUME ChainInv, RequestsApart, [Next]_vars, log' # log
               PROVE  Log!Next
    BY DEF IInv
  <2>1. PICK p \in Process : Insert(p)
    <3>1. disk' # disk
      OBVIOUS
    <3> QED
      BY <3>1 DEF Next, vars, Boot, Crash, Close, Compute, Raise, Mirror, PowerLoss,
         Damage, ReadPage, Undamaged, ChainInv
  <2>2. disk \in Seq(Row) /\ step[p].row \in Row /\ disk' = Append(disk, step[p].row)
    BY <2>1, InsertChain DEF Insert, ChainInv, TypeOK
  <2>3. log' = Append(log, step[p].row.request)
    BY <2>2, RequestsAppend
  <2>4. step[p].row.request \in Request
    BY <2>2 DEF Row
  <2>5. step[p].row.request \notin Log!Entered
    <3>1. \A i \in DOMAIN disk : disk[i].request # step[p].row.request
      BY <2>1 DEF Insert, RequestsApart
    <3> QED
      BY <3>1 DEF Log!Entered
  <2> QED
    BY <2>3, <2>4, <2>5 DEF Log!Next
<1>3. Init => IInv
  BY InitChain, InitApart DEF IInv
<1> QED
  BY <1>1, <1>2, <1>3, StepApart, PTL DEF Spec, LogSpec, Log!Spec, Log!Init

\* What was acknowledged is in the table, as is an append after its INSERT.
Durable == /\ AckedIsDurable
           /\ \A p \in Process : status[p] # "closed"

\* While writers stay open and the machine stays up, an acknowledged row is
\* never lost: not by a crash of any process at any point of any append.
THEOREM AckedNeverLost ==
  ASSUME Undamaged, ~PowerFails, ~Closes
  PROVE  Spec => []AckedIsDurable
<1>1. Init => ChainInv /\ Durable
  BY InitChain DEF Init, Durable, AckedIsDurable
<1>2. ChainInv /\ Durable /\ [Next]_vars => Durable'
  <2> SUFFICES ASSUME ChainInv, Durable, [Next]_vars PROVE Durable'
    OBVIOUS
  <2>1. \A p \in Process : status'[p] # "closed"
    BY DEF Durable, ChainInv, TypeOK, Next, vars, Boot, Crash, Close, Compute, Insert, Raise,
       Mirror, PowerLoss, Damage, ReadPage, Undamaged
  <2>2. AckedIsDurable'
    <3>1. CASE \E p \in Process : Mirror(p)
      <4>1. PICK p \in Process : Mirror(p)
        BY <3>1
      <4>2. step[p] # None /\ step[p].stage = "inserted"
        BY <4>1 DEF Mirror, Durable
      <4>3. rows[p] \in Seq(Row) /\ step[p].row \in Row /\ disk \in Seq(Row)
            /\ IsPrefixOf(Append(rows[p], step[p].row), disk)
        BY <4>2, StepType DEF ChainInv, StepsContinue, TypeOK
      <4>4. Len(rows[p]) + 1 \in DOMAIN disk /\ disk[Len(rows[p]) + 1] = step[p].row
        <5>1. /\ Len(Append(rows[p], step[p].row)) = Len(rows[p]) + 1
              /\ Len(rows[p]) + 1 \in DOMAIN Append(rows[p], step[p].row)
              /\ Append(rows[p], step[p].row)[Len(rows[p]) + 1] = step[p].row
          BY <4>3
        <5>2. Len(rows[p]) + 1 <= Len(disk)
          BY <4>3, <5>1 DEF IsPrefixOf
        <5> QED
          BY <4>3, <5>1, <5>2 DEF IsPrefixOf
      <4> QED
        BY <4>1, <4>4 DEF Mirror, Durable, AckedIsDurable
    <3>2. CASE \E p \in Process : Insert(p)
      <4>1. PICK p \in Process : Insert(p)
        BY <3>2
      <4>2. disk \in Seq(Row) /\ step[p].row \in Row /\ disk' = Append(disk, step[p].row)
            /\ acked' = acked
        BY <4>1, InsertChain DEF Insert, ChainInv, TypeOK
      <4>3. \A i \in DOMAIN disk : i \in DOMAIN disk' /\ disk'[i] = disk[i]
        BY <4>2
      <4> QED
        BY <4>2, <4>3 DEF Durable, AckedIsDurable
    <3>3. CASE ~(\E p \in Process : Mirror(p) \/ Insert(p))
      <4>1. disk' = disk /\ acked' = acked
        BY <3>3 DEF Next, vars, Boot, Crash, Close, Compute, Raise, PowerLoss, Damage,
           ReadPage, Undamaged, ChainInv
      <4> QED
        BY <4>1 DEF Durable, AckedIsDurable
    <3> QED
      BY <3>1, <3>2, <3>3
  <2> QED
    BY <2>1, <2>2 DEF Durable
<1>3. Durable => AckedIsDurable
  BY DEF Durable
<1> QED
  BY <1>1, <1>2, <1>3, StepChain, PTL DEF Spec

-----------------------------------------------------------------------------
(* Readers.                                                                *)

\* The next page continues what was read.
LEMMA PageContinues ==
  ASSUME TypeOK, ReaderSeesPrefix, ReadPage
  PROVE  ReaderSeesPrefix'
<1>1. PICK n \in Len(seen) + 1 .. Len(disk) : seen' = seen \o SubSeq(disk, Len(seen) + 1, n)
  BY DEF ReadPage
<1>2. seen \in Seq(Row) /\ disk \in Seq(Row) /\ Len(seen) \in Nat /\ n \in Nat /\ disk' = disk
  BY <1>1 DEF TypeOK, ReadPage
<1> DEFINE page == SubSeq(disk, Len(seen) + 1, n)
<1>3. /\ page \in Seq(Row) /\ Len(page) = n - Len(seen)
      /\ \A j \in 1 .. n - Len(seen) : page[j] = disk[Len(seen) + j]
  BY <1>1, <1>2
<1> HIDE DEF page
<1>4. /\ seen \o page \in Seq(Row) /\ DOMAIN (seen \o page) = 1 .. n /\ Len(seen \o page) = n
      /\ \A j \in 1 .. n : (seen \o page)[j] = IF j <= Len(seen) THEN seen[j] ELSE page[j - Len(seen)]
  BY <1>1, <1>2, <1>3
<1>5. \A j \in 1 .. n : (seen \o page)[j] = disk[j]
  <2> TAKE j \in 1 .. n
  <2>1. CASE j <= Len(seen)
    <3>1. j \in DOMAIN seen
      BY <1>2, <2>1
    <3> QED
      BY <1>4, <2>1, <3>1 DEF ReaderSeesPrefix, IsPrefixOf
  <2>2. CASE ~ (j <= Len(seen))
    <3>1. j - Len(seen) \in 1 .. n - Len(seen) /\ Len(seen) + (j - Len(seen)) = j
      BY <1>2, <2>2
    <3>2. page[j - Len(seen)] = disk[Len(seen) + (j - Len(seen))]
      BY <1>3, <3>1
    <3> QED
      BY <1>4, <2>2, <3>1, <3>2
  <2> QED
    BY <2>1, <2>2
<1>6. seen' = seen \o page
  BY <1>1 DEF page
<1>7. Len(seen') = n /\ DOMAIN seen' = 1 .. n /\ n <= Len(disk')
  BY <1>1, <1>2, <1>4, <1>6
<1>8. \A j \in DOMAIN seen' : seen'[j] = disk'[j]
  BY <1>2, <1>5, <1>6, <1>7
<1> QED
  BY <1>7, <1>8 DEF ReaderSeesPrefix, IsPrefixOf

\* Paging with a cursor misses no row and sees none twice, as long as rows that
\* were there stay there.
THEOREM ReadersMissNothing ==
  ASSUME Undamaged, PowerFails = FALSE
  PROVE  Spec => []ReaderSeesPrefix
<1>1. Init => ReaderSeesPrefix
  BY DEF Init, ReaderSeesPrefix, IsPrefixOf
<1>2. TypeOK /\ edits = 0 /\ ReaderSeesPrefix /\ [Next]_vars => ReaderSeesPrefix'
  <2> SUFFICES ASSUME TypeOK, edits = 0, ReaderSeesPrefix, [Next]_vars PROVE ReaderSeesPrefix'
    OBVIOUS
  <2>1. ~Damage /\ ~PowerLoss
    BY DEF Damage, Undamaged, PowerLoss
  <2>2. ASSUME NEW p \in Process, Insert(p) PROVE ReaderSeesPrefix'
    <3>1. step[p].row \in Row /\ disk' = Append(disk, step[p].row) /\ seen' = seen
      BY <2>2, StepType DEF Insert, Computed
    <3> QED
      BY <3>1, PrefixGrows DEF TypeOK, ReaderSeesPrefix
  <2>3. CASE UNCHANGED <<disk, seen>>
    BY <2>3 DEF ReaderSeesPrefix, IsPrefixOf
  <2> QED
    BY <2>1, <2>2, <2>3, PageContinues
      DEF Next, vars, Boot, Compute, Raise, Mirror, Close, Crash
<1>3. Spec => [](edits = 0)
  BY InitChain, StepChain, PTL DEF Spec, ChainInv
<1> QED
  BY <1>1, <1>2, <1>3, LedgerTypeCorrect, PTL DEF Spec

-----------------------------------------------------------------------------
(* What a boot is worth on a file that somebody edits.                     *)

\* The hashes of a file were written, whatever its rows say now.
HashesWritten == \A i \in DOMAIN disk : disk[i].hash \in written

\* An append in progress has the hash of its row behind the mirror's head.
StepsHashed == \A p \in Process : step[p] # None =>
  /\ status[p] # "down"
  /\ step[p].row.seq = Len(rows[p])
  /\ step[p].row.prev = HeadHash(rows[p])
  /\ step[p].row.hash = Hash(HeadHash(rows[p]), Len(rows[p]), step[p].row.request)
  /\ step[p].stage = "inserted" => step[p].row.hash \in written /\ status[p] = "up"

\* Each row of a chain, chained to the ones before it, was written.
Genuine(rs) == \A i \in DOMAIN rs : Hash(PrevHash(rs, i), rs[i].seq, rs[i].request) \in written

MirrorsGenuine == \A p \in Process : status[p] = "up" => Genuine(rows[p])

GenuineInv == TypeOK /\ HashesWritten /\ StepsHashed /\ MirrorsGenuine

\* A chain grows by a row whose hash is in the file.
LEMMA GenuineGrows ==
  ASSUME NEW rs \in Seq(Row), NEW row \in Row, Genuine(rs),
         Hash(HeadHash(rs), row.seq, row.request) \in written
  PROVE  Genuine(Append(rs, row))
<1> DEFINE u == Append(rs, row)
<1>1. DOMAIN u = 1 .. Len(rs) + 1 /\ DOMAIN rs = 1 .. Len(rs) /\ Len(rs) \in Nat
      /\ u[Len(rs) + 1] = row /\ \A i \in 1 .. Len(rs) : u[i] = rs[i]
  OBVIOUS
<1> HIDE DEF u
<1>2. PrevHash(u, Len(rs) + 1) = HeadHash(rs)
  <2>1. CASE rs = <<>>
    BY <1>1, <2>1 DEF PrevHash, HeadHash
  <2>2. CASE rs # <<>>
    <3>1. Len(rs) \in 1 .. Len(rs) /\ Len(rs) + 1 # 1 /\ Len(rs) + 1 - 1 = Len(rs)
      BY <1>1, <2>2
    <3> QED
      BY <1>1, <2>2, <3>1 DEF PrevHash, HeadHash
  <2> QED
    BY <2>1, <2>2
<1>3. \A i \in 1 .. Len(rs) : PrevHash(u, i) = PrevHash(rs, i)
  BY <1>1 DEF PrevHash
<1>4. Genuine(u)
  BY <1>1, <1>2, <1>3 DEF Genuine
<1> QED
  BY <1>4 DEF u

LEMMA GenuineKept ==
  ASSUME GenuineInv, [Next]_vars
  PROVE  GenuineInv'
<1>0. TypeOK /\ HashesWritten /\ StepsHashed /\ MirrorsGenuine
  BY DEF GenuineInv
<1>1. TypeOK'
  BY <1>0, TypesKept DEF vars, TypeOK
<1>2. ASSUME NEW p \in Process, Boot(p)
      PROVE  (HashesWritten /\ StepsHashed /\ MirrorsGenuine)'
  <2>1. /\ rows' = [rows EXCEPT ![p] = disk] /\ status' = [status EXCEPT ![p] = "up"]
        /\ UNCHANGED <<disk, step, written>> /\ status[p] = "down" /\ step[p] = None
    BY <1>0, <1>2 DEF Boot, StepsHashed
  <2>2. Genuine(disk)
    BY <1>0, <1>2 DEF Boot, Verify, Genuine, HashesWritten
  <2> QED
    BY <1>0, <2>1, <2>2 DEF HashesWritten, StepsHashed, MirrorsGenuine, Genuine, TypeOK
<1>3. ASSUME NEW p \in Process, NEW r \in Request, Compute(p, r)
      PROVE  (HashesWritten /\ StepsHashed /\ MirrorsGenuine)'
  <2>1. /\ step' = [step EXCEPT ![p] = [row |-> NewRow(rows[p], r), stage |-> "computed"]]
        /\ status[p] # "down" /\ UNCHANGED <<disk, rows, status, written>>
    BY <1>3 DEF Compute
  <2> QED
    BY <1>0, <2>1 DEF HashesWritten, StepsHashed, MirrorsGenuine, Genuine, TypeOK, NewRow
<1>4. ASSUME NEW p \in Process, Insert(p)
      PROVE  (HashesWritten /\ StepsHashed /\ MirrorsGenuine)'
  <2>1. /\ disk' = Append(disk, step[p].row) /\ written' = written \cup {step[p].row.hash}
        /\ step' = [step EXCEPT ![p].stage = "inserted"] /\ UNCHANGED <<rows, status>>
        /\ step[p] \in InProgress /\ step[p].row \in Row /\ status[p] = "up" /\ step[p] # None
    BY <1>0, <1>4, StepType DEF Insert, Computed
  <2>2. HashesWritten'
    BY <1>0, <2>1 DEF HashesWritten, TypeOK
  <2>3. /\ step'[p].row = step[p].row /\ \A q \in Process \ {p} : step'[q] = step[q]
    BY <1>0, <2>1 DEF TypeOK, InProgress
  <2>4. StepsHashed'
    BY <1>0, <2>1, <2>3 DEF StepsHashed
  <2>5. MirrorsGenuine'
    BY <1>0, <2>1 DEF MirrorsGenuine, Genuine
  <2> QED
    BY <2>2, <2>4, <2>5
<1>5. ASSUME NEW p \in Process, Raise(p)
      PROVE  (HashesWritten /\ StepsHashed /\ MirrorsGenuine)'
  BY <1>0, <1>5 DEF Raise, HashesWritten, StepsHashed, MirrorsGenuine, Genuine, TypeOK
<1>6. ASSUME NEW p \in Process, Mirror(p)
      PROVE  (HashesWritten /\ StepsHashed /\ MirrorsGenuine)'
  <2>1. /\ rows' = [rows EXCEPT ![p] = Append(@, step[p].row)]
        /\ step' = [step EXCEPT ![p] = None] /\ UNCHANGED <<disk, status, written>>
        /\ step[p] # None /\ (step[p].stage = "inserted" \/ status[p] = "closed")
        /\ step[p].row \in Row /\ rows[p] \in Seq(Row)
    BY <1>0, <1>6, StepType DEF Mirror
  <2>2. status[p] = "up" => Genuine(Append(rows[p], step[p].row))
    <3> SUFFICES ASSUME status[p] = "up" PROVE Genuine(Append(rows[p], step[p].row))
      OBVIOUS
    <3>1. Hash(HeadHash(rows[p]), step[p].row.seq, step[p].row.request) \in written
      BY <1>0, <2>1 DEF StepsHashed
    <3> QED
      BY <1>0, <2>1, <3>1, GenuineGrows DEF MirrorsGenuine
  <2>3. /\ rows'[p] = Append(rows[p], step[p].row)
        /\ \A q \in Process \ {p} : rows'[q] = rows[q] /\ step'[q] = step[q]
        /\ step'[p] = None
    BY <1>0, <2>1 DEF TypeOK
  <2>5. MirrorsGenuine'
    <3> SUFFICES ASSUME NEW q \in Process, status[q] = "up" PROVE Genuine(rows[q])'
      BY <2>1 DEF MirrorsGenuine
    <3>1. CASE q = p
      BY <2>1, <2>2, <2>3, <3>1 DEF Genuine
    <3>2. CASE q # p
      BY <1>0, <2>1, <2>3, <3>2 DEF Genuine, MirrorsGenuine
    <3> QED
      BY <3>1, <3>2
  <2>6. StepsHashed' /\ HashesWritten'
    BY <1>0, <2>1, <2>3 DEF StepsHashed, HashesWritten
  <2> QED
    BY <2>5, <2>6
<1>7. ASSUME NEW p \in Process, Close(p)
      PROVE  (HashesWritten /\ StepsHashed /\ MirrorsGenuine)'
  BY <1>0, <1>7 DEF Close, HashesWritten, StepsHashed, MirrorsGenuine, Genuine, TypeOK
<1>8. ASSUME NEW p \in Process, Crash(p)
      PROVE  (HashesWritten /\ StepsHashed /\ MirrorsGenuine)'
  BY <1>0, <1>8 DEF Crash, HashesWritten, StepsHashed, MirrorsGenuine, Genuine, TypeOK
<1>9. CASE PowerLoss
  <2>1. PICK n \in 0 .. Len(disk) : disk' = SubSeq(disk, 1, n)
    BY <1>9 DEF PowerLoss
  <2>2. \A i \in DOMAIN disk' : i \in DOMAIN disk /\ disk'[i] = disk[i]
    BY <1>0, <2>1 DEF TypeOK
  <2> QED
    BY <1>0, <1>1, <1>9, <2>2 DEF PowerLoss, GenuineInv, HashesWritten, StepsHashed, MirrorsGenuine
<1>10. CASE Damage
  <2>1. \A j \in DOMAIN disk' : \E k \in DOMAIN disk : disk'[j].hash = disk[k].hash
    BY <1>0, <1>10, DamageTypes
  <2>2. UNCHANGED <<rows, status, step, written>>
    BY <1>10 DEF Damage
  <2> QED
    BY <1>0, <1>1, <2>1, <2>2 DEF GenuineInv, HashesWritten, StepsHashed, MirrorsGenuine, Genuine
<1>11. CASE UNCHANGED <<disk, rows, status, step, written>>
  BY <1>0, <1>1, <1>11 DEF GenuineInv, HashesWritten, StepsHashed, MirrorsGenuine, Genuine
<1> QED
  BY <1>1, <1>2, <1>3, <1>4, <1>5, <1>6, <1>7, <1>8, <1>9, <1>10, <1>11
     DEF Next, vars, ReadPage, GenuineInv

\* Head of the rows before row i.
LEMMA HeadBefore ==
  ASSUME NEW rs \in Seq(Row), NEW i \in DOMAIN rs
  PROVE  HeadHash(SubSeq(rs, 1, i - 1)) = PrevHash(rs, i)
<1> DEFINE u == SubSeq(rs, 1, i - 1)
<1>1. /\ i \in 1 .. Len(rs) /\ Len(rs) \in Nat /\ u \in Seq(Row) /\ Len(u) = i - 1
      /\ \A j \in 1 .. i - 1 : u[j] = rs[j]
  OBVIOUS
<1> HIDE DEF u
<1>2. CASE i = 1
  BY <1>1, <1>2 DEF HeadHash, PrevHash, u
<1>3. CASE i # 1
  <2>1. u # <<>> /\ i - 1 \in 1 .. i - 1
    BY <1>1, <1>3
  <2> QED
    BY <1>1, <1>3, <2>1 DEF HeadHash, PrevHash, u
<1> QED
  BY <1>2, <1>3

\* Whatever was done to the file, a process that booted mirrors rows that were
\* written, in the order they were written.
THEOREM BootsAreGenuine == Spec => []BootedIsGenuine
<1>1. Init => GenuineInv
  <2>1. Init => TypeOK
    BY InitChain DEF ChainInv
  <2> QED
    BY <2>1 DEF Init, GenuineInv, HashesWritten, StepsHashed, MirrorsGenuine
<1>2. GenuineInv /\ [Next]_vars => GenuineInv'
  BY GenuineKept
<1>3. GenuineInv => BootedIsGenuine
  BY HeadBefore DEF GenuineInv, BootedIsGenuine, MirrorsGenuine, Genuine, TypeOK
<1> QED
  BY <1>1, <1>2, <1>3, PTL DEF Spec

-----------------------------------------------------------------------------
(* Writer and offline verifier.                                            *)

\* Every hash that was written counts its rows from 0.
WrittenInOrder == \A h \in written : \A k \in DOMAIN h : h[k][1] = k - 1

\* The head of a mirror with a connection is as long as the mirror.
HeadsMeasure == \A p \in Process : status[p] = "up" =>
  /\ Len(HeadHash(rows[p])) = Len(rows[p])
  /\ rows[p] # <<>> => HeadHash(rows[p]) \in written

OrderInv == GenuineInv /\ WrittenInOrder /\ HeadsMeasure

\* The hash of row i of a chain that verifies has i entries: otherwise there
\* were a first row for which it has not.
LEMMA VerifiedLengths ==
  ASSUME NEW rs \in Seq(Row), Verify(rs)
  PROVE  \A i \in DOMAIN rs : Len(rs[i].hash) = i
<1> DEFINE Bad == {i \in DOMAIN rs : Len(rs[i].hash) # i}
<1> SUFFICES ASSUME Bad # {} PROVE FALSE
  OBVIOUS
<1>0. \A i \in Bad : i \in 1 .. Len(rs) /\ Len(rs) \in Nat
  OBVIOUS
<1>1. Bad \subseteq Nat
  BY <1>0
<1>2. \E i \in Bad : \A j \in Bad : ~ (<<j, i>> \in OpToRel(<, Nat))
  <2> HIDE DEF Bad
  <2> QED
    BY <1>1, NatLessThanWellFounded, WFMin
<1>3. PICK i \in Bad : \A j \in Bad : ~ (j < i)
  BY <1>1, <1>2 DEF OpToRel
<1>4. /\ i \in 1 .. Len(rs) /\ Len(rs) \in Nat /\ rs[i] \in Row
      /\ rs[i].prev = PrevHash(rs, i)
      /\ rs[i].hash = Append(rs[i].prev, <<rs[i].seq, rs[i].request>>)
  BY <1>0 DEF Verify, Hash
<1>5. rs[i].prev \in Digest /\ <<rs[i].seq, rs[i].request>> \in Nat \X Request
  BY <1>4 DEF Row
<1>6. Len(rs[i].hash) = Len(rs[i].prev) + 1
  BY <1>4, <1>5 DEF Digest
<1>7. Len(rs[i].prev) = i - 1
  <2>1. CASE i = 1
    BY <1>4, <2>1 DEF PrevHash, Genesis
  <2>2. CASE i # 1
    <3>1. i - 1 \in DOMAIN rs /\ i - 1 < i
      BY <1>4, <2>2
    <3>2. i - 1 \notin Bad
      BY <1>3, <3>1
    <3> QED
      BY <1>4, <2>2, <3>1, <3>2 DEF PrevHash
  <2> QED
    BY <2>1, <2>2
<1>8. Len(rs[i].hash) = i
  BY <1>4, <1>6, <1>7
<1> QED
  BY <1>8

\* A hash that continues an ordered one by the next number is ordered.
LEMMA OrderGrows ==
  ASSUME NEW h \in Digest, \A k \in DOMAIN h : h[k][1] = k - 1, NEW r \in Request
  PROVE  LET g == Hash(h, Len(h), r)
         IN  Len(g) = Len(h) + 1 /\ \A k \in DOMAIN g : g[k][1] = k - 1
<1> DEFINE g == Append(h, <<Len(h), r>>)
<1>1. /\ h \in Seq(Nat \X Request) /\ Len(h) \in Nat /\ <<Len(h), r>> \in Nat \X Request
      /\ DOMAIN h = 1 .. Len(h)
  BY DEF Digest
<1>2. /\ DOMAIN g = 1 .. Len(h) + 1 /\ Len(g) = Len(h) + 1
      /\ g[Len(h) + 1] = <<Len(h), r>> /\ \A k \in 1 .. Len(h) : g[k] = h[k]
  BY <1>1
<1> HIDE DEF g
<1>3. \A k \in DOMAIN g : g[k][1] = k - 1
  <2> TAKE k \in DOMAIN g
  <2>1. CASE k = Len(h) + 1
    BY <1>1, <1>2, <2>1
  <2>2. CASE k # Len(h) + 1
    <3>1. k \in DOMAIN h
      BY <1>1, <1>2, <2>2
    <3> QED
      BY <1>1, <1>2, <3>1
  <2> QED
    BY <2>1, <2>2
<1> QED
  BY <1>2, <1>3 DEF g, Hash

LEMMA OrderKept ==
  ASSUME OrderInv, [Next]_vars
  PROVE  OrderInv'
<1>0. TypeOK /\ HashesWritten /\ StepsHashed /\ WrittenInOrder /\ HeadsMeasure /\ GenuineInv'
  BY GenuineKept DEF OrderInv, GenuineInv
<1>1. ASSUME NEW p \in Process, Boot(p) PROVE WrittenInOrder' /\ HeadsMeasure'
  <2>1. /\ rows' = [rows EXCEPT ![p] = disk] /\ status' = [status EXCEPT ![p] = "up"]
        /\ written' = written /\ Verify(disk) /\ disk \in Seq(Row)
    BY <1>0, <1>1 DEF Boot, TypeOK
  <2>2. /\ Len(HeadHash(disk)) = Len(disk)
        /\ disk # <<>> => HeadHash(disk) \in written
    <3>1. CASE disk = <<>>
      BY <3>1 DEF HeadHash, Genesis
    <3>2. CASE disk # <<>>
      <4>1. Len(disk) \in DOMAIN disk
        BY <2>1, <3>2
      <4> QED
        BY <1>0, <2>1, <3>2, <4>1, VerifiedLengths DEF HeadHash, HashesWritten
    <3> QED
      BY <3>1, <3>2
  <2>3. rows'[p] = disk /\ \A q \in Process \ {p} : rows'[q] = rows[q] /\ status'[q] = status[q]
    BY <1>0, <2>1 DEF TypeOK
  <2> QED
    BY <1>0, <2>1, <2>2, <2>3 DEF WrittenInOrder, HeadsMeasure
<1>2. ASSUME NEW p \in Process, Insert(p) PROVE WrittenInOrder' /\ HeadsMeasure'
  <2>1. /\ written' = written \cup {step[p].row.hash} /\ UNCHANGED <<rows, status>>
        /\ step[p].row \in Row /\ step[p].row.request \in Request
        /\ status[p] = "up" /\ step[p] # None
        /\ rows[p] \in Seq(Row) /\ HeadHash(rows[p]) \in Digest
    BY <1>0, <1>2, StepType, HeadType DEF Insert, Computed
  <2> DEFINE h == HeadHash(rows[p])
  <2>2. step[p].row.hash = Hash(h, Len(h), step[p].row.request)
    BY <1>0, <2>1 DEF StepsHashed, HeadsMeasure
  <2>3. \A k \in DOMAIN h : h[k][1] = k - 1
    <3>1. CASE rows[p] = <<>>
      <4>1. h = <<>>
        BY <3>1 DEF HeadHash, Genesis
      <4> QED
        BY <4>1
    <3>2. CASE rows[p] # <<>>
      BY <1>0, <2>1, <3>2 DEF WrittenInOrder, HeadsMeasure
    <3> QED
      BY <3>1, <3>2
  <2> HIDE DEF h
  <2>4. \A k \in DOMAIN step[p].row.hash : step[p].row.hash[k][1] = k - 1
    BY <2>1, <2>2, <2>3, OrderGrows DEF h
  <2> QED
    BY <1>0, <2>1, <2>4 DEF WrittenInOrder, HeadsMeasure
<1>3. ASSUME NEW p \in Process, Mirror(p) PROVE WrittenInOrder' /\ HeadsMeasure'
  <2>1. /\ rows' = [rows EXCEPT ![p] = Append(@, step[p].row)] /\ UNCHANGED <<status, written>>
        /\ step[p] # None /\ (step[p].stage = "inserted" \/ status[p] = "closed")
        /\ step[p].row \in Row /\ step[p].row.request \in Request
        /\ rows[p] \in Seq(Row) /\ HeadHash(rows[p]) \in Digest
    BY <1>0, <1>3, StepType, HeadType DEF Mirror
  <2>2. \A q \in Process \ {p} : rows'[q] = rows[q]
    BY <1>0, <2>1 DEF TypeOK
  <2>3. rows'[p] = Append(rows[p], step[p].row)
    BY <1>0, <2>1 DEF TypeOK
  <2>4. /\ rows'[p] # <<>> /\ Len(rows'[p]) = Len(rows[p]) + 1 /\ Len(rows[p]) \in Nat
        /\ HeadHash(rows'[p]) = step[p].row.hash
    BY <2>1, <2>3 DEF HeadHash
  <2>5. ASSUME status[p] = "up"
        PROVE  Len(step[p].row.hash) = Len(rows[p]) + 1 /\ step[p].row.hash \in written
    <3>1. /\ step[p].row.hash \in written
          /\ step[p].row.hash = Append(HeadHash(rows[p]), <<Len(rows[p]), step[p].row.request>>)
          /\ Len(HeadHash(rows[p])) = Len(rows[p])
      BY <1>0, <2>1, <2>5 DEF StepsHashed, HeadsMeasure, Hash
    <3>2. <<Len(rows[p]), step[p].row.request>> \in Nat \X Request
      BY <2>1, <2>4
    <3> QED
      BY <2>1, <3>1, <3>2 DEF Digest
  <2>6. HeadsMeasure'
    <3> SUFFICES ASSUME NEW q \in Process, status[q] = "up"
                 PROVE  /\ Len(HeadHash(rows'[q])) = Len(rows'[q])
                        /\ rows'[q] # <<>> => HeadHash(rows'[q]) \in written
      BY <2>1 DEF HeadsMeasure, HeadHash
    <3>1. CASE q = p
      BY <2>4, <2>5, <3>1
    <3>2. CASE q # p
      BY <1>0, <2>2, <3>2 DEF HeadsMeasure
    <3> QED
      BY <3>1, <3>2
  <2> QED
    BY <1>0, <2>1, <2>6 DEF WrittenInOrder
<1>4. ASSUME NEW p \in Process, Crash(p) \/ Close(p) PROVE WrittenInOrder' /\ HeadsMeasure'
  BY <1>0, <1>4 DEF Crash, Close, TypeOK, WrittenInOrder, HeadsMeasure
<1>5. CASE PowerLoss
  BY <1>0, <1>5 DEF PowerLoss, OrderInv, WrittenInOrder, HeadsMeasure
<1>6. CASE UNCHANGED <<rows, status, written>>
  BY <1>0, <1>6 DEF OrderInv, WrittenInOrder, HeadsMeasure
<1> QED
  BY <1>0, <1>1, <1>2, <1>3, <1>4, <1>5, <1>6
     DEF Next, vars, Compute, Raise, Damage, ReadPage, OrderInv

\* The rows of a file that verifies carry the numbers they were written with.
LEMMA VerifiedNumbers ==
  ASSUME OrderInv, Verify(disk)
  PROVE  \A i \in DOMAIN disk : disk[i].seq = i - 1
<1> SUFFICES ASSUME NEW i \in DOMAIN disk PROVE disk[i].seq = i - 1
  OBVIOUS
<1>1. /\ disk \in Seq(Row) /\ disk[i] \in Row /\ disk[i].hash \in written
      /\ disk[i].hash = Append(disk[i].prev, <<disk[i].seq, disk[i].request>>)
  BY DEF OrderInv, GenuineInv, TypeOK, HashesWritten, Verify, Hash
<1>2. disk[i].prev \in Seq(Nat \X Request) /\ <<disk[i].seq, disk[i].request>> \in Nat \X Request
  BY <1>1 DEF Row, Digest
<1>3. Len(disk[i].hash) = i
  BY <1>1, VerifiedLengths
<1>4. i \in DOMAIN disk[i].hash /\ disk[i].hash[i] = <<disk[i].seq, disk[i].request>>
  BY <1>1, <1>2, <1>3
<1>5. disk[i].hash[i][1] = i - 1
  BY <1>1, <1>4 DEF OrderInv, WrittenInOrder
<1> QED
  BY <1>4, <1>5

\* hash_chain.py: writer and offline verifier agree on every file, edited or
\* not, but for payloads that are not text.
THEOREM VerifiersAlwaysAgree == Spec => []VerifiersAgree
<1>1. Init => OrderInv
  <2>1. Init => GenuineInv
    <3>1. Init => TypeOK
      BY InitChain DEF ChainInv
    <3> QED
      BY <3>1 DEF Init, GenuineInv, HashesWritten, StepsHashed, MirrorsGenuine
  <2> QED
    BY <2>1 DEF Init, OrderInv, WrittenInOrder, HeadsMeasure
<1>2. OrderInv /\ [Next]_vars => OrderInv'
  BY OrderKept
<1>3. OrderInv => VerifiersAgree
  BY VerifiedNumbers DEF VerifiersAgree, OfflineVerify, Verify
<1> QED
  BY <1>1, <1>2, <1>3, PTL DEF Spec
=============================================================================
