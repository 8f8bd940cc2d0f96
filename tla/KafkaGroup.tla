----------------------------- MODULE KafkaGroup -----------------------------
(***************************************************************************)
(* A consumer group of the in-memory Kafka broker                          *)
(* (system_engine/streaming/kafka_bus.py).  There is no coordinator: a     *)
(* consumer is told who is in the group when it subscribes, takes its      *)
(* share of the partitions by its own arithmetic and reads the committed   *)
(* offsets once; a stopped one is replaced by a new handle.  So handles    *)
(* with different views of the group fetch and commit side by side.  A     *)
(* caller may also commit or seek any offset it likes: nobody looks where  *)
(* the log ends.  Partitions and member names are numbers, sorted as such. *)
(***************************************************************************)
EXTENDS Integers, FiniteSets, Functions

CONSTANTS Partition,  \* 0 .. n - 1, of every topic of the subscription
          Member,     \* member names
          MaxLog,     \* bound on the records of all partitions together
          MaxOffset,  \* bound on the offsets a caller names, past the end too
          MaxMoves    \* bound on how often callers name an offset

ASSUME KafkaAssumption == /\ Partition \subseteq Nat /\ Member \subseteq Nat
                          /\ IsFiniteSet(Partition) /\ IsFiniteSet(Member)
                          /\ MaxLog \in Nat /\ MaxOffset \in Nat /\ MaxMoves \in Nat

VARIABLES ends,       \* length of each partition's log
          committed,  \* the group's offsets in the broker
          view,       \* group_members of each handle, empty before subscribe
          position,   \* _positions of each handle, by partition
          passed,     \* history: by partition, the offsets that some handle
                      \* has fetched or some caller has jumped over by number
          moves       \* history: how often callers have named an offset

kafkaVars == <<ends, committed, view, position, passed, moves>>

KafkaTypeOK == /\ ends \in [Partition -> Nat]
               /\ committed \in [Partition -> Nat]
               /\ view \in [Member -> SUBSET Member]
               /\ position \in [Member -> [Partition -> Nat]]
               /\ passed \in [Partition -> SUBSET Nat]
               /\ moves \in 0 .. MaxMoves

KafkaInit == /\ ends = [p \in Partition |-> 0]
             /\ committed = [p \in Partition |-> 0]
             /\ view = [m \in Member |-> {}]
             /\ position = [m \in Member |-> [p \in Partition |-> 0]]
             /\ passed = [p \in Partition |-> {}]
             /\ moves = 0

Rank(x, all) == Cardinality({y \in all : y < x})

\* The first partition of the i-th slice, when the first extra slices are one
\* longer.
SliceStart(i, n) ==
  LET base == Cardinality(Partition) \div n
      extra == Cardinality(Partition) % n
  IN i * base + (IF i < extra THEN i ELSE extra)

\* Mutant: the rest of the division is left out.
MutAssigned(m, members) ==
  LET n == Cardinality(members)
      base == Cardinality(Partition) \div n
  IN {p \in Partition : m \in members /\ Rank(p, Partition) \div base = Rank(m, members)}

\* assign_partitions: contiguous slices, in order of the names.
Assigned(m, members) ==
  {p \in Partition : /\ m \in members
                     /\ Rank(p, Partition) >= SliceStart(Rank(m, members), Cardinality(members))
                     /\ Rank(p, Partition) < SliceStart(Rank(m, members) + 1, Cardinality(members))}

Mine(m) == IF view[m] = {} THEN {} ELSE Assigned(m, view[m])

Full == FoldFunction(+, 0, ends) >= MaxLog

\* send, to the partition of the key or in turn.
Append1(p) == /\ ~ Full
              /\ ends' = [ends EXCEPT ![p] = @ + 1]
              /\ UNCHANGED <<committed, view, position, passed, moves>>

\* subscribe, the first one or another after the group has changed.
Subscribe(m, members) ==
  /\ m \in members
  /\ view' = [view EXCEPT ![m] = members]
  /\ position' = [position EXCEPT ![m] = [p \in Partition |->
                    IF p \in Assigned(m, members) THEN committed[p] ELSE 0]]
  /\ UNCHANGED <<ends, committed, passed, moves>>

\* getmany: at most n from each of its partitions, none at or past the end.
GetMany(m, n) ==
  LET upTo(p) == IF position[m][p] + n < ends[p] THEN position[m][p] + n ELSE ends[p]
      news == {p \in Mine(m) : position[m][p] < ends[p]}
  IN /\ news # {}
     /\ position' = [position EXCEPT ![m] = [p \in Partition |->
                       IF p \in news THEN upTo(p) ELSE position[m][p]]]
     /\ passed' = [p \in Partition |->
                     IF p \in news THEN passed[p] \cup position[m][p] .. upTo(p) - 1
                                   ELSE passed[p]]
     /\ UNCHANGED <<ends, committed, view, moves>>

\* Mutant: it commits where the log ends.
MutCommit(m) ==
  /\ view[m] # {}
  /\ committed' = [p \in Partition |-> IF p \in Mine(m) THEN ends[p] ELSE committed[p]]
  /\ UNCHANGED <<ends, view, position, passed, moves>>

\* commit() of the positions: whatever is committed there by now.
Commit(m) ==
  /\ view[m] # {}
  /\ committed' = [p \in Partition |-> IF p \in Mine(m) THEN position[m][p] ELSE committed[p]]
  /\ UNCHANGED <<ends, view, position, passed, moves>>

\* commit(offsets), by any handle and for any partitions, its own or not: up
\* to there the caller takes the records for read.
CommitOffsets(partitions, offset) ==
  /\ moves < MaxMoves /\ moves' = moves + 1
  /\ committed' = [p \in Partition |-> IF p \in partitions THEN offset[p] ELSE committed[p]]
  /\ passed' = [p \in Partition |->
                  IF p \in partitions THEN passed[p] \cup committed[p] .. offset[p] - 1
                                      ELSE passed[p]]
  /\ UNCHANGED <<ends, view, position>>

\* seek, back or ahead, past the end too: what lies between is jumped over.
Seek(m, p, offset) ==
  /\ p \in Mine(m)
  /\ moves < MaxMoves /\ moves' = moves + 1
  /\ position' = [position EXCEPT ![m][p] = offset]
  /\ passed' = [passed EXCEPT ![p] = @ \cup position[m][p] .. offset - 1]
  /\ UNCHANGED <<ends, committed, view>>

\* stop, or the end of the process.
Stop(m) == /\ view[m] # {}
           /\ view' = [view EXCEPT ![m] = {}]
           /\ position' = [position EXCEPT ![m] = [p \in Partition |-> 0]]
           /\ UNCHANGED <<ends, committed, passed, moves>>

KafkaNext == \/ \E p \in Partition : Append1(p)
             \/ \E partitions \in SUBSET Partition :
                  \E offset \in [partitions -> 0 .. MaxOffset] : CommitOffsets(partitions, offset)
             \/ \E m \in Member :
                  \/ \E members \in SUBSET Member : Subscribe(m, members)
                  \/ \E n \in 1 .. MaxLog : GetMany(m, n)
                  \/ \E p \in Partition, offset \in 0 .. MaxOffset : Seek(m, p, offset)
                  \/ Commit(m) \/ Stop(m)

KafkaSpec == KafkaInit /\ [][KafkaNext]_kafkaVars

-----------------------------------------------------------------------------
(* Properties.                                                             *)

\* kafka_bus.py, "consumer position is durably persisted via explicit commit()
\* calls": handles that disagree on the group, commit late, are replaced and
\* seek back take nothing from it.  Whatever lies below the committed offset,
\* or below where a handle reads on, was fetched by somebody, unless a caller
\* jumped over it by number, with commit(offsets) or seek.
OnlyCallersSkip ==
  \A p \in Partition :
    /\ 0 .. committed[p] - 1 \subseteq passed[p]
    /\ \A m \in Member : 0 .. position[m][p] - 1 \subseteq passed[p]

\* kafka_bus.py, "disjoint partition assignments": handles that agree on the
\* group share the partitions out among them, each to one of them.
AgreedGroupsPartition ==
  \A members \in SUBSET Member :
    (members # {} /\ \A m \in members : view[m] = members) =>
       \A p \in Partition : Cardinality({m \in members : p \in Mine(m)}) = 1
=============================================================================
