---------------------------- MODULE PulsarBroker ----------------------------
(***************************************************************************)
(* A durable subscription of the in-memory Pulsar broker                   *)
(* (system_engine/streaming/pulsar_bus.py) on one partition: the scans and *)
(* the answers of different partitions do not meet.  Consumers come and    *)
(* go, take messages in batches and answer each message they took at most  *)
(* once.  Names are numbers, so the sorted roster is in their order.  The  *)
(* redelivery counters, which nothing is decided by, are left out.         *)
(***************************************************************************)
EXTENDS Naturals, FiniteSets, SequencesExt

CONSTANTS Consumer,     \* consumer names
          KeyHash,      \* hashes of the message keys
          MaxEntries,   \* bound on the log
          MaxBatch      \* bound on max_records

ASSUME PulsarAssumption == /\ Consumer \subseteq Nat /\ KeyHash \subseteq Nat
                           /\ MaxEntries \in Nat /\ MaxBatch \in Nat \ {0}

VARIABLES type,     \* the subscription's type
          log,      \* the key's hash of each message; entry_id e is log[e + 1]
          floor,    \* cursor: the first entry that is not acknowledged
          acked,    \* acknowledged above the floor
          pending,  \* delivered and not answered
          roster,   \* attached consumers
          taken,    \* what each open handle has not answered
          offered   \* entries that were ever delivered, or before the start

pulsarVars == <<type, log, floor, acked, pending, roster, taken, offered>>

SubscriptionType == {"EXCLUSIVE", "SHARED", "FAILOVER", "KEY_SHARED"}
Entries == 0 .. Len(log) - 1

PulsarTypeOK == /\ type \in SubscriptionType
                /\ log \in Seq(KeyHash)
                /\ floor \in Nat
                /\ acked \subseteq Nat /\ pending \subseteq Nat /\ offered \subseteq Nat
                /\ roster \subseteq Consumer
                /\ taken \in [Consumer -> SUBSET Nat]

\* The first attach: from the earliest message or behind the latest.
PulsarInit == /\ type \in SubscriptionType
              /\ \E n \in 0 .. 1 : \E h \in KeyHash : log = [i \in 1 .. n |-> h]
              /\ floor \in {0, Len(log)}
              /\ acked = {} /\ pending = {}
              /\ roster = {}
              /\ taken = [c \in Consumer |-> {}]
              /\ offered = 0 .. floor - 1

Produce == /\ Len(log) < MaxEntries
           /\ \E h \in KeyHash : log' = Append(log, h)
           /\ UNCHANGED <<type, floor, acked, pending, roster, taken, offered>>

\* A second consumer of an exclusive subscription is refused.
Attach(c) == /\ c \notin roster
             /\ type = "EXCLUSIVE" => roster = {}
             /\ roster' = roster \cup {c}
             /\ UNCHANGED <<type, log, floor, acked, pending, taken, offered>>

\* close: what the handle had not answered stays pending, and nobody has it.
Detach(c) == /\ c \in roster
             /\ roster' = roster \ {c}
             /\ taken' = [taken EXCEPT ![c] = {}]
             /\ UNCHANGED <<type, log, floor, acked, pending, offered>>

Nth(n) == SetToSortSeq(roster, <)[(n % Cardinality(roster)) + 1]

\* consumer_owns; a message without a key counts as one whose hash is 0.
Owns(c, e) == /\ c \in roster
              /\ CASE type = "EXCLUSIVE" -> roster = {c}
                   [] type = "FAILOVER" -> c = Nth(0)
                   [] type = "SHARED" -> c = Nth(e)
                   [] type = "KEY_SHARED" -> c = Nth(log[e + 1])

\* Mutant: what is pending may be scanned again.
MutDeliverable(c) == {e \in Entries : e >= floor /\ e \notin acked /\ Owns(c, e)}

Deliverable(c) == {e \in Entries : e >= floor /\ e \notin acked \cup pending /\ Owns(c, e)}

\* The first n of a set.
Earliest(n, some) == {e \in some : Cardinality({d \in some : d < e}) < n}

\* receive, fetch_for.
Receive(c, n) == LET some == Earliest(n, Deliverable(c))
                 IN /\ c \in roster /\ some # {}
                    /\ pending' = pending \cup some
                    /\ taken' = [taken EXCEPT ![c] = @ \cup some]
                    /\ offered' = offered \cup some
                    /\ UNCHANGED <<type, log, floor, acked, roster>>

\* The floor behind the run of entries in a set that begins at it.
Collapsed(from, some) == CHOOSE f \in from .. Len(log) + 1 :
                           /\ f \notin some
                           /\ from .. f - 1 \subseteq some

\* acknowledge of one message.
AckOne(c, e) == /\ e \in taken[c]
                /\ taken' = [taken EXCEPT ![c] = @ \ {e}]
                /\ pending' = pending \ {e}
                /\ LET all == acked \cup {d \in {e} : d >= floor}
                   IN /\ floor' = Collapsed(floor, all)
                      /\ acked' = {d \in all : d >= floor'}
                /\ UNCHANGED <<type, log, roster, offered>>

\* Mutant: the floor goes to the message, whatever it was.
MutAckUpTo(c, e) ==
  /\ type \in {"EXCLUSIVE", "FAILOVER"}
  /\ e \in taken[c]
  /\ floor' = e + 1
  /\ pending' = {d \in pending : d > e}
  /\ acked' = {d \in acked : d > e}
  /\ taken' = [taken EXCEPT ![c] = {d \in @ : d > e}]
  /\ UNCHANGED <<type, log, roster, offered>>

\* acknowledge_cumulative: every entry up to this one, whoever has it.
AckUpTo(c, e) ==
  /\ type \in {"EXCLUSIVE", "FAILOVER"}
  /\ e \in taken[c]
  /\ floor' = IF e >= floor THEN e + 1 ELSE floor
  /\ pending' = {d \in pending : d > e}
  /\ acked' = {d \in acked : d > e}
  /\ taken' = [taken EXCEPT ![c] = {d \in @ : d > e}]
  /\ UNCHANGED <<type, log, roster, offered>>

\* negative_acknowledge; below the floor it comes too late.
Nack(c, e) == /\ e \in taken[c]
              /\ taken' = [taken EXCEPT ![c] = @ \ {e}]
              /\ pending' = pending \ {e}
              /\ acked' = acked \ {e}
              /\ UNCHANGED <<type, log, floor, roster, offered>>

PulsarNext == \/ Produce
              \/ \E c \in Consumer : \/ Attach(c) \/ Detach(c)
                                     \/ \E n \in 1 .. MaxBatch : Receive(c, n)
                                     \/ \E e \in taken[c] : AckOne(c, e) \/ AckUpTo(c, e) \/ Nack(c, e)

PulsarSpec == PulsarInit /\ [][PulsarNext]_pulsarVars

-----------------------------------------------------------------------------
(* Properties.                                                             *)

Queue == INSTANCE WorkQueue WITH sent <- Len(log),
                                 handed <- offered,
                                 with <- taken,
                                 done <- acked \cup 0 .. floor - 1

\* pulsar_bus.py, the four subscription types and "contiguous-ack floor":
\* whatever the type, and however consumers come, go and answer in any order,
\* no message is with two of them, none is settled that was never delivered,
\* and a settled one stays settled.
ImplementsQueue == Queue!QueueSpec
=============================================================================
