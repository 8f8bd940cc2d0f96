------------------------- MODULE PulsarBroker_proofs -------------------------
(***************************************************************************)
(* A subscription of the broker is a work queue, for any consumers, keys,  *)
(* log and batch: each of its steps is one of the queue, or none.          *)
(***************************************************************************)
EXTENDS PulsarBroker, FiniteSetTheorems, WellFoundedInduction, TLAPS

Numbers == /\ type \in SubscriptionType
           /\ log \in Seq(KeyHash)
           /\ floor \in 0 .. Len(log)
           /\ offered \in SUBSET Entries
           /\ taken \in [Consumer -> SUBSET Entries]

\* Everything about a message happens after it was offered.
Offers == /\ acked \subseteq offered /\ pending \subseteq offered
          /\ 0 .. floor - 1 \subseteq offered
          /\ \A c \in Consumer : taken[c] \subseteq offered

\* Who has a message has it alone; it is pending, or the floor went over it.
Holds == /\ \A c \in Consumer, e \in Entries :
              e \in taken[c] => e \notin acked /\ (e \in pending \/ e < floor)
         /\ \A c, d \in Consumer : c # d => taken[c] \cap taken[d] = {}

\* What one consumer at a time is given, it is given in order.
InOrder == type \in {"EXCLUSIVE", "FAILOVER"} =>
             \A e \in offered : \A d \in 0 .. e : d \in offered

PulsarInv == Numbers /\ Offers /\ Holds /\ InOrder

-----------------------------------------------------------------------------
(* The floor.                                                              *)

(* A set of numbers that is not empty has a least.                         *)
LEMMA LeastExists ==
  ASSUME NEW I \in SUBSET Nat, I # {}
  PROVE  \E f \in I : \A g \in I : f <= g
<1>1. \E x \in I : \A y \in I : ~ (<<y, x>> \in OpToRel(<, Nat))
  BY NatLessThanWellFounded, WFMin
<1>2. PICK x \in I : \A y \in I : ~ (y < x)
  BY <1>1 DEF OpToRel
<1>3. \A y \in I : x <= y
  BY <1>2
<1> QED BY <1>3

(* The floor behind a run of entries is there to be found.                 *)
LEMMA CollapsedExists ==
  ASSUME log \in Seq(KeyHash), NEW from \in 0 .. Len(log), NEW some \in SUBSET Entries
  PROVE  /\ Collapsed(from, some) \in from .. Len(log)
         /\ \A d \in from .. Collapsed(from, some) - 1 : d \in some
<1> DEFINE Free == {f \in from .. Len(log) : f \notin some}
<1>0. Len(log) \in Nat /\ from \in Nat
  OBVIOUS
<1>1. Len(log) \in Free /\ Free \subseteq Nat
  BY <1>0 DEF Entries
<1>2. PICK f \in Free : \A g \in Free : f <= g
  BY <1>1, LeastExists
<1>3. f \notin some /\ f \in from .. Len(log) + 1 /\ \A d \in from .. f - 1 : d \in some
  BY <1>0, <1>2
<1>4. LET f0 == Collapsed(from, some)
      IN  f0 \in from .. Len(log) + 1 /\ f0 \notin some /\ from .. f0 - 1 \subseteq some
  BY <1>3 DEF Collapsed
<1>5. Collapsed(from, some) # Len(log) + 1
  BY <1>0, <1>4 DEF Entries
<1> QED BY <1>0, <1>4, <1>5

-----------------------------------------------------------------------------
(* What is received.                                                       *)

(* The first of a set are part of it, and what comes before one of them in *)
(* it is one of them.                                                      *)
LEMMA EarliestFirst ==
  ASSUME log \in Seq(KeyHash), NEW n \in Nat, NEW all \in SUBSET Entries
  PROVE  /\ Earliest(n, all) \subseteq all
         /\ \A e \in Earliest(n, all) : \A d \in all : d < e => d \in Earliest(n, all)
<1>0. Earliest(n, all) \subseteq all
  BY DEF Earliest
<1> SUFFICES ASSUME NEW e \in Earliest(n, all), NEW d \in all, d < e
             PROVE  d \in Earliest(n, all)
  BY <1>0
<1> DEFINE B(x) == {y \in all : y < x}
<1>1. IsFiniteSet(Entries)
  <2>1. Len(log) - 1 \in Int
    OBVIOUS
  <2> QED BY <2>1, FS_Interval DEF Entries
<1>2. d \in Int /\ e \in Int /\ \A x \in all : x \in Int
  <2>1. \A x \in Entries : x \in Int
    BY DEF Entries
  <2> QED BY <1>0, <2>1
<1>3. B(d) \subseteq B(e)
  <2>1. \A x \in all : x < d => x < e
    BY <1>2
  <2> QED BY <2>1
<1>4. IsFiniteSet(B(e)) /\ IsFiniteSet(B(d))
  BY <1>1, FS_Subset
<1>5. Cardinality(B(d)) <= Cardinality(B(e)) /\ Cardinality(B(d)) \in Nat /\ Cardinality(B(e)) \in Nat
  BY <1>3, <1>4, FS_Subset, FS_CardinalityType
<1>6. Cardinality(B(e)) < n
  BY DEF Earliest
<1>7. Cardinality(B(d)) < n
  BY <1>5, <1>6
<1> QED BY <1>7 DEF Earliest

(* A consumer that receives alone owns all messages or none.               *)
LEMMA OwnsAlike ==
  ASSUME type \in {"EXCLUSIVE", "FAILOVER"}, NEW c, NEW d, NEW e, Owns(c, d)
  PROVE  Owns(c, e)
BY DEF Owns

LEMMA ReceiveMapped ==
  ASSUME PulsarInv, NEW c \in Consumer, NEW n \in Nat, Receive(c, n)
  PROVE  /\ PulsarInv'
         /\ \E some \in SUBSET (0 .. Len(log) - 1) : Queue!Hand(c, some)
<1> DEFINE some == Earliest(n, Deliverable(c))
<1>0. /\ Deliverable(c) \subseteq Entries /\ some \subseteq Deliverable(c)
      /\ log \in Seq(KeyHash) /\ Len(log) \in Nat
  BY EarliestFirst DEF PulsarInv, Numbers, Deliverable
<1>1. /\ pending' = pending \cup some
      /\ taken' = [taken EXCEPT ![c] = @ \cup some]
      /\ offered' = offered \cup some
      /\ UNCHANGED <<type, log, floor, acked, roster>>
  BY DEF Receive
<1>2. \A e \in some : e \in Entries /\ e >= floor /\ e \notin acked /\ e \notin pending
  BY <1>0 DEF Deliverable
<1>3. \A d \in Consumer : \A e \in some : e \notin taken[d]
  BY <1>2 DEF PulsarInv, Holds, Numbers, Entries
<1>4. InOrder'
  <2> SUFFICES ASSUME type \in {"EXCLUSIVE", "FAILOVER"}, NEW e \in offered', NEW d \in 0 .. e
               PROVE  d \in offered'
    BY <1>1 DEF InOrder
  <2>1. CASE e \in offered
    BY <1>1, <2>1 DEF PulsarInv, InOrder
  <2>2. CASE e \in some /\ d \in Deliverable(c)
    <3>1. d = e \/ d < e
      BY <1>2, <2>2 DEF Entries
    <3> QED BY <1>0, <1>1, <2>2, <3>1, EarliestFirst
  <2>3. CASE e \in some /\ d \notin Deliverable(c)
    <3>1. Owns(c, d)
      BY <1>0, <2>3, OwnsAlike DEF Deliverable
    <3>2. d \in Entries
      BY <1>0, <1>2, <2>3 DEF Entries
    <3>3. d < floor \/ d \in acked \/ d \in pending
      BY <2>3, <3>1, <3>2 DEF Deliverable, PulsarInv, Numbers, Entries
    <3>4. d \in offered
      BY <3>2, <3>3 DEF PulsarInv, Offers, Numbers, Entries
    <3> QED BY <1>1, <3>4
  <2> QED BY <1>1, <2>1, <2>2, <2>3
<1>5. Numbers'
  BY <1>0, <1>1, <1>2 DEF PulsarInv, Numbers, Entries
<1> HIDE DEF some
<1>6. Offers'
  BY <1>1 DEF PulsarInv, Offers, Numbers
<1>7. Holds'
  <2>1. /\ taken'[c] = taken[c] \cup some
        /\ \A d \in Consumer \ {c} : taken'[d] = taken[d]
        /\ acked' = acked /\ floor' = floor /\ pending' = pending \cup some /\ Entries' = Entries
    BY <1>1 DEF PulsarInv, Numbers, Entries
  <2> QED BY <1>2, <1>3, <2>1 DEF PulsarInv, Holds
<1>8. Queue!Hand(c, some)
  <2>1. some \cap (acked \cup 0 .. floor - 1) = {}
    BY <1>2 DEF PulsarInv, Numbers, Entries
  <2>2. some \subseteq 0 .. Len(log) - 1
    BY <1>2 DEF Entries
  <2> QED BY <1>1, <1>3, <2>1, <2>2 DEF Queue!Hand
<1> QED BY <1>2, <1>4, <1>5, <1>6, <1>7, <1>8 DEF PulsarInv, Entries

-----------------------------------------------------------------------------
(* The answers.                                                            *)

LEMMA AckOneMapped ==
  ASSUME PulsarInv, NEW c \in Consumer, NEW e \in taken[c], AckOne(c, e)
  PROVE  /\ PulsarInv'
         /\ \E some \in SUBSET (0 .. Len(log) - 1) : Queue!Settle(c, some)
<1> DEFINE all == acked \cup {d \in {e} : d >= floor}
<1>0. /\ log \in Seq(KeyHash) /\ Len(log) \in Nat /\ floor \in 0 .. Len(log)
      /\ e \in Entries /\ e \in offered /\ all \subseteq Entries
  BY DEF PulsarInv, Numbers, Offers
<1>1. /\ taken' = [taken EXCEPT ![c] = @ \ {e}]
      /\ pending' = pending \ {e}
      /\ floor' = Collapsed(floor, all)
      /\ acked' = {d \in all : d >= floor'}
      /\ UNCHANGED <<type, log, roster, offered>>
  BY DEF AckOne
<1>2. floor' \in floor .. Len(log) /\ \A d \in floor .. floor' - 1 : d \in all
  BY <1>0, <1>1, CollapsedExists
<1>3. /\ taken'[c] = taken[c] \ {e}
      /\ \A d \in Consumer \ {c} : taken'[d] = taken[d]
      /\ taken' \in [Consumer -> SUBSET Entries] /\ Entries' = Entries
  BY <1>1 DEF PulsarInv, Numbers, Entries
<1>4. all \subseteq acked \cup {e} /\ acked \subseteq all /\ (e >= floor => e \in all)
  OBVIOUS
<1> HIDE DEF all
<1>5. Numbers'
  BY <1>0, <1>1, <1>2, <1>3 DEF PulsarInv, Numbers
<1>6. Offers'
  <2>1. all \subseteq offered /\ acked' \subseteq offered /\ pending' \subseteq offered
    BY <1>0, <1>1, <1>4 DEF PulsarInv, Offers
  <2>2. \A d \in 0 .. floor' - 1 : d \in offered
    <3> TAKE d \in 0 .. floor' - 1
    <3>1. d \in 0 .. floor - 1 \/ d \in floor .. floor' - 1
      BY <1>0, <1>2
    <3> QED BY <1>2, <2>1, <3>1 DEF PulsarInv, Offers
  <2>3. \A d \in Consumer : taken'[d] \subseteq taken[d]
    BY <1>3
  <2> QED BY <1>1, <2>1, <2>2, <2>3 DEF PulsarInv, Offers
<1>7. Holds'
  <2>1. \A d \in Consumer : e \in taken'[d] => FALSE
    BY <1>3 DEF PulsarInv, Holds
  <2>2. \A x \in Entries : x # e => (x \in acked' => x \in acked)
    BY <1>1, <1>4
  <2>3. \A x \in Entries : x < floor => x < floor'
    BY <1>0, <1>2 DEF Entries
  <2>4. \A d \in Consumer : taken'[d] \subseteq taken[d]
    BY <1>3
  <2> QED BY <1>1, <1>3, <2>1, <2>2, <2>3, <2>4 DEF PulsarInv, Holds
<1>8. InOrder'
  BY <1>1 DEF PulsarInv, InOrder
<1>9. Queue!Settle(c, {e})
  <2>1. ASSUME NEW x \in acked' \cup 0 .. floor' - 1
        PROVE  x \in (acked \cup 0 .. floor - 1) \cup {e}
    <3>1. x \in all \/ x \in 0 .. floor - 1 \/ x \in floor .. floor' - 1
      BY <1>0, <1>1, <1>2
    <3> QED BY <1>2, <1>4, <3>1
  <2>2. ASSUME NEW x \in (acked \cup 0 .. floor - 1) \cup {e}
        PROVE  x \in acked' \cup 0 .. floor' - 1
    <3>1. x \in all \/ x \in 0 .. floor - 1
      BY <1>0, <1>4 DEF Entries
    <3>2. x \in Nat
      <4>1. (\A y \in Entries : y \in Nat) /\ (\A y \in 0 .. floor - 1 : y \in Nat)
        BY DEF Entries
      <4>2. x \in Entries \/ x \in 0 .. floor - 1
        BY <1>0, <3>1
      <4> QED BY <4>1, <4>2
    <3> QED BY <1>0, <1>1, <1>2, <3>1, <3>2
  <2>3. acked' \cup 0 .. floor' - 1 = (acked \cup 0 .. floor - 1) \cup {e}
    BY <2>1, <2>2
  <2> QED BY <1>0, <1>1, <2>3 DEF Queue!Settle
<1>10. {e} \in SUBSET (0 .. Len(log) - 1)
  BY <1>0 DEF Entries
<1> QED BY <1>5, <1>6, <1>7, <1>8, <1>9, <1>10 DEF PulsarInv

LEMMA AckUpToMapped ==
  ASSUME PulsarInv, NEW c \in Consumer, NEW e \in taken[c], AckUpTo(c, e)
  PROVE  /\ PulsarInv'
         /\ \E some \in SUBSET (0 .. Len(log) - 1) : Queue!Settle(c, some)
<1>0. /\ log \in Seq(KeyHash) /\ Len(log) \in Nat /\ floor \in 0 .. Len(log)
      /\ e \in Entries /\ e \in offered /\ offered \subseteq Entries
      /\ acked \subseteq offered /\ pending \subseteq offered
  BY DEF PulsarInv, Numbers, Offers
<1>1. /\ floor' = IF e >= floor THEN e + 1 ELSE floor
      /\ pending' = {d \in pending : d > e}
      /\ acked' = {d \in acked : d > e}
      /\ taken' = [taken EXCEPT ![c] = {d \in @ : d > e}]
      /\ UNCHANGED <<type, log, roster, offered>>
      /\ type \in {"EXCLUSIVE", "FAILOVER"}
  BY DEF AckUpTo
<1>2. floor' \in floor .. Len(log) /\ floor' \in e + 1 .. Len(log)
  BY <1>0, <1>1 DEF Entries
<1>3. /\ taken'[c] = {d \in taken[c] : d > e}
      /\ \A d \in Consumer \ {c} : taken'[d] = taken[d]
      /\ taken' \in [Consumer -> SUBSET Entries] /\ Entries' = Entries
  BY <1>1 DEF PulsarInv, Numbers, Entries
<1>4. \A d \in 0 .. e : d \in offered
  BY <1>0, <1>1 DEF PulsarInv, InOrder
<1>5. Numbers'
  BY <1>0, <1>1, <1>2, <1>3 DEF PulsarInv, Numbers
<1>6. Offers'
  <2>1. \A d \in 0 .. floor' - 1 : d \in offered
    BY <1>0, <1>1, <1>4 DEF PulsarInv, Offers, Entries
  <2>2. \A d \in Consumer : taken'[d] \subseteq offered
    BY <1>3 DEF PulsarInv, Offers
  <2> QED BY <1>0, <1>1, <2>1, <2>2 DEF Offers
<1>7. Holds'
  <2>1. \A d \in Consumer : taken'[d] \subseteq taken[d]
    BY <1>3
  <2>2. ASSUME NEW d \in Consumer, NEW x \in Entries, x \in taken'[d]
        PROVE  x \notin acked' /\ (x \in pending' \/ x < floor')
    <3>1. x \notin acked /\ (x \in pending \/ x < floor)
      BY <2>1, <2>2 DEF PulsarInv, Holds
    <3> QED BY <1>0, <1>1, <1>2, <3>1 DEF Entries
  <2> QED BY <1>3, <2>1, <2>2 DEF PulsarInv, Holds
<1>8. InOrder'
  BY <1>1 DEF PulsarInv, InOrder
<1>9. Queue!Settle(c, 0 .. e)
  <2>0. e \in Nat /\ floor \in Nat /\ \A x \in acked : x \in Nat
    BY <1>0 DEF Entries
  <2>1. acked' \cup 0 .. floor' - 1 = (acked \cup 0 .. floor - 1) \cup 0 .. e
    <3>1. ASSUME NEW x \in acked' \cup 0 .. floor' - 1
          PROVE  x \in (acked \cup 0 .. floor - 1) \cup 0 .. e
      BY <1>1, <2>0
    <3>2. ASSUME NEW x \in (acked \cup 0 .. floor - 1) \cup 0 .. e
          PROVE  x \in acked' \cup 0 .. floor' - 1
      BY <1>1, <2>0
    <3> QED BY <3>1, <3>2
  <2>2. taken' = [taken EXCEPT ![c] = @ \ (0 .. e)]
    <3>1. {d \in taken[c] : d > e} = taken[c] \ (0 .. e)
      BY <1>0 DEF PulsarInv, Numbers, Entries
    <3> QED BY <1>1, <3>1
  <2> QED BY <1>1, <1>4, <2>1, <2>2 DEF Queue!Settle
<1>10. 0 .. e \in SUBSET (0 .. Len(log) - 1)
  BY <1>0 DEF Entries
<1> QED BY <1>5, <1>6, <1>7, <1>8, <1>9, <1>10 DEF PulsarInv

LEMMA NackMapped ==
  ASSUME PulsarInv, NEW c \in Consumer, NEW e \in taken[c], Nack(c, e)
  PROVE  /\ PulsarInv'
         /\ \E some \in SUBSET (0 .. Len(log) - 1) : Queue!GiveBack(c, some)
<1>1. /\ taken' = [taken EXCEPT ![c] = @ \ {e}]
      /\ pending' = pending \ {e}
      /\ acked' = acked \ {e}
      /\ UNCHANGED <<type, log, floor, roster, offered>>
      /\ e \in Entries
  BY DEF Nack, PulsarInv, Numbers
<1>2. acked' = acked
  BY <1>1 DEF PulsarInv, Holds
<1>3. /\ taken'[c] = taken[c] \ {e}
      /\ \A d \in Consumer \ {c} : taken'[d] = taken[d]
      /\ taken' \in [Consumer -> SUBSET Entries] /\ Entries' = Entries
  BY <1>1 DEF PulsarInv, Numbers, Entries
<1>4. Numbers' /\ Offers' /\ InOrder'
  BY <1>1, <1>2, <1>3 DEF PulsarInv, Numbers, Offers, InOrder
<1>5. Holds'
  BY <1>1, <1>2, <1>3 DEF PulsarInv, Holds
<1>6. Queue!GiveBack(c, {e}) /\ {e} \in SUBSET (0 .. Len(log) - 1)
  BY <1>1, <1>2 DEF Queue!GiveBack, Entries
<1> QED BY <1>4, <1>5, <1>6 DEF PulsarInv

LEMMA DetachMapped ==
  ASSUME PulsarInv, NEW c \in Consumer, Detach(c)
  PROVE  /\ PulsarInv'
         /\ \E some \in SUBSET (0 .. Len(log) - 1) : Queue!GiveBack(c, some)
<1>1. /\ taken' = [taken EXCEPT ![c] = {}]
      /\ UNCHANGED <<type, log, floor, acked, pending, offered>>
  BY DEF Detach
<1>2. /\ taken'[c] = {}
      /\ \A d \in Consumer \ {c} : taken'[d] = taken[d]
      /\ taken' \in [Consumer -> SUBSET Entries] /\ Entries' = Entries
  BY <1>1 DEF PulsarInv, Numbers, Entries
<1>3. Numbers' /\ Offers' /\ InOrder'
  BY <1>1, <1>2 DEF PulsarInv, Numbers, Offers, InOrder
<1>4. Holds'
  BY <1>1, <1>2 DEF PulsarInv, Holds
<1>5. Queue!GiveBack(c, taken[c]) /\ taken[c] \in SUBSET (0 .. Len(log) - 1)
  BY <1>1 DEF Queue!GiveBack, PulsarInv, Numbers, Entries
<1> QED BY <1>3, <1>4, <1>5 DEF PulsarInv

-----------------------------------------------------------------------------
(* The rest, and the refinement.                                           *)

LEMMA ProduceMapped ==
  ASSUME PulsarInv, Produce
  PROVE  PulsarInv' /\ Queue!Send
<1>1. /\ log' \in Seq(KeyHash) /\ Len(log') = Len(log) + 1 /\ Len(log) \in Nat
      /\ UNCHANGED <<type, floor, acked, pending, roster, taken, offered>>
  BY DEF PulsarInv, Numbers, Produce
<1>2. Entries \subseteq Entries'
  BY <1>1 DEF Entries
<1>3. Numbers' /\ Offers' /\ InOrder'
  BY <1>1, <1>2 DEF PulsarInv, Numbers, Offers, InOrder
<1>4. Holds'
  BY <1>1 DEF PulsarInv, Numbers, Holds
<1>5. Queue!Send
  BY <1>1 DEF Queue!Send
<1> QED BY <1>3, <1>4, <1>5 DEF PulsarInv

LEMMA StutterMapped ==
  ASSUME PulsarInv, UNCHANGED <<type, log, floor, acked, pending, taken, offered>>
  PROVE  PulsarInv' /\ UNCHANGED Queue!queueVars
BY DEF PulsarInv, Numbers, Offers, Holds, InOrder, Entries, Queue!queueVars

LEMMA StepMapped ==
  ASSUME PulsarInv, [PulsarNext]_pulsarVars
  PROVE  PulsarInv' /\ [Queue!QueueNext]_(Queue!queueVars)
<1>1. CASE Produce
  BY <1>1, ProduceMapped DEF Queue!QueueNext
<1>2. ASSUME NEW c \in Consumer, Attach(c)
      PROVE  PulsarInv' /\ [Queue!QueueNext]_(Queue!queueVars)
  BY <1>2, StutterMapped DEF Attach
<1>3. ASSUME NEW c \in Consumer, Detach(c)
      PROVE  PulsarInv' /\ [Queue!QueueNext]_(Queue!queueVars)
  BY <1>3, DetachMapped DEF Queue!QueueNext
<1>4. ASSUME NEW c \in Consumer, NEW n \in 1 .. MaxBatch, Receive(c, n)
      PROVE  PulsarInv' /\ [Queue!QueueNext]_(Queue!queueVars)
  <2>1. n \in Nat
    OBVIOUS
  <2> QED BY <1>4, <2>1, ReceiveMapped DEF Queue!QueueNext
<1>5. ASSUME NEW c \in Consumer, NEW e \in taken[c], AckOne(c, e)
      PROVE  PulsarInv' /\ [Queue!QueueNext]_(Queue!queueVars)
  BY <1>5, AckOneMapped DEF Queue!QueueNext
<1>6. ASSUME NEW c \in Consumer, NEW e \in taken[c], AckUpTo(c, e)
      PROVE  PulsarInv' /\ [Queue!QueueNext]_(Queue!queueVars)
  BY <1>6, AckUpToMapped DEF Queue!QueueNext
<1>7. ASSUME NEW c \in Consumer, NEW e \in taken[c], Nack(c, e)
      PROVE  PulsarInv' /\ [Queue!QueueNext]_(Queue!queueVars)
  BY <1>7, NackMapped DEF Queue!QueueNext
<1>8. CASE UNCHANGED pulsarVars
  BY <1>8, StutterMapped DEF pulsarVars
<1> QED BY <1>1, <1>2, <1>3, <1>4, <1>5, <1>6, <1>7, <1>8 DEF PulsarNext

LEMMA InitMapped == ASSUME PulsarInit PROVE PulsarInv /\ Queue!QueueInit
<1>1. PICK n \in 0 .. 1, h \in KeyHash : log = [i \in 1 .. n |-> h]
  BY DEF PulsarInit
<1>2. log \in Seq(KeyHash) /\ Len(log) = n /\ n \in Nat
  BY <1>1
<1>3. /\ floor \in {0, n} /\ acked = {} /\ pending = {} /\ offered = 0 .. floor - 1
      /\ taken = [c \in Consumer |-> {}] /\ type \in SubscriptionType
  BY <1>2 DEF PulsarInit
<1>4. PulsarInv
  BY <1>2, <1>3 DEF PulsarInv, Numbers, Offers, Holds, InOrder, Entries
<1>5. offered \in {{}, 0 .. Len(log) - 1}
  <2>1. 0 .. 0 - 1 = {}
    OBVIOUS
  <2> QED BY <1>2, <1>3, <2>1
<1>6. Queue!QueueInit
  BY <1>2, <1>3, <1>5 DEF Queue!QueueInit
<1> QED BY <1>4, <1>6

(* pulsar_bus.py: every behaviour of a subscription is one of a work queue.*)
THEOREM SubscriptionIsAQueue == PulsarSpec => ImplementsQueue
<1>1. PulsarInit => PulsarInv /\ Queue!QueueInit
  BY InitMapped
<1>2. PulsarInv /\ [PulsarNext]_pulsarVars => PulsarInv' /\ [Queue!QueueNext]_(Queue!queueVars)
  BY StepMapped
<1> QED BY <1>1, <1>2, PTL DEF PulsarSpec, ImplementsQueue, Queue!QueueSpec

(* pulsar_bus.py, the four subscription types, for any consumers, keys,    *)
(* log and batch: what a consumer has is its alone, not acknowledged and   *)
(* pending unless the floor went over it; and an exclusive or a failover   *)
(* subscription has delivered everything before what it delivered last.    *)
THEOREM OneHolderInOrder == PulsarSpec => [](PulsarTypeOK /\ Holds /\ InOrder)
<1>1. PulsarInit => PulsarInv /\ roster \subseteq Consumer
  BY InitMapped DEF PulsarInit
<1>2. PulsarInv /\ roster \subseteq Consumer /\ [PulsarNext]_pulsarVars =>
        (PulsarInv /\ roster \subseteq Consumer)'
  <2>1. roster \subseteq Consumer /\ [PulsarNext]_pulsarVars => roster' \subseteq Consumer
    BY DEF PulsarNext, pulsarVars, Produce, Attach, Detach, Receive, AckOne, AckUpTo, Nack
  <2> QED BY <2>1, StepMapped
<1>3. PulsarInv /\ roster \subseteq Consumer => PulsarTypeOK /\ Holds /\ InOrder
  <2> SUFFICES ASSUME PulsarInv, roster \subseteq Consumer PROVE PulsarTypeOK
    BY DEF PulsarInv
  <2>1. Len(log) \in Nat /\ \A e \in Entries : e \in Nat
    BY DEF PulsarInv, Numbers, Entries
  <2>2. floor \in Nat /\ offered \subseteq Nat /\ taken \in [Consumer -> SUBSET Nat]
    BY <2>1 DEF PulsarInv, Numbers
  <2>3. acked \subseteq Nat /\ pending \subseteq Nat
    BY <2>2 DEF PulsarInv, Offers
  <2> QED BY <2>2, <2>3 DEF PulsarInv, Numbers, PulsarTypeOK
<1> QED BY <1>1, <1>2, <1>3, PTL DEF PulsarSpec
=============================================================================
