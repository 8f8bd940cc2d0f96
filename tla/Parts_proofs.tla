---------------------------- MODULE Parts_proofs ----------------------------
(***************************************************************************)
(* Proofs about the parts that stand alone, each for every value of its    *)
(* constants: the feed runners, the daily caps, the consumer group, the    *)
(* order book, the proposals of the chat, the batching writer, one         *)
(* consumer of a stream and the fills of an order.                         *)
(***************************************************************************)
EXTENDS FeedRunner, DailyCaps, KafkaGroup, MarketBook, ChatApprovals,
        AsyncLedger, JetStream, OrderLifecycle, FiniteSetTheorems, SequenceTheorems,
        WellFoundedInduction, TLAPS

-----------------------------------------------------------------------------
(* The feed runners.                                                       *)

LEMMA FeedInitTypes == FeedInit => FeedTypeOK
BY DEF FeedInit, FeedTypeOK, Running, Suspended

(* A move of a worker inside the states of a thread keeps the types.       *)
LEMMA MovesTypes ==
  ASSUME FeedTypeOK, NEW w \in Worker, NEW from, NEW to \in Running \cup {"launched", "ended", "dead"},
         Moves(w, from, to)
  PROVE  FeedTypeOK'
BY DEF FeedTypeOK, Moves, StopCall, Running, Suspended

LEMMA FeedNextTypes == FeedTypeOK /\ [FeedNext]_feedVars => FeedTypeOK'
<1> SUFFICES ASSUME FeedTypeOK, [FeedNext]_feedVars PROVE FeedTypeOK'
  OBVIOUS
<1>1. ASSUME NEW w \in Worker, StartFeed(w) PROVE FeedTypeOK'
  BY <1>1 DEF StartFeed, FeedTypeOK, StopCall
<1>2. ASSUME NEW s \in Stopper, StopRead(s) PROVE FeedTypeOK'
  <2>1. [thread |-> thread, pump |-> pump, sent |-> FALSE] \in StopCall
    BY <1>2 DEF StopRead, HasWorker, FeedTypeOK, StopCall
  <2> QED BY <1>2, <2>1 DEF StopRead, FeedTypeOK
<1>3. ASSUME NEW s \in Stopper, StopSignal(s) PROVE FeedTypeOK'
  <2>1. stopping[s] \in StopCall
    BY <1>3 DEF StopSignal, FeedTypeOK
  <2>2. stopping' \in [Stopper -> StopCall \cup {NoWorker}]
    BY <1>3, <2>1 DEF StopSignal, FeedTypeOK, StopCall
  <2>3. signal' \in [Worker -> {"none", "queued", "set"}]
    BY <1>3, <2>1 DEF StopSignal, FeedTypeOK, StopCall
  <2> QED BY <1>3, <2>2, <2>3 DEF StopSignal, FeedTypeOK
<1>4. ASSUME NEW s \in Stopper, StopReturn(s) PROVE FeedTypeOK'
  BY <1>4 DEF StopReturn, FeedTypeOK
<1>5. ASSUME NEW w \in Worker, Work(w) \/ Frame(w) \/ Disconnect(w) PROVE FeedTypeOK'
  <2>1. CASE Publish(w)
    BY <2>1 DEF Publish, FeedTypeOK, Running
  <2>2. CASE RunCallback(w)
    BY <2>2 DEF RunCallback, FeedTypeOK
  <2>3. CASE WorkerEnds(w)
    BY <2>3 DEF WorkerEnds, FeedTypeOK
  <2>4. CASE \E from : \E to \in Running \cup {"launched", "ended", "dead"} : Moves(w, from, to)
    BY <2>4, MovesTypes
  <2> QED BY <1>5, <2>1, <2>2, <2>3, <2>4 DEF Work, ConstructFails, LoopHead, LoopCrash,
        Connect, ConnectFails, Frame, Disconnect, Polled, Closed, Running, Suspended
<1>6. CASE UNCHANGED feedVars
  BY <1>6 DEF feedVars, FeedTypeOK
<1> QED BY <1>1, <1>2, <1>3, <1>4, <1>5, <1>6 DEF FeedNext

(* Every state of a feed runner is well typed.                             *)
THEOREM FeedTypeCorrect == FeedSpec => []FeedTypeOK
BY FeedInitTypes, FeedNextTypes, PTL DEF FeedSpec

(* A worker that moves on inside its life, and into run only from run.     *)
LEMMA MovesStoppable ==
  ASSUME FeedTypeOK, PumpsAreStoppable, NEW w \in Worker, NEW from, NEW to, Moves(w, from, to),
         "dead" \notin from, to \in Running => from \subseteq Running
  PROVE  PumpsAreStoppable'
BY DEF FeedTypeOK, PumpsAreStoppable, Moves, Alive

LEMMA NextStoppable ==
  FeedTypeOK /\ PumpsAreStoppable /\ [FeedNext]_feedVars => PumpsAreStoppable'
<1> SUFFICES ASSUME FeedTypeOK, PumpsAreStoppable, [FeedNext]_feedVars PROVE PumpsAreStoppable'
  OBVIOUS
<1>0. \A w \in Worker : at[w] \in Running => Alive(w)
  BY DEF Running, Suspended, Alive
<1>1. ASSUME NEW w \in Worker, StartFeed(w) PROVE PumpsAreStoppable'
  <2>1. \A v \in Worker : ~Alive(v)
    BY <1>1, FeedAssumption DEF StartFeed, HasWorker, PumpsAreStoppable, FeedTypeOK
  <2> QED BY <1>0, <1>1, <2>1 DEF StartFeed, PumpsAreStoppable, FeedTypeOK, Alive, Running, Suspended
<1>2. ASSUME NEW s \in Stopper, StopRead(s) \/ StopSignal(s) PROVE PumpsAreStoppable'
  BY <1>2 DEF StopRead, StopSignal, PumpsAreStoppable, Alive
<1>3. ASSUME NEW s \in Stopper, StopReturn(s) PROVE PumpsAreStoppable'
  BY <1>3 DEF StopReturn, PumpsAreStoppable, Alive
<1>4. ASSUME NEW w \in Worker, Work(w) \/ Frame(w) \/ Disconnect(w) PROVE PumpsAreStoppable'
  <2>1. CASE Publish(w)
    BY <1>0, <2>1 DEF Publish, PumpsAreStoppable, FeedTypeOK, Alive
  <2>2. CASE RunCallback(w)
    BY <2>2 DEF RunCallback, PumpsAreStoppable, Alive
  <2>3. CASE WorkerEnds(w)
    <3>1. \A v \in Worker : v # w => ~Alive(v)
      BY <2>3 DEF WorkerEnds, PumpsAreStoppable, Alive
    <3> QED BY <1>0, <2>3, <3>1 DEF WorkerEnds, PumpsAreStoppable, FeedTypeOK, Alive, Running, Suspended
  <2>4. CASE \E from, to : /\ Moves(w, from, to) /\ "dead" \notin from
                           /\ to \in Running => from \subseteq Running
    BY <2>4, MovesStoppable
  <2> QED BY <1>4, <2>1, <2>2, <2>3, <2>4 DEF Work, ConstructFails, LoopHead, LoopCrash,
        Connect, ConnectFails, Frame, Disconnect, Polled, Closed, Running, Suspended
<1>5. CASE UNCHANGED feedVars
  BY <1>5 DEF feedVars, PumpsAreStoppable, Alive
<1> QED BY <1>1, <1>2, <1>3, <1>4, <1>5 DEF FeedNext

(* For any number of threads and stops: a live thread is the one stop would *)
(* join, a running pump the one it would signal.                            *)
THEOREM OneStoppablePump == FeedSpec => []PumpsAreStoppable
<1>1. FeedInit => PumpsAreStoppable
  BY DEF FeedInit, PumpsAreStoppable, Alive, Running, Suspended
<1> QED BY <1>1, FeedTypeCorrect, NextStoppable, PTL DEF FeedSpec

-----------------------------------------------------------------------------
(* The daily caps.                                                         *)

(* Memory never has less than the file says of its day.                    *)
MemoryCovers ==
  ~unread /\ cachedDay \in Day => \A d \in Domain : onDisk[<<d, cachedDay>>] <= spent[d]

CapsIInv == CapsTypeOK /\ CapsHold /\ MemoryCovers

LEMMA CapsInitInv == CapsInit => CapsIInv
<1> SUFFICES ASSUME CapsInit PROVE CapsIInv
  OBVIOUS
<1>1. \A d \in Domain, day \in Day : onDisk[<<d, day>>] = 0 /\ accepted[<<d, day>>] = 0
  <2>1. \A row \in Domain \X Day : onDisk[row] = 0 /\ accepted[row] = 0
    BY DEF CapsInit
  <2> QED BY <2>1
<1>2. CapsTypeOK
  BY DEF CapsInit, CapsTypeOK, Nothing
<1> QED BY <1>1, <1>2, CapsAssumption DEF CapsInit, CapsIInv, CapsHold, MemoryCovers

(* What counts for a day covers what the file says of it.                  *)
LEMMA TodayCovers ==
  ASSUME CapsIInv, NEW d \in Domain, NEW day \in Day
  PROVE  /\ EnsureToday(day) \in [Domain -> Nat]
         /\ ~unread => onDisk[<<d, day>>] <= EnsureToday(day)[d]
BY DEF CapsIInv, CapsTypeOK, MemoryCovers, EnsureToday

LEMMA CapsNextInv == CapsIInv /\ [CapsNext]_capsVars => CapsIInv'
<1> SUFFICES ASSUME CapsIInv, [CapsNext]_capsVars PROVE CapsIInv'
  OBVIOUS
<1> USE CapsAssumption
<1>0. /\ \A day \in Day : EnsureToday(day) \in [Domain -> Nat]
      /\ \A d \in Domain, day \in Day : ~unread => onDisk[<<d, day>>] <= EnsureToday(day)[d]
  <2>1. CASE Domain = {}
    BY <2>1 DEF CapsIInv, CapsTypeOK, EnsureToday
  <2> QED BY <2>1, TodayCovers
<1>1. ASSUME NEW d \in Domain, NEW day \in Day, NEW notional \in Notional,
             RefuseOrder(d, day, notional)
      PROVE  CapsIInv'
  BY <1>0, <1>1 DEF RefuseOrder, CapsIInv, CapsTypeOK, CapsHold, MemoryCovers
<1>2. ASSUME NEW d \in Domain, NEW day \in Day, NEW notional \in Notional,
             PassOrder(d, day, notional)
      PROVE  CapsIInv'
  <2> DEFINE today == EnsureToday(day)
  <2>1. today \in [Domain -> Nat] /\ notional \in Nat /\ today[d] + notional \in Nat
    <3>1. today \in [Domain -> Nat]
      BY <1>0
    <3>2. notional \in Nat
      BY DEF CapsAssumption
    <3> HIDE DEF today
    <3> QED BY <3>1, <3>2
  <2>2. /\ cachedDay' = day /\ today[d] + notional <= Cap
        /\ spent' = [today EXCEPT ![d] = @ + notional]
        /\ onDisk' = [onDisk EXCEPT ![<<d, day>>] = spent'[d]]
        /\ accepted' = [accepted EXCEPT ![<<d, day>>] = @ + notional]
        /\ unread' = unread
    BY <1>2 DEF PassOrder
  <2>3. \A c \in Domain : ~unread => onDisk[<<c, day>>] <= today[c]
    BY <1>0
  <2> HIDE DEF today
  <2>4. spent' \in [Domain -> Nat] /\ spent'[d] = today[d] + notional
        /\ \A c \in Domain : c # d => spent'[c] = today[c]
    BY <2>1, <2>2
  <2>5. <<d, day>> \in Domain \X Day
    OBVIOUS
  <2>6. CapsTypeOK'
    BY <2>1, <2>2, <2>4, <2>5 DEF CapsIInv, CapsTypeOK
  <2>7. MemoryCovers'
    BY <2>2, <2>3, <2>4, <2>5 DEF CapsIInv, CapsTypeOK, MemoryCovers
  <2>8. CapsHold'
    <3> SUFFICES ASSUME ~unread, NEW c \in Domain, NEW e \in Day
                 PROVE  accepted'[<<c, e>>] <= onDisk'[<<c, e>>] /\ onDisk'[<<c, e>>] <= Cap
      BY <2>2 DEF CapsHold
    <3>1. accepted[<<c, e>>] <= onDisk[<<c, e>>] /\ onDisk[<<c, e>>] <= Cap
      BY DEF CapsIInv, CapsHold
    <3>2. accepted[<<c, e>>] \in Nat /\ onDisk[<<c, e>>] \in Nat
      BY DEF CapsIInv, CapsTypeOK
    <3>3. CASE c = d /\ e = day
      <4>1. accepted'[<<c, e>>] = accepted[<<c, e>>] + notional /\ onDisk'[<<c, e>>] = today[d] + notional
        BY <2>2, <2>4, <2>5, <3>3 DEF CapsIInv, CapsTypeOK
      <4>2. onDisk[<<c, e>>] <= today[d]
        BY <2>3, <3>3
      <4> QED BY <2>1, <2>2, <3>1, <3>2, <4>1, <4>2
    <3>4. CASE ~(c = d /\ e = day)
      <4>1. accepted'[<<c, e>>] = accepted[<<c, e>>] /\ onDisk'[<<c, e>>] = onDisk[<<c, e>>]
        BY <2>2, <3>4 DEF CapsIInv, CapsTypeOK
      <4> QED BY <3>1, <4>1
    <3> QED BY <3>3, <3>4
  <2> QED BY <2>6, <2>7, <2>8 DEF CapsIInv
<1>3. ASSUME NEW d \in Domain, NEW day \in Day, NEW notional \in Notional,
             WriteRaises(d, day, notional)
      PROVE  CapsIInv'
  <2> DEFINE today == EnsureToday(day)
  <2>1. today \in [Domain -> Nat] /\ notional \in Nat
    BY <1>0
  <2>2. /\ cachedDay' = day /\ spent' = [today EXCEPT ![d] = @ + notional]
        /\ UNCHANGED <<onDisk, accepted, unread>>
    BY <1>3 DEF WriteRaises
  <2>3. \A c \in Domain : ~unread => onDisk[<<c, day>>] <= today[c]
    BY <1>0
  <2> HIDE DEF today
  <2>4. spent' \in [Domain -> Nat] /\ \A c \in Domain : spent'[c] >= today[c]
    BY <2>1, <2>2
  <2> QED BY <2>1, <2>2, <2>3, <2>4 DEF CapsIInv, CapsTypeOK, CapsHold, MemoryCovers
<1>4. ASSUME NEW day \in Day, ReadRaises(day) PROVE CapsIInv'
  BY <1>4 DEF ReadRaises, CapsIInv, CapsTypeOK, CapsHold, MemoryCovers
<1>5. CASE ResetDaily
  BY <1>5 DEF ResetDaily, Nothing, CapsIInv, CapsTypeOK, CapsHold, MemoryCovers
<1>6. CASE CapsRestart
  <2>1. /\ cachedDay' = NoDay /\ spent' = Nothing /\ UNCHANGED <<accepted, unread>>
    BY <1>6 DEF CapsRestart
  <2>2. CASE UNCHANGED onDisk
    BY <2>1, <2>2 DEF Nothing, CapsIInv, CapsTypeOK, CapsHold, MemoryCovers
  <2>3. CASE \E d \in Domain, day \in Day, notional \in Notional :
               /\ EnsureToday(day)[d] + notional <= Cap
               /\ onDisk' = [onDisk EXCEPT ![<<d, day>>] = EnsureToday(day)[d] + notional]
    <3>1. PICK d \in Domain, day \in Day, notional \in Notional :
               /\ EnsureToday(day)[d] + notional <= Cap
               /\ onDisk' = [onDisk EXCEPT ![<<d, day>>] = EnsureToday(day)[d] + notional]
      BY <2>3
    <3> DEFINE total == EnsureToday(day)[d] + notional
    <3>2. /\ total \in Nat /\ total <= Cap
          /\ ~unread => onDisk[<<d, day>>] <= total
      BY <1>0, <3>1 DEF CapsIInv, CapsTypeOK
    <3>3. onDisk' = [onDisk EXCEPT ![<<d, day>>] = total]
      BY <3>1
    <3> HIDE DEF total
    <3>4. <<d, day>> \in Domain \X Day
      OBVIOUS
    <3>5. /\ onDisk' \in [Domain \X Day -> Nat]
          /\ ~unread => \A row \in Domain \X Day : onDisk[row] <= onDisk'[row]
          /\ ~unread /\ (\A row \in Domain \X Day : onDisk[row] <= Cap)
               => \A row \in Domain \X Day : onDisk'[row] <= Cap
      BY <3>2, <3>3, <3>4 DEF CapsIInv, CapsTypeOK
    <3>6. CapsHold'
      <4> SUFFICES ASSUME ~unread, NEW c \in Domain, NEW e \in Day
                   PROVE  accepted[<<c, e>>] <= onDisk'[<<c, e>>] /\ onDisk'[<<c, e>>] <= Cap
        BY <2>1 DEF CapsHold
      <4>1. <<c, e>> \in Domain \X Day
        OBVIOUS
      <4>2. \A row \in Domain \X Day : onDisk[row] <= Cap
        BY DEF CapsIInv, CapsHold
      <4>3. accepted[<<c, e>>] <= onDisk[<<c, e>>]
        BY DEF CapsIInv, CapsHold
      <4>4. accepted[<<c, e>>] \in Nat /\ onDisk[<<c, e>>] \in Nat /\ onDisk'[<<c, e>>] \in Nat
        BY <3>5, <4>1 DEF CapsIInv, CapsTypeOK
      <4> QED BY <3>5, <4>1, <4>2, <4>3, <4>4
    <3>7. CapsTypeOK' /\ MemoryCovers'
      BY <2>1, <3>5 DEF Nothing, CapsIInv, CapsTypeOK, MemoryCovers
    <3> QED BY <3>6, <3>7 DEF CapsIInv
  <2> QED BY <1>6, <2>2, <2>3 DEF CapsRestart
<1>7. CASE UNCHANGED capsVars
  BY <1>7 DEF capsVars, CapsIInv, CapsTypeOK, CapsHold, MemoryCovers
<1> QED BY <1>1, <1>2, <1>3, <1>4, <1>5, <1>6, <1>7 DEF CapsNext

(* Until a read raises, a day's cap is not spent twice: for any domains, days *)
(* and orders, whatever writes raise and wherever the process stops.          *)
THEOREM CapsAreKept == CapsSpec => []CapsHold
<1>1. CapsIInv => CapsHold
  BY DEF CapsIInv
<1> QED BY <1>1, CapsInitInv, CapsNextInv, PTL DEF CapsSpec

-----------------------------------------------------------------------------
(* The consumer group.                                                     *)

LEMMA KafkaInitInv == KafkaInit => KafkaTypeOK /\ OnlyCallersSkip
BY KafkaAssumption DEF KafkaInit, KafkaTypeOK, OnlyCallersSkip

LEMMA KafkaNextInv ==
  KafkaTypeOK /\ OnlyCallersSkip /\ [KafkaNext]_kafkaVars => KafkaTypeOK' /\ OnlyCallersSkip'
<1> SUFFICES ASSUME KafkaTypeOK, OnlyCallersSkip, [KafkaNext]_kafkaVars
             PROVE  KafkaTypeOK' /\ OnlyCallersSkip'
  OBVIOUS
<1> USE KafkaAssumption DEF KafkaTypeOK, OnlyCallersSkip
<1>1. ASSUME NEW p \in Partition, Append1(p)
      PROVE  KafkaTypeOK' /\ OnlyCallersSkip'
  BY <1>1 DEF Append1
<1>2. ASSUME NEW m \in Member, NEW members \in SUBSET Member, Subscribe(m, members)
      PROVE  KafkaTypeOK' /\ OnlyCallersSkip'
  BY <1>2 DEF Subscribe
<1>3. ASSUME NEW m \in Member, NEW n \in 1 .. MaxLog, GetMany(m, n)
      PROVE  KafkaTypeOK' /\ OnlyCallersSkip'
  <2> DEFINE upTo(p) == IF position[m][p] + n < ends[p] THEN position[m][p] + n ELSE ends[p]
             news == {p \in Mine(m) : position[m][p] < ends[p]}
  <2>1. news \subseteq Partition
    BY DEF Mine, Assigned
  <2>2. \A p \in Partition : upTo(p) \in Nat
    OBVIOUS
  <2>3. /\ position' = [position EXCEPT ![m] = [p \in Partition |->
                          IF p \in news THEN upTo(p) ELSE position[m][p]]]
        /\ passed' = [p \in Partition |->
                        IF p \in news THEN passed[p] \cup position[m][p] .. upTo(p) - 1
                                      ELSE passed[p]]
        /\ UNCHANGED <<ends, committed, view, moves>>
    BY <1>3 DEF GetMany
  <2> HIDE DEF upTo, news
  <2>4. \A p \in Partition : passed[p] \subseteq passed'[p] /\ passed'[p] \subseteq Nat
    <3> SUFFICES ASSUME NEW p \in Partition
                 PROVE  passed[p] \subseteq passed'[p] /\ passed'[p] \subseteq Nat
      OBVIOUS
    <3>1. position[m][p] .. upTo(p) - 1 \subseteq Nat
      BY <2>2
    <3> QED BY <2>3, <3>1
  <2>5. KafkaTypeOK'
    <3>1. passed' \in [Partition -> SUBSET Nat]
      BY <2>3, <2>4
    <3>2. position' \in [Member -> [Partition -> Nat]]
      BY <2>2, <2>3
    <3> QED BY <2>3, <3>1, <3>2
  <2>6. OnlyCallersSkip'
    <3> SUFFICES ASSUME NEW p \in Partition
                 PROVE  /\ 0 .. committed[p] - 1 \subseteq passed'[p]
                        /\ \A k \in Member : 0 .. position'[k][p] - 1 \subseteq passed'[p]
      BY <2>3
    <3>1. /\ 0 .. committed[p] - 1 \subseteq passed'[p]
          /\ \A k \in Member : 0 .. position[k][p] - 1 \subseteq passed'[p]
      BY <2>4
    <3>2. CASE p \in news
      <4>1. /\ position'[m][p] = upTo(p)
            /\ \A k \in Member : k # m => position'[k][p] = position[k][p]
            /\ position[m][p] .. upTo(p) - 1 \subseteq passed'[p]
        BY <2>3, <3>2
      <4>2. 0 .. upTo(p) - 1 \subseteq (0 .. position[m][p] - 1) \cup position[m][p] .. upTo(p) - 1
        BY <2>2
      <4> QED BY <3>1, <4>1, <4>2
    <3>3. CASE p \notin news
      <4>1. \A k \in Member : position'[k][p] = position[k][p]
        BY <2>3, <3>3
      <4> QED BY <3>1, <4>1
    <3> QED BY <3>2, <3>3
  <2> QED BY <2>5, <2>6
<1>4. ASSUME NEW m \in Member, NEW p \in Partition, NEW offset \in 0 .. MaxOffset, Seek(m, p, offset)
      PROVE  KafkaTypeOK' /\ OnlyCallersSkip'
  <2>1. /\ offset \in Nat /\ moves < MaxMoves /\ moves' = moves + 1
        /\ position' = [position EXCEPT ![m][p] = offset]
        /\ passed' = [passed EXCEPT ![p] = @ \cup position[m][p] .. offset - 1]
        /\ UNCHANGED <<ends, committed, view>>
    BY <1>4 DEF Seek
  <2>2. position[m][p] .. offset - 1 \subseteq Nat /\ moves' \in 0 .. MaxMoves
    BY <2>1
  <2>3. \A q \in Partition : passed[q] \subseteq passed'[q] /\ passed'[q] \subseteq Nat
    BY <2>1, <2>2
  <2>4. KafkaTypeOK'
    <3>1. passed' \in [Partition -> SUBSET Nat]
      BY <2>1, <2>3
    <3> QED BY <2>1, <2>2, <3>1
  <2>5. ASSUME NEW k \in Member, NEW q \in Partition
        PROVE  0 .. position'[k][q] - 1 \subseteq passed'[q]
    <3>1. CASE k = m /\ q = p
      <4>1. 0 .. offset - 1 \subseteq (0 .. position[m][p] - 1) \cup position[m][p] .. offset - 1
        BY <2>1
      <4>2. position'[m][p] = offset /\ position[m][p] .. offset - 1 \subseteq passed'[p]
        BY <2>1
      <4> QED BY <2>3, <3>1, <4>1, <4>2
    <3>2. CASE ~ (k = m /\ q = p)
      <4>1. position'[k][q] = position[k][q]
        BY <2>1, <3>2
      <4> QED BY <2>3, <4>1
    <3> QED BY <3>1, <3>2
  <2> QED BY <2>1, <2>3, <2>4, <2>5
<1>5. ASSUME NEW m \in Member, Commit(m)
      PROVE  KafkaTypeOK' /\ OnlyCallersSkip'
  BY <1>5 DEF Commit
<1>6. ASSUME NEW m \in Member, Stop(m)
      PROVE  KafkaTypeOK' /\ OnlyCallersSkip'
  BY <1>6 DEF Stop
<1>7. ASSUME NEW partitions \in SUBSET Partition, NEW offset \in [partitions -> 0 .. MaxOffset],
             CommitOffsets(partitions, offset)
      PROVE  KafkaTypeOK' /\ OnlyCallersSkip'
  <2>1. /\ moves < MaxMoves /\ moves' = moves + 1
        /\ committed' = [p \in Partition |-> IF p \in partitions THEN offset[p] ELSE committed[p]]
        /\ passed' = [p \in Partition |->
                        IF p \in partitions THEN passed[p] \cup committed[p] .. offset[p] - 1
                                            ELSE passed[p]]
        /\ UNCHANGED <<ends, position, view>>
    BY <1>7 DEF CommitOffsets
  <2>2. ASSUME NEW p \in Partition
        PROVE  /\ passed[p] \subseteq passed'[p] /\ passed'[p] \subseteq Nat
               /\ committed'[p] \in Nat /\ 0 .. committed'[p] - 1 \subseteq passed'[p]
    <3>1. CASE p \in partitions
      <4>1. offset[p] \in Nat
        BY <3>1
      <4>2. /\ committed[p] .. offset[p] - 1 \subseteq Nat
            /\ 0 .. offset[p] - 1 \subseteq (0 .. committed[p] - 1) \cup committed[p] .. offset[p] - 1
        BY <4>1
      <4>3. committed'[p] = offset[p] /\ passed'[p] = passed[p] \cup committed[p] .. offset[p] - 1
        BY <2>1, <3>1
      <4> QED BY <4>1, <4>2, <4>3
    <3>2. CASE p \notin partitions
      BY <2>1, <3>2
    <3> QED BY <3>1, <3>2
  <2>3. KafkaTypeOK'
    <3>1. passed' \in [Partition -> SUBSET Nat] /\ committed' \in [Partition -> Nat]
      BY <2>1, <2>2
    <3>2. moves' \in 0 .. MaxMoves
      BY <2>1
    <3> QED BY <2>1, <3>1, <3>2
  <2> QED BY <2>1, <2>2, <2>3
<1>8. CASE UNCHANGED kafkaVars
  BY <1>8 DEF kafkaVars
<1> QED BY <1>1, <1>2, <1>3, <1>4, <1>5, <1>6, <1>7, <1>8 DEF KafkaNext

(* For any group and any views of it, with handles that come, go, seek and     *)
(* commit what they like in any order: below a committed offset everything was *)
(* fetched, or jumped over by a caller that named the offset itself.           *)
THEOREM CommitsFollowFetches == KafkaSpec => []OnlyCallersSkip
BY KafkaInitInv, KafkaNextInv, PTL DEF KafkaSpec

(* Some number of a nonempty set is the least.                             *)
LEMMA LeastExists ==
  ASSUME NEW I \in SUBSET Nat, I # {}
  PROVE  Min(I) \in I /\ \A j \in I : Min(I) <= j
<1>1. \E x \in I : \A y \in I : ~ (<<y, x>> \in OpToRel(<, Nat))
  BY NatLessThanWellFounded, WFMin
<1>2. PICK x \in I : \A y \in I : ~ (y < x)
  BY <1>1 DEF OpToRel
<1>3. \A y \in I : x <= y
  BY <1>2
<1> QED BY <1>3 DEF Min

(* A name's rank among finitely many counts them all: each rank below      *)
(* their number is exactly one's.                                          *)
LEMMA Ranks ==
  ASSUME NEW all \in SUBSET Nat, IsFiniteSet(all)
  PROVE  /\ Cardinality(all) \in Nat
         /\ \A x \in all : Rank(x, all) \in 0 .. Cardinality(all) - 1
         /\ \A x, z \in all : Rank(x, all) = Rank(z, all) => x = z
         /\ \A r \in 0 .. Cardinality(all) - 1 : \E x \in all : Rank(x, all) = r
<1> DEFINE below(x) == {y \in all : y < x}
           n == Cardinality(all)
<1>1. \A x \in all : /\ below(x) \in SUBSET all /\ IsFiniteSet(below(x)) /\ Cardinality(below(x)) \in Nat
                     /\ Rank(x, all) = Cardinality(below(x))
  BY FS_Subset, FS_CardinalityType DEF Rank
<1>2. n \in Nat
  BY FS_CardinalityType
<1>3. \A x \in all : Rank(x, all) \in 0 .. n - 1
  <2> TAKE x \in all
  <2>1. below(x) # all
    OBVIOUS
  <2>2. Cardinality(below(x)) <= n /\ Cardinality(below(x)) # n
    <3> HIDE DEF below
    <3> QED BY <1>1, <2>1, FS_Subset
  <2> QED BY <1>1, <1>2, <2>2
<1>4. ASSUME NEW x \in all, NEW z \in all, x < z PROVE Rank(x, all) < Rank(z, all)
  <2>1. below(x) \in SUBSET below(z) /\ below(x) # below(z)
    <3>1. \A y \in all : y \in Nat
      OBVIOUS
    <3>2. \A y \in all : y < x => y < z
      BY <1>4, <3>1
    <3>3. x \in below(z) /\ x \notin below(x)
      BY <1>4, <3>1
    <3> QED BY <3>2, <3>3
  <2>2. Cardinality(below(x)) <= Cardinality(below(z)) /\ Cardinality(below(x)) # Cardinality(below(z))
    <3> HIDE DEF below
    <3> QED BY <1>1, <2>1, FS_Subset
  <2> QED BY <1>1, <2>2
<1>5. \A x, z \in all : Rank(x, all) = Rank(z, all) => x = z
  <2> TAKE x, z \in all
  <2>1. x \in Nat /\ z \in Nat /\ Rank(x, all) \in 0 .. n - 1 /\ Rank(z, all) \in 0 .. n - 1
    BY <1>3
  <2> QED BY <1>4, <2>1
<1>6. \A r \in 0 .. n - 1 : \E x \in all : Rank(x, all) = r
  <2> DEFINE R == 0 .. n - 1
             f == [x \in all |-> Rank(x, all)]
  <2>1. IsFiniteSet(R) /\ Cardinality(R) = n
    <3> HIDE DEF n
    <3>1. 0 \in Int /\ n - 1 \in Int /\ (IF 0 > n - 1 THEN 0 ELSE n - 1 - 0 + 1) = n
      BY <1>2
    <3> QED BY <3>1, FS_Interval
  <2>2. f \in Injection(all, R)
    BY <1>3, <1>5 DEF Injection, IsInjective
  <2>3. f \in Surjection(all, R)
    <3> HIDE DEF f, R
    <3> QED BY <2>1, <2>2, FS_Injection
  <2> QED BY <2>3 DEF Surjection
<1> QED BY <1>2, <1>3, <1>5, <1>6

(* The slices follow one another from the first partition to the last.     *)
LEMMA Slices ==
  ASSUME KafkaAssumption, NEW n \in Nat \ {0}
  PROVE  /\ Cardinality(Partition) \in Nat
         /\ \A i \in Nat : SliceStart(i, n) \in Nat
         /\ SliceStart(0, n) = 0 /\ SliceStart(n, n) = Cardinality(Partition)
         /\ \A i, j \in Nat : i <= j => SliceStart(i, n) <= SliceStart(j, n)
<1> DEFINE P == Cardinality(Partition)
           base == P \div n
           extra == P % n
<1>1. P \in Nat
  BY FS_CardinalityType DEF KafkaAssumption
<1> HIDE DEF P
<1>2. base \in Nat /\ extra \in Nat /\ extra < n /\ P = n * base + extra
  BY <1>1
<1>3. \A i : SliceStart(i, n) = i * base + (IF i < extra THEN i ELSE extra)
  BY DEF SliceStart, P
<1> HIDE DEF base, extra
<1>4. \A i \in Nat : i * base \in Nat
  BY <1>2
<1>5. \A i \in Nat : SliceStart(i, n) \in Nat
  BY <1>2, <1>3, <1>4
<1>6. SliceStart(0, n) = 0 /\ SliceStart(n, n) = P
  BY <1>2, <1>3
<1>7. ASSUME NEW i \in Nat, NEW j \in Nat, i <= j PROVE SliceStart(i, n) <= SliceStart(j, n)
  <2>1. i * base <= j * base
    <3>1. PICK d \in Nat : j = i + d
      BY <1>7
    <3>2. d * base \in Nat /\ j * base = i * base + d * base /\ i * base \in Nat
      BY <1>2, <3>1
    <3> QED BY <3>2
  <2> QED BY <1>2, <1>3, <1>4, <1>7, <2>1
<1> QED BY <1>1, <1>5, <1>6, <1>7 DEF P

(* assign_partitions gives each partition to exactly one member.           *)
LEMMA AssignedOnce ==
  ASSUME KafkaAssumption, NEW members \in SUBSET Member, members # {}, NEW p \in Partition
  PROVE  \E m \in members : \A k \in members : p \in Assigned(k, members) <=> k = m
<1> DEFINE n == Cardinality(members)
           r == Rank(p, Partition)
           P == Cardinality(Partition)
           Start(i) == SliceStart(i, n)
<1>1. members \in SUBSET Nat /\ IsFiniteSet(members) /\ n \in Nat \ {0}
  BY FS_Subset, FS_EmptySet, FS_CardinalityType DEF KafkaAssumption
<1>2. P \in Nat /\ r \in 0 .. P - 1
  BY Ranks DEF KafkaAssumption
<1>3. /\ \A i \in Nat : Start(i) \in Nat
      /\ Start(0) = 0 /\ Start(n) = P
      /\ \A i, j \in Nat : i <= j => Start(i) <= Start(j)
  BY <1>1, Slices
<1>4. /\ \A k \in members : Rank(k, members) \in 0 .. n - 1
      /\ \A k, m \in members : Rank(k, members) = Rank(m, members) => k = m
      /\ \A i \in 0 .. n - 1 : \E m \in members : Rank(m, members) = i
  BY <1>1, Ranks
<1>5. \A k \in members : p \in Assigned(k, members)
                           <=> r >= Start(Rank(k, members)) /\ r < Start(Rank(k, members) + 1)
  BY DEF Assigned
<1> HIDE DEF n, r, P, Start
<1>6. PICK i \in 0 .. n - 1 : Start(i) <= r /\ r < Start(i + 1)
  <2> DEFINE J == {j \in Nat : r < Start(j)}
  <2>1. J \in SUBSET Nat /\ n \in J
    BY <1>1, <1>2, <1>3
  <2>2. Min(J) \in J /\ \A j \in J : Min(J) <= j
    <3> HIDE DEF J
    <3> QED BY <2>1, LeastExists
  <2>3. PICK j \in J : (\A l \in J : j <= l) /\ j <= n
    BY <2>1, <2>2
  <2>4. j \in Nat /\ j # 0 /\ j - 1 \in 0 .. n - 1 /\ j - 1 \notin J
    BY <1>1, <1>2, <1>3, <2>3
  <2>5. Start(j - 1) <= r /\ r < Start((j - 1) + 1)
    BY <1>2, <1>3, <2>3, <2>4
  <2> QED BY <2>4, <2>5
<1>7. PICK m \in members : Rank(m, members) = i
  BY <1>4
<1>8. ASSUME NEW k \in members, r >= Start(Rank(k, members)), r < Start(Rank(k, members) + 1) PROVE k = m
  <2>1. PICK j \in 0 .. n - 1 : j = Rank(k, members)
    BY <1>4
  <2>2. i \in Nat /\ j \in Nat /\ i + 1 \in Nat /\ j + 1 \in Nat
    BY <1>1
  <2>3. ~ (j + 1 <= i) /\ ~ (i + 1 <= j)
    BY <1>2, <1>3, <1>6, <1>8, <2>1, <2>2
  <2> QED BY <1>4, <1>7, <2>1, <2>2, <2>3
<1> QED BY <1>2, <1>5, <1>6, <1>7, <1>8

(* kafka_bus.py, "disjoint partition assignments": whoever agrees on the   *)
(* group shares every partition out, each to one.                          *)
THEOREM GroupsShareOut == KafkaSpec => []AgreedGroupsPartition
<1>1. ASSUME KafkaTypeOK PROVE AgreedGroupsPartition
  <2> SUFFICES ASSUME NEW members \in SUBSET Member, members # {}, \A m \in members : view[m] = members,
                      NEW p \in Partition
               PROVE  Cardinality({m \in members : p \in Mine(m)}) = 1
    BY DEF AgreedGroupsPartition
  <2>1. PICK m \in members : \A k \in members : p \in Assigned(k, members) <=> k = m
    BY KafkaAssumption, AssignedOnce
  <2>2. \A k \in members : Mine(k) = Assigned(k, members)
    BY DEF Mine
  <2>3. {k \in members : p \in Mine(k)} = {m}
    BY <2>1, <2>2
  <2> QED BY <2>3, FS_Singleton
<1> QED BY <1>1, KafkaInitInv, KafkaNextInv, PTL DEF KafkaSpec

-----------------------------------------------------------------------------
(* Handles that take the group to be the same one, and callers that never  *)
(* name an offset themselves.                                              *)
Agreeing(group) == /\ \A m \in Member : view'[m] \in {{}, group}
                   /\ moves' = moves

(* A handle reads on from what its group committed.                        *)
ReadsOn(group) == \A m \in Member :
  /\ view[m] \in {{}, group}
  /\ \A p \in Mine(m) : committed[p] <= position[m][p]

CommitsGrow == \A p \in Partition : committed[p] <= committed'[p]

LEMMA ReadsOnNext ==
  ASSUME NEW group \in SUBSET Member,
         KafkaTypeOK, KafkaTypeOK', ReadsOn(group), [KafkaNext /\ Agreeing(group)]_kafkaVars
  PROVE  ReadsOn(group)' /\ CommitsGrow
<1>1. /\ committed \in [Partition -> Nat] /\ committed' \in [Partition -> Nat]
      /\ view \in [Member -> SUBSET Member] /\ view' \in [Member -> SUBSET Member]
      /\ position \in [Member -> [Partition -> Nat]] /\ position' \in [Member -> [Partition -> Nat]]
  BY DEF KafkaTypeOK
<1>2. \A m \in Member : Mine(m) \subseteq Partition /\ Mine(m)' \subseteq Partition
  BY DEF Mine, Assigned
<1>3. /\ \A m \in Member : view[m] \in {{}, group}
      /\ \A m \in Member : \A p \in Mine(m) : committed[p] <= position[m][p]
  BY DEF ReadsOn
<1>4. CASE UNCHANGED kafkaVars
  BY <1>1, <1>4 DEF kafkaVars, ReadsOn, CommitsGrow, Mine
<1>5. ASSUME NEW p \in Partition, Append1(p)
      PROVE  ReadsOn(group)' /\ CommitsGrow
  BY <1>1, <1>3, <1>5 DEF Append1, ReadsOn, CommitsGrow, Mine
<1>6. ASSUME NEW m \in Member, NEW members \in SUBSET Member, Subscribe(m, members),
             members \in {{}, group}
      PROVE  ReadsOn(group)' /\ CommitsGrow
  <2>1. /\ view' = [view EXCEPT ![m] = members] /\ committed' = committed
        /\ position' = [position EXCEPT ![m] = [p \in Partition |->
                          IF p \in Assigned(m, members) THEN committed[p] ELSE 0]]
    BY <1>6 DEF Subscribe
  <2>2. ASSUME NEW k \in Member, NEW p \in Mine(k)'
        PROVE  committed'[p] <= position'[k][p]
    <3>1. CASE k = m
      <4>1. p \in Assigned(m, members) /\ p \in Partition
        BY <1>1, <1>2, <2>1, <2>2, <3>1 DEF Mine
      <4>2. position'[m][p] = committed[p]
        BY <1>1, <2>1, <4>1
      <4> QED BY <1>1, <2>1, <3>1, <4>1, <4>2
    <3>2. CASE k # m
      <4>1. p \in Mine(k) /\ position'[k] = position[k]
        BY <1>1, <2>1, <2>2, <3>2 DEF Mine
      <4> QED BY <1>3, <2>1, <4>1
    <3> QED BY <3>1, <3>2
  <2>3. \A k \in Member : view'[k] \in {{}, group}
    BY <1>1, <1>3, <1>6, <2>1
  <2>4. CommitsGrow
    BY <1>1, <2>1 DEF CommitsGrow
  <2> QED BY <2>2, <2>3, <2>4 DEF ReadsOn
<1>7. ASSUME NEW m \in Member, NEW n \in 1 .. MaxLog, GetMany(m, n)
      PROVE  ReadsOn(group)' /\ CommitsGrow
  <2> DEFINE upTo(p) == IF position[m][p] + n < ends[p] THEN position[m][p] + n ELSE ends[p]
             news == {p \in Mine(m) : position[m][p] < ends[p]}
  <2>1. /\ position' = [position EXCEPT ![m] = [p \in Partition |->
                          IF p \in news THEN upTo(p) ELSE position[m][p]]]
        /\ UNCHANGED <<ends, committed, view>>
    BY <1>7 DEF GetMany
  <2>2. \A p \in Partition : ends[p] \in Nat
    BY KafkaAssumption DEF KafkaTypeOK, KafkaAssumption
  <2>3. \A p \in news : position[m][p] <= upTo(p)
    BY <1>1, <1>2, <2>2
  <2> HIDE DEF upTo, news
  <2>4. \A k \in Member, p \in Partition : position[k][p] <= position'[k][p]
    BY <1>1, <2>1, <2>3
  <2>5. \A k \in Member : Mine(k)' = Mine(k)
    BY <2>1 DEF Mine
  <2>6. \A k \in Member : \A p \in Mine(k) : committed[p] <= position'[k][p]
    BY <1>1, <1>2, <1>3, <2>4
  <2> QED BY <1>1, <1>3, <2>1, <2>5, <2>6 DEF ReadsOn, CommitsGrow
<1>8. ASSUME NEW m \in Member, Commit(m)
      PROVE  ReadsOn(group)' /\ CommitsGrow
  <2>1. /\ view[m] = group /\ group # {} /\ UNCHANGED <<ends, view, position>>
        /\ committed' = [p \in Partition |-> IF p \in Mine(m) THEN position[m][p] ELSE committed[p]]
    BY <1>3, <1>8 DEF Commit
  <2>2. \A k \in Member : Mine(k)' = Mine(k)
    BY <2>1 DEF Mine
  <2>3. ASSUME NEW k \in Member, NEW p \in Mine(k)
        PROVE  committed'[p] <= position[k][p]
    <3>1. p \in Partition
      BY <1>2
    <3>2. CASE p \notin Mine(m)
      BY <1>3, <2>1, <3>1, <3>2
    <3>3. CASE p \in Mine(m)
      <4>1. p \in Assigned(m, group) /\ p \in Assigned(k, group) /\ m \in group /\ k \in group
        BY <1>3, <2>1, <2>3, <3>3 DEF Mine, Assigned
      <4>2. k = m
        BY <2>1, <3>1, <4>1, KafkaAssumption, AssignedOnce
      <4>3. committed'[p] = position[m][p]
        BY <2>1, <3>1, <3>3
      <4> QED BY <1>1, <3>1, <4>2, <4>3
    <3> QED BY <3>2, <3>3
  <2>4. CommitsGrow
    BY <1>1, <1>3, <2>1 DEF CommitsGrow
  <2> QED BY <1>3, <2>1, <2>2, <2>3, <2>4 DEF ReadsOn
<1>9. ASSUME NEW m \in Member, Stop(m)
      PROVE  ReadsOn(group)' /\ CommitsGrow
  <2>1. /\ view' = [view EXCEPT ![m] = {}] /\ committed' = committed
        /\ position' = [position EXCEPT ![m] = [p \in Partition |-> 0]]
    BY <1>9 DEF Stop
  <2>2. Mine(m)' = {}
    BY <1>1, <2>1 DEF Mine
  <2>3. \A k \in Member : k # m => Mine(k)' = Mine(k) /\ position'[k] = position[k]
    <3> TAKE k \in Member
    <3> HAVE k # m
    <3>1. view'[k] = view[k] /\ position'[k] = position[k]
      BY <1>1, <2>1
    <3> QED BY <3>1 DEF Mine
  <2>4. \A k \in Member : view'[k] \in {{}, group}
    BY <1>1, <1>3, <2>1
  <2>5. ASSUME NEW k \in Member, NEW p \in Mine(k)'
        PROVE  committed'[p] <= position'[k][p]
    <3>1. k # m
      BY <2>2, <2>5
    <3> QED BY <1>3, <2>1, <2>3, <2>5, <3>1
  <2>6. CommitsGrow
    BY <1>1, <2>1 DEF CommitsGrow
  <2> QED BY <2>4, <2>5, <2>6 DEF ReadsOn
<1>10. ASSUME NEW m \in Member, NEW members \in SUBSET Member, Subscribe(m, members), Agreeing(group)
       PROVE  members \in {{}, group}
  <2>1. view'[m] = members
    BY <1>1, <1>10 DEF Subscribe
  <2> QED BY <1>10, <2>1 DEF Agreeing
<1>11. ASSUME NEW partitions \in SUBSET Partition, NEW offset \in [partitions -> 0 .. MaxOffset],
              CommitOffsets(partitions, offset), Agreeing(group)
       PROVE  FALSE
  BY <1>11 DEF CommitOffsets, Agreeing, KafkaTypeOK
<1>12. ASSUME NEW m \in Member, NEW p \in Partition, NEW offset \in 0 .. MaxOffset,
              Seek(m, p, offset), Agreeing(group)
       PROVE  FALSE
  BY <1>12 DEF Seek, Agreeing, KafkaTypeOK
<1> QED BY <1>4, <1>5, <1>6, <1>7, <1>8, <1>9, <1>10, <1>11, <1>12 DEF KafkaNext

(* kafka_bus.py, "consumer position is durably persisted": as long as the   *)
(* handles of a group take it to be the same one, and no caller names an    *)
(* offset, through any fetches, commits, ends and new handles, what was     *)
(* committed is never taken back.  With two views of a group it is.        *)
THEOREM CommitsAreKept ==
  ASSUME NEW group \in SUBSET Member
  PROVE  KafkaSpec /\ [][Agreeing(group)]_kafkaVars => [][CommitsGrow]_kafkaVars
<1>1. KafkaInit => ReadsOn(group)
  BY DEF KafkaInit, ReadsOn, Mine
<1>2. KafkaTypeOK /\ KafkaTypeOK' /\ ReadsOn(group) /\ [KafkaNext]_kafkaVars
        /\ [Agreeing(group)]_kafkaVars => ReadsOn(group)' /\ [CommitsGrow]_kafkaVars
  BY ReadsOnNext
<1>3. KafkaSpec => []KafkaTypeOK
  BY KafkaInitInv, KafkaNextInv, PTL DEF KafkaSpec
<1> QED BY <1>1, <1>2, <1>3, PTL DEF KafkaSpec

-----------------------------------------------------------------------------
(* The order book.                                                         *)

(* A set of numbers with a bound has a greatest, which Max is.             *)
LEMMA GreatestExists ==
  ASSUME NEW n \in Nat, NEW I \in SUBSET (1 .. n), I # {}
  PROVE  Max(I) \in I /\ \A j \in I : j <= Max(I)
<1> DEFINE T == {n - i : i \in I}
<1>0. \A i \in I : i \in 1 .. n
  OBVIOUS
<1>1. T \subseteq Nat /\ T # {}
  <2>1. \A i \in I : n - i \in Nat
    BY <1>0
  <2>2. T # {}
    OBVIOUS
  <2> QED BY <2>1, <2>2
<1>2. \E x \in T : \A y \in T : ~ (<<y, x>> \in OpToRel(<, Nat))
  <2> HIDE DEF T
  <2> QED BY <1>1, NatLessThanWellFounded, WFMin
<1>3. PICK x \in T : \A y \in T : ~ (y < x)
  BY <1>1, <1>2 DEF OpToRel
<1>4. PICK i \in I : x = n - i
  OBVIOUS
<1>5. \A j \in I : i >= j
  BY <1>0, <1>3, <1>4
<1> QED BY <1>0, <1>5 DEF Max

(* The greatest of a set is the greatest of a part that has it.            *)
LEMMA GreatestOfPart ==
  ASSUME NEW n \in Nat, NEW I \in SUBSET (1 .. n), NEW J \in SUBSET I, J # {},
         Max(I) \in J
  PROVE  Max(J) = Max(I)
<1>1. Max(I) \in I /\ \A j \in I : j <= Max(I)
  BY GreatestExists
<1>2. Max(J) \in J /\ \A j \in J : j <= Max(J)
  BY GreatestExists
<1>3. Max(J) \in 1 .. n /\ Max(I) \in 1 .. n
  BY <1>1, <1>2
<1>4. Max(J) <= Max(I) /\ Max(I) <= Max(J)
  BY <1>1, <1>2
<1> QED BY <1>3, <1>4

(* A venue's quantity is one.                                              *)
LEMMA VenueTypes ==
  ASSUME MarketAssumption, updates \in Seq(Update), NEW l \in Level, NEW u \in 0 .. Len(updates)
  PROVE  VenueQty(l, u) \in LevelQty
<1> DEFINE past == Touching(l, 1, u)
<1>1. past \subseteq 1 .. u /\ u \in Nat
  BY DEF Touching
<1>2. CASE past = {}
  BY <1>2 DEF VenueQty, MarketAssumption
<1>3. CASE past # {}
  <2>1. Max(past) \in past
    <3> HIDE DEF past
    <3> QED BY <1>1, <1>3, GreatestExists
  <2>2. Max(past) \in 1 .. Len(updates)
    BY <1>1, <2>1
  <2>3. updates[Max(past)] \in Update
    BY <2>2
  <2>4. VenueQty(l, u) = updates[Max(past)].qty
    BY <1>3 DEF VenueQty
  <2> QED BY <2>3, <2>4 DEF Update
<1> QED BY <1>2, <1>3

(* What happens later does not change what the venue had.                  *)
LEMMA VenueKeepsHistory ==
  ASSUME updates \in Seq(Update), NEW update \in Update, updates' = Append(updates, update),
         NEW l \in Level, NEW u \in 0 .. Len(updates)
  PROVE  VenueQty(l, u)' = VenueQty(l, u)
<1>1. \A v \in 1 .. u : updates'[v] = updates[v]
  OBVIOUS
<1>2. Touching(l, 1, u)' = Touching(l, 1, u)
  BY <1>1 DEF Touching
<1>3. CASE Touching(l, 1, u) = {}
  BY <1>2, <1>3 DEF VenueQty
<1>4. CASE Touching(l, 1, u) # {}
  <2>0. Touching(l, 1, u) \subseteq 1 .. u /\ u \in Nat
    BY DEF Touching
  <2>1. Max(Touching(l, 1, u)) \in Touching(l, 1, u)
    BY <1>4, <2>0, GreatestExists
  <2>2. updates'[Max(Touching(l, 1, u))] = updates[Max(Touching(l, 1, u))]
    BY <1>1, <2>0, <2>1
  <2> QED BY <1>2, <2>2 DEF VenueQty
<1> QED BY <1>3, <1>4

(* A contiguous delta says of a level what the venue has behind it, or the *)
(* venue has had no update of the level since.                             *)
LEMMA DeltaIsTheVenues ==
  ASSUME updates \in Seq(Update), NEW l \in Level,
         NEW first \in DOMAIN updates, NEW final \in DOMAIN updates,
         NEW m \in 0 .. Len(updates), first <= m + 1, m + 1 <= final
  PROVE  LET some == Touching(l, first, final)
         IN  VenueQty(l, final) = IF some = {} THEN VenueQty(l, m) ELSE updates[Max(some)].qty
<1> DEFINE some == Touching(l, first, final)
           past == Touching(l, 1, final)
<1>0. some \subseteq past /\ past \subseteq 1 .. final /\ first \in Nat \ {0} /\ final \in Nat
  BY DEF Touching
<1>1. CASE some = {}
  <2>1. past = Touching(l, 1, m)
    BY <1>0, <1>1 DEF Touching
  <2> QED BY <1>1, <2>1 DEF VenueQty
<1>2. CASE some # {}
  <2>1. past # {} /\ Max(past) \in past /\ \A j \in past : j <= Max(past)
    BY <1>0, <1>2, GreatestExists
  <2>2. PICK j \in some : TRUE
    BY <1>2
  <2>3. Max(past) \in some
    BY <1>0, <2>1, <2>2 DEF Touching
  <2>4. Max(some) = Max(past)
    BY <1>0, <1>2, <2>3, GreatestOfPart
  <2> QED BY <1>2, <2>1, <2>4 DEF VenueQty
<1> QED BY <1>1, <1>2

MarketInv == MarketTypeOK /\ BookIsTheVenues

LEMMA MarketInductive ==
  ASSUME MarketAssumption, MarketInv, [MarketNext]_marketVars
  PROVE  MarketInv'
<1> USE DEF MarketInv
<1>1. CASE Trade
  <2>1. PICK update \in Update : updates' = Append(updates, update)
    BY <1>1 DEF Trade
  <2>2. MarketTypeOK'
    BY <1>1, <2>1 DEF Trade, MarketTypeOK
  <2>3. ASSUME lastUpdate >= 0, NEW l \in Level
        PROVE  VenueQty(l, lastUpdate)' = VenueQty(l, lastUpdate)
    <3>1. lastUpdate \in 0 .. Len(updates) /\ updates \in Seq(Update) /\ lastUpdate' = lastUpdate
      BY <1>1, <2>3 DEF Trade, MarketTypeOK
    <3> QED BY <2>1, <3>1, VenueKeepsHistory DEF VenueQty, Touching
  <2>4. levels' = levels /\ whole' = whole /\ lastUpdate' = lastUpdate
    BY <1>1 DEF Trade
  <2> QED BY <2>2, <2>3, <2>4 DEF BookIsTheVenues
<1>2. ASSUME NEW u \in 0 .. Len(updates), ApplySnapshot(u)
      PROVE  MarketInv'
  <2>0. updates \in Seq(Update) /\ updates' = updates /\ lastUpdate' = u
    BY <1>2 DEF ApplySnapshot, MarketTypeOK
  <2>1. \A l \in Level : VenueQty(l, u) \in LevelQty
    BY <2>0, VenueTypes
  <2>2. MarketTypeOK'
    BY <1>2, <2>0, <2>1 DEF ApplySnapshot, MarketTypeOK, MarketAssumption
  <2>3. \A l \in Level : VenueQty(l, lastUpdate)' = VenueQty(l, u)
    BY <2>0 DEF VenueQty, Touching
  <2>4. \A l \in Level : levels'[l] = VenueQty(l, u) \/ (~ whole' /\ levels'[l] = 0)
    BY <1>2 DEF ApplySnapshot
  <2> QED BY <2>2, <2>3, <2>4 DEF BookIsTheVenues
<1>3. ASSUME NEW first \in DOMAIN updates, NEW final \in DOMAIN updates,
             first <= final, ApplyDelta(first, final)
      PROVE  MarketInv'
  <2>0. /\ updates \in Seq(Update) /\ updates' = updates /\ whole' = whole /\ lastUpdate' = final
        /\ lastUpdate \in 0 .. Len(updates) /\ first <= lastUpdate + 1 /\ lastUpdate + 1 <= final
        /\ first \in 1 .. Len(updates) /\ final \in 1 .. Len(updates)
    BY <1>3 DEF ApplyDelta, Contiguous, MarketTypeOK
  <2>1. \A l \in Level :
          LET some == Touching(l, first, final)
          IN  /\ levels'[l] = IF some = {} THEN levels[l] ELSE updates[Max(some)].qty
              /\ VenueQty(l, final) = IF some = {} THEN VenueQty(l, lastUpdate) ELSE updates[Max(some)].qty
    <3> TAKE l \in Level
    <3>1. levels'[l] = IF Touching(l, first, final) = {} THEN levels[l]
                       ELSE updates[Max(Touching(l, first, final))].qty
      BY <1>3 DEF ApplyDelta
    <3> QED BY <2>0, <3>1, DeltaIsTheVenues
  <2>2. \A l \in Level : levels'[l] = VenueQty(l, final) \/ (~ whole' /\ levels'[l] = 0)
    BY <2>0, <2>1 DEF BookIsTheVenues
  <2>3. \A l \in Level : VenueQty(l, final) \in LevelQty
    BY <2>0, VenueTypes
  <2>4. \A l \in Level : levels'[l] \in LevelQty
    BY <2>2, <2>3 DEF MarketAssumption
  <2>5. levels' \in [Level -> LevelQty]
    BY <1>3, <2>4 DEF ApplyDelta
  <2>6. MarketTypeOK'
    BY <2>0, <2>5 DEF MarketTypeOK
  <2>7. \A l \in Level : VenueQty(l, lastUpdate)' = VenueQty(l, final)
    BY <2>0 DEF VenueQty, Touching
  <2> QED BY <2>2, <2>6, <2>7 DEF BookIsTheVenues
<1>4. CASE UNCHANGED marketVars
  BY <1>4 DEF marketVars, MarketTypeOK, BookIsTheVenues, VenueQty, Touching
<1> QED BY <1>1, <1>2, <1>3, <1>4 DEF MarketNext

(* orderbook.py: the book is the venue's behind last_update_id.            *)
THEOREM BookMatchesVenue == MarketSpec => []BookIsTheVenues
<1>1. MarketInit => MarketInv
  BY MarketAssumption DEF MarketInit, MarketInv, MarketTypeOK, BookIsTheVenues, MarketAssumption, Update
<1>2. MarketInv /\ [MarketNext]_marketVars => MarketInv'
  BY MarketAssumption, MarketInductive
<1>3. MarketInv => BookIsTheVenues
  BY DEF MarketInv
<1> QED BY <1>1, <1>2, <1>3, PTL DEF MarketSpec

(* The depth of a snapshot that leaves no level out.                       *)
LEMMA DeepEnough ==
  ASSUME MarketAssumption, Cardinality(Level) <= Depth, NEW u
  PROVE  Shown(u) = {l \in Level : VenueQty(l, u) > 0}
<1> DEFINE held == {l \in Level : VenueQty(l, u) > 0}
           before(l) == {k \in held : k < l}
<1>1. IsFiniteSet(Level) /\ Level \subseteq Nat /\ Depth \in Nat
  BY DEF MarketAssumption
<1>2. ASSUME NEW l \in held PROVE Cardinality(before(l)) < Depth
  <2>1. before(l) \subseteq Level \ {l} /\ l \in Level
    BY <1>1
  <2>2. /\ IsFiniteSet(Level \ {l}) /\ Cardinality(Level \ {l}) = Cardinality(Level) - 1
        /\ Cardinality(Level) \in Nat
    BY <1>1, <2>1, FS_RemoveElement, FS_CardinalityType
  <2> HIDE DEF before
  <2>3. Cardinality(before(l)) <= Cardinality(Level \ {l}) /\ Cardinality(before(l)) \in Nat
    BY <2>1, <2>2, FS_Subset, FS_CardinalityType
  <2> QED BY <1>1, <2>2, <2>3
<1> QED BY <1>2 DEF Shown

\* The book is the venue's, no level aside.
BookIsExact == lastUpdate >= 0 => \A l \in Level : levels[l] = VenueQty(l, lastUpdate)

(* orderbook.py, with snapshots of every level, for any levels, quantities *)
(* and history: whatever is lost, repeated, late or cut anew, the book is  *)
(* exactly the venue's behind last_update_id.                              *)
THEOREM WholeSnapshotsAreExact ==
  ASSUME Cardinality(Level) <= Depth PROVE MarketSpec => []BookIsExact
<1>1. MarketInit => MarketInv /\ whole = TRUE
  BY MarketAssumption DEF MarketInit, MarketInv, MarketTypeOK, BookIsTheVenues, MarketAssumption, Update
<1>2. MarketInv /\ whole = TRUE /\ [MarketNext]_marketVars => (MarketInv /\ whole = TRUE)'
  <2> SUFFICES ASSUME MarketInv, whole = TRUE, [MarketNext]_marketVars PROVE whole' = TRUE
    BY MarketAssumption, MarketInductive
  <2>1. ASSUME NEW u \in 0 .. Len(updates), ApplySnapshot(u) PROVE whole' = TRUE
    <3>1. \A l \in Level : VenueQty(l, u) \in Nat
      BY <2>1, MarketAssumption, VenueTypes DEF MarketInv, MarketTypeOK, MarketAssumption
    <3>2. \A l \in Level \ Shown(u) : VenueQty(l, u) = 0
      BY <3>1, MarketAssumption, DeepEnough
    <3> QED BY <2>1, <3>2 DEF ApplySnapshot
  <2>2. CASE Trade \/ (\E first, final \in DOMAIN updates : ApplyDelta(first, final)) \/ UNCHANGED marketVars
    BY <2>2 DEF Trade, ApplyDelta, marketVars
  <2> QED BY <2>1, <2>2 DEF MarketNext
<1>3. MarketInv /\ whole = TRUE => BookIsExact
  BY DEF MarketInv, BookIsTheVenues, BookIsExact
<1> QED BY <1>1, <1>2, <1>3, PTL DEF MarketSpec

-----------------------------------------------------------------------------
(* The proposals of the chat.                                              *)

(* What a replay can make of a proposal; pending only if no decision row   *)
(* stands behind its PENDING row.                                          *)
LEMMA ProjectedIs ==
  ASSUME NEW table \in Seq(Row), NEW p \in Proposal
  PROVE  /\ Projected(table, p) \in Status \cup {"absent"}
         /\ Projected(table, p) = "PENDING" =>
              \E i \in PendingRows(table, p) : \A j \in DecisionRows(table, p) : j <= i
<1> DEFINE pending == PendingRows(table, p)
           later == {j \in DecisionRows(table, p) : pending # {} /\ j > Min(pending)}
<1>1. DOMAIN table = 1 .. Len(table) /\ Len(table) \in Nat
  OBVIOUS
<1>2. pending \subseteq Nat /\ DecisionRows(table, p) \subseteq Nat
  BY <1>1 DEF PendingRows, DecisionRows
<1>3. Projected(table, p) = CASE pending = {} -> "absent"
                             [] pending # {} /\ later = {} -> "PENDING"
                             [] OTHER -> table[Min(later)].kind
  BY DEF Projected
<1>4. CASE pending = {}
  <2>1. Projected(table, p) = "absent"
    BY <1>3, <1>4
  <2> QED BY <2>1
<1>5. CASE pending # {} /\ later = {}
  <2>1. Projected(table, p) = "PENDING"
    BY <1>3, <1>5
  <2>2. Min(pending) \in pending
    BY <1>2, <1>5, LeastExists
  <2>3. \A j \in DecisionRows(table, p) : j <= Min(pending)
    BY <1>2, <1>5, <2>2
  <2> HIDE DEF pending
  <2>4. \E i \in pending : \A j \in DecisionRows(table, p) : j <= i
    BY <2>2, <2>3
  <2> QED BY <2>1, <2>4 DEF pending, Status
<1>6. CASE pending # {} /\ later # {}
  <2>1. later \subseteq Nat /\ later \subseteq DecisionRows(table, p)
    BY <1>2
  <2>2. Min(later) \in DecisionRows(table, p)
    <3> HIDE DEF later
    <3> QED BY <1>6, <2>1, LeastExists
  <2>3. Projected(table, p) = table[Min(later)].kind
    BY <1>3, <1>6
  <2> HIDE DEF later
  <2>4. Projected(table, p) \in Verdict
    BY <2>2, <2>3 DEF DecisionRows
  <2> QED BY <2>4 DEF Verdict, Status
<1> QED BY <1>4, <1>5, <1>6

(* One row more.                                                           *)
LEMMA LogAdds ==
  ASSUME ChatTypeOK, NEW status \in Status, NEW q \in Proposal, Log(status, q), NEW p \in Proposal
  PROVE  /\ approvals' \in Seq(Row)
         /\ \A i \in DOMAIN approvals : i \in DOMAIN approvals' /\ approvals'[i] = approvals[i]
         /\ PendingRows(approvals, p) \subseteq PendingRows(approvals', p)
         /\ DecisionRows(approvals, p) \subseteq DecisionRows(approvals', p)
         /\ p # q \/ status # "PENDING" => PendingRows(approvals', p) = PendingRows(approvals, p)
         /\ p # q \/ status = "PENDING" => DecisionRows(approvals', p) = DecisionRows(approvals, p)
         /\ p = q /\ status \in Verdict =>
              /\ Len(approvals) + 1 \in DecisionRows(approvals', p)
              /\ approvals'[Len(approvals) + 1].kind = status
              /\ DecisionRows(approvals', p) =
                   DecisionRows(approvals, p) \cup {Len(approvals) + 1}
         /\ p = q /\ status = "PENDING" => Len(approvals) + 1 \in PendingRows(approvals', p)
<1> DEFINE row == [kind |-> status, id |-> q]
<1>1. row \in Row /\ row.kind = status /\ row.id = q /\ approvals \in Seq(Row)
  BY DEF Row, ChatTypeOK
<1>2. approvals' = Append(approvals, row)
  BY DEF Log
<1>3. row = [kind |-> status, id |-> q]
  OBVIOUS
<1> HIDE DEF row
<1>4. /\ approvals' \in Seq(Row) /\ DOMAIN approvals' = 1 .. Len(approvals) + 1
      /\ approvals'[Len(approvals) + 1] = row
      /\ \A i \in 1 .. Len(approvals) : approvals'[i] = approvals[i]
      /\ DOMAIN approvals = 1 .. Len(approvals) /\ Len(approvals) \in Nat
  BY <1>1, <1>2, AppendProperties
<1>5. "PENDING" \notin Verdict
  BY DEF Verdict
<1>6. /\ PendingRows(approvals, p) \subseteq PendingRows(approvals', p)
      /\ DecisionRows(approvals, p) \subseteq DecisionRows(approvals', p)
  BY <1>4 DEF PendingRows, DecisionRows
<1>7. p # q \/ status = "PENDING" => DecisionRows(approvals', p) = DecisionRows(approvals, p)
  BY <1>1, <1>4, <1>5 DEF DecisionRows
<1>8. p = q /\ status \in Verdict =>
        DecisionRows(approvals', p) = DecisionRows(approvals, p) \cup {Len(approvals) + 1}
  BY <1>1, <1>4 DEF DecisionRows
<1>9. p = q /\ status = "PENDING" => Len(approvals) + 1 \in PendingRows(approvals', p)
  BY <1>3, <1>4 DEF PendingRows
<1>10. p # q \/ status # "PENDING" => PendingRows(approvals', p) = PendingRows(approvals, p)
  BY <1>3, <1>4 DEF PendingRows
<1> QED BY <1>1, <1>4, <1>6, <1>7, <1>8, <1>9, <1>10

(* A thread that carries a decision of a proposal out.                     *)
Carries(r, p) == serving[r] # NoRequest /\ serving[r].id = p /\ serving[r].at \in {"decided", "logged"}

(* A verdict stands in memory as long as the process lives.                *)
VerdictStands == \A r \in Request, p \in Proposal : Carries(r, p) => queue[p] \in Verdict

LEMMA ChatInitTypes == ChatInit => ChatTypeOK /\ VerdictStands
BY DEF ChatInit, ChatTypeOK, Status, VerdictStands, Carries

LEMMA ServeTypes ==
  ASSUME ChatTypeOK, NEW r \in Request, NEW p \in Proposal,
         NEW place \in {"queued", "auto", "decided", "logged"}, Serve(r, p, place) \/ Done(r)
  PROVE  serving' \in [Request -> Serving \cup {NoRequest}]
<1>1. [id |-> p, at |-> place] \in Serving
  BY DEF Serving
<1> QED BY <1>1 DEF ChatTypeOK, Serve, Done

LEMMA ChatStepTypes ==
  ASSUME ChatTypeOK, VerdictStands, NEW r \in Request,
         \/ \E p \in Proposal : Submit(r, p) \/ \E verdict \in Verdict : Decide(r, p, verdict)
         \/ LogPending(r) \/ AutoTooLate(r) \/ LogDecision(r)
         \/ AppendRaises(r) \/ Emit(r) \/ EmitRaises(r)
  PROVE  ChatTypeOK'
<1>1. \A place : At(r, place) => serving[r].id \in Proposal /\ serving[r] \in Serving
  BY DEF At, ChatTypeOK, Serving
<1>2. ASSUME NEW p \in Proposal, Submit(r, p) PROVE ChatTypeOK'
  BY <1>2, ServeTypes DEF Submit, ChatTypeOK, Status
<1>3. ASSUME NEW p \in Proposal, NEW verdict \in Verdict, Decide(r, p, verdict) PROVE ChatTypeOK'
  BY <1>3, ServeTypes DEF Decide, ChatTypeOK, Status
<1>4. CASE LogPending(r)
  <2>1. serving[r].id \in Proposal
    BY <1>1, <1>4 DEF LogPending
  <2>2. Log("PENDING", serving[r].id) /\ "PENDING" \in Status
    BY <1>4 DEF LogPending, Status
  <2>3. approvals' \in Seq(Row)
    BY <2>1, <2>2, LogAdds
  <2> QED BY <1>4, <2>1, <2>3, ServeTypes DEF LogPending, ChatTypeOK
<1>5. CASE AutoTooLate(r)
  BY <1>1, <1>5, ServeTypes DEF AutoTooLate, ChatTypeOK
<1>6. CASE LogDecision(r)
  <2>1. serving[r].id \in Proposal
    BY <1>1, <1>6 DEF LogDecision
  <2>2. Log(queue[serving[r].id], serving[r].id)
    BY <1>6 DEF LogDecision
  <2>4. queue[serving[r].id] \in Status
    BY <1>6, <2>1 DEF LogDecision, At, VerdictStands, Carries, Status
  <2>3. approvals' \in Seq(Row)
    BY <2>1, <2>2, <2>4, LogAdds
  <2> QED BY <1>6, <2>1, <2>3, ServeTypes DEF LogDecision, ChatTypeOK
<1>7. CASE AppendRaises(r)
  BY <1>1, <1>7, ServeTypes DEF AppendRaises, ChatTypeOK
<1>8. CASE Emit(r)
  BY <1>1, <1>8, ServeTypes DEF Emit, ChatTypeOK
<1>9. CASE EmitRaises(r)
  BY <1>1, <1>9, ServeTypes DEF EmitRaises, ChatTypeOK
<1> QED BY <1>2, <1>3, <1>4, <1>5, <1>6, <1>7, <1>8, <1>9
LEMMA ChatRestartTypes == ASSUME ChatTypeOK, ChatRestart PROVE ChatTypeOK' /\ VerdictStands'
<1>1. \A p \in Proposal : Projected(approvals, p) \in Status \cup {"absent"}
  BY ProjectedIs DEF ChatTypeOK
<1> QED BY <1>1 DEF ChatRestart, ChatTypeOK, VerdictStands, Carries

LEMMA ChatStepStands ==
  ASSUME ChatTypeOK, VerdictStands, NEW r \in Request,
         \/ \E p \in Proposal : Submit(r, p) \/ \E verdict \in Verdict : Decide(r, p, verdict)
         \/ LogPending(r) \/ AutoTooLate(r) \/ LogDecision(r)
         \/ AppendRaises(r) \/ Emit(r) \/ EmitRaises(r)
  PROVE  VerdictStands'
<1> USE DEF ChatTypeOK
<1>1. "PENDING" \notin Verdict /\ "absent" \notin Verdict
  BY DEF Verdict
<1>2. ASSUME NEW p \in Proposal, Submit(r, p) PROVE VerdictStands'
  <2>1. queue[p] = "absent" /\ queue' = [queue EXCEPT ![p] = "PENDING"]
        /\ serving' = [serving EXCEPT ![r] = [id |-> p, at |-> "queued"]]
    BY <1>2 DEF Submit, Serve
  <2>2. \A s \in Request, q \in Proposal : Carries(s, q)' => Carries(s, q) /\ q # p
    BY <1>1, <2>1 DEF Carries, VerdictStands
  <2> QED BY <2>1, <2>2 DEF VerdictStands
<1>3. ASSUME NEW p \in Proposal, NEW verdict \in Verdict, Decide(r, p, verdict)
      PROVE  VerdictStands'
  <2>1. queue' = [queue EXCEPT ![p] = verdict]
        /\ serving' = [serving EXCEPT ![r] = [id |-> p, at |-> "decided"]]
    BY <1>3 DEF Decide, Serve
  <2>2. \A s \in Request, q \in Proposal : Carries(s, q)' => Carries(s, q) \/ q = p
    BY <2>1 DEF Carries
  <2> QED BY <2>1, <2>2 DEF VerdictStands
<1>4. CASE \/ LogPending(r) \/ AutoTooLate(r) \/ LogDecision(r)
           \/ AppendRaises(r) \/ Emit(r) \/ EmitRaises(r)
  <2>1. queue' = queue
    BY <1>4 DEF LogPending, AutoTooLate, LogDecision, AppendRaises, Emit, EmitRaises
  <2>2. \/ serving' = [serving EXCEPT ![r] = NoRequest]
        \/ serving' = [serving EXCEPT ![r] = [id |-> serving[r].id, at |-> "auto"]]
        \/ /\ At(r, "decided")
           /\ serving' = [serving EXCEPT ![r] = [id |-> serving[r].id, at |-> "logged"]]
    BY <1>4 DEF LogPending, AutoTooLate, LogDecision, AppendRaises, Emit, EmitRaises, Serve, Done
  <2>3. \A s \in Request, q \in Proposal : Carries(s, q)' => Carries(s, q)
    BY <2>2 DEF Carries, At
  <2> QED BY <2>1, <2>3 DEF VerdictStands
<1> QED BY <1>2, <1>3, <1>4

LEMMA ChatNextTypes ==
  ChatTypeOK /\ VerdictStands /\ [ChatNext]_chatVars => (ChatTypeOK /\ VerdictStands)'
<1> SUFFICES ASSUME ChatTypeOK, VerdictStands, [ChatNext]_chatVars
             PROVE  ChatTypeOK' /\ VerdictStands'
  OBVIOUS
<1>1. CASE UNCHANGED chatVars
  BY <1>1 DEF chatVars, ChatTypeOK, VerdictStands, Carries
<1>2. CASE ChatRestart
  BY <1>2, ChatRestartTypes
<1>3. CASE ChatNext /\ ~ChatRestart
  BY <1>3, ChatStepTypes, ChatStepStands DEF ChatNext
<1> QED BY <1>1, <1>2, <1>3

(* What holds of a proposal that was not overtaken.                        *)
Settled(p) ==
  /\ \A i, j \in DecisionRows(approvals, p) : i = j
  /\ \A r, s \in Request : Carries(r, p) /\ Carries(s, p) => r = s
  /\ queue[p] = "PENDING" => DecisionRows(approvals, p) = {}
  /\ \A r \in Request : /\ Carries(r, p) /\ serving[r].at = "decided" =>
                             DecisionRows(approvals, p) = {}
                        /\ Carries(r, p) /\ serving[r].at = "logged" => emitted[p] = 0
  /\ \A r \in Request : Carries(r, p) /\ serving[r].at = "logged" =>
       \E i \in DecisionRows(approvals, p) : approvals[i].kind = "APPROVED"
  /\ emitted[p] <= 1
  /\ emitted[p] # 0 => \E i \in DecisionRows(approvals, p) : approvals[i].kind = "APPROVED"

ChatInv == ChatTypeOK /\ VerdictStands /\ \A p \in Proposal : ~Overtaken(p) => Settled(p)

LEMMA ChatInitInv == ChatInit => ChatInv
<1> SUFFICES ASSUME ChatInit PROVE ChatInv
  OBVIOUS
<1>1. \A p \in Proposal : DecisionRows(approvals, p) = {}
  BY DEF ChatInit, DecisionRows
<1>2. \A r \in Request, p \in Proposal : ~Carries(r, p)
  BY DEF ChatInit, Carries
<1> QED BY <1>1, <1>2, ChatInitTypes DEF ChatInv, Settled, ChatInit

(* An overtaken proposal stays overtaken.                                  *)
LEMMA OvertakenStays ==
  ASSUME NEW p \in Proposal, ~Overtaken(p)',
         PendingRows(approvals, p) \subseteq PendingRows(approvals', p),
         DecisionRows(approvals, p) \subseteq DecisionRows(approvals', p)
  PROVE  ~Overtaken(p)
BY DEF Overtaken

LEMMA SubmitSettles ==
  ASSUME ChatInv, NEW r \in Request, NEW q \in Proposal, Submit(r, q),
         NEW p \in Proposal, ~Overtaken(p)'
  PROVE  Settled(p)'
<1>1. /\ UNCHANGED <<approvals, emitted>> /\ queue[q] = "absent"
      /\ queue' = [queue EXCEPT ![q] = "PENDING"] /\ queue \in [Proposal -> Status \cup {"absent"}]
      /\ serving' = [serving EXCEPT ![r] = [id |-> q, at |-> "queued"]]
      /\ serving \in [Request -> Serving \cup {NoRequest}]
      /\ \A i \in DOMAIN approvals : approvals[i].id # q
  BY DEF Submit, Serve, ChatInv, ChatTypeOK
<1>2. ~Overtaken(p) /\ Settled(p)
  BY <1>1 DEF Overtaken, ChatInv
<1>3. \A s \in Request : Carries(s, p)' => Carries(s, p) /\ serving'[s] = serving[s]
  BY <1>1 DEF Carries
<1>4. p = q => DecisionRows(approvals, p) = {}
  BY <1>1 DEF DecisionRows
<1>5. queue'[p] = "PENDING" => DecisionRows(approvals, p) = {}
  BY <1>1, <1>2, <1>4 DEF Settled
<1>6. DecisionRows(approvals', p) = DecisionRows(approvals, p) /\ approvals' = approvals
      /\ emitted' = emitted
  BY <1>1
<1> QED BY <1>2, <1>3, <1>5, <1>6 DEF Settled

LEMMA DecideSettles ==
  ASSUME ChatInv, NEW r \in Request, NEW q \in Proposal, NEW verdict \in Verdict,
         Decide(r, q, verdict), NEW p \in Proposal, ~Overtaken(p)'
  PROVE  Settled(p)'
<1>1. /\ UNCHANGED <<approvals, emitted>> /\ queue[q] = "PENDING"
      /\ queue' = [queue EXCEPT ![q] = verdict] /\ queue \in [Proposal -> Status \cup {"absent"}]
      /\ serving' = [serving EXCEPT ![r] = [id |-> q, at |-> "decided"]]
      /\ serving \in [Request -> Serving \cup {NoRequest}]
  BY DEF Decide, Serve, ChatInv, ChatTypeOK
<1>2. ~Overtaken(p) /\ Settled(p)
  BY <1>1 DEF Overtaken, ChatInv
<1>3. "PENDING" \notin Verdict
  BY DEF Verdict
<1>4. \A s \in Request : ~Carries(s, q)
  BY <1>1, <1>3 DEF ChatInv, VerdictStands
<1>5. \A s \in Request : Carries(s, p)' =>
        \/ p # q /\ Carries(s, p) /\ serving'[s] = serving[s]
        \/ p = q /\ s = r /\ serving'[s].at = "decided"
  BY <1>1, <1>4 DEF Carries
<1>6. p = q => DecisionRows(approvals, p) = {}
  BY <1>1, <1>2 DEF Settled
<1>7. queue'[p] = "PENDING" => queue[p] = "PENDING"
  BY <1>1, <1>3
<1>8. DecisionRows(approvals', p) = DecisionRows(approvals, p) /\ approvals' = approvals
      /\ emitted' = emitted
  BY <1>1
<1> QED BY <1>2, <1>5, <1>6, <1>7, <1>8 DEF Settled

LEMMA LogPendingSettles ==
  ASSUME ChatInv, NEW r \in Request, LogPending(r), NEW p \in Proposal, ~Overtaken(p)'
  PROVE  Settled(p)'
<1> DEFINE q == serving[r].id
<1>1. /\ UNCHANGED <<queue, emitted>> /\ Log("PENDING", q) /\ q \in Proposal
      /\ serving \in [Request -> Serving \cup {NoRequest}]
      /\ \/ serving' = [serving EXCEPT ![r] = NoRequest]
         \/ serving' = [serving EXCEPT ![r] = [id |-> q, at |-> "auto"]]
  BY DEF LogPending, Done, Serve, ChatInv, ChatTypeOK, At, Serving
<1>2. "PENDING" \in Status /\ ChatTypeOK
  BY DEF Status, ChatInv
<1> HIDE DEF q
<1>3. /\ \A i \in DOMAIN approvals : approvals'[i] = approvals[i]
      /\ PendingRows(approvals, p) \subseteq PendingRows(approvals', p)
      /\ DecisionRows(approvals', p) = DecisionRows(approvals, p)
  BY <1>1, <1>2, LogAdds
<1>4. ~Overtaken(p) /\ Settled(p)
  BY <1>3, OvertakenStays DEF ChatInv
<1>5. \A s \in Request : Carries(s, p)' => Carries(s, p) /\ serving'[s] = serving[s]
  BY <1>1 DEF Carries
<1>6. DecisionRows(approvals, p) \subseteq DOMAIN approvals
  BY DEF DecisionRows
<1> QED BY <1>1, <1>3, <1>4, <1>5, <1>6 DEF Settled

LEMMA LogDecisionSettles ==
  ASSUME ChatInv, NEW r \in Request, LogDecision(r), NEW p \in Proposal, ~Overtaken(p)'
  PROVE  Settled(p)'
<1> DEFINE q == serving[r].id
           n == Len(approvals) + 1
<1>1. /\ UNCHANGED <<queue, emitted>> /\ Log(queue[q], q) /\ q \in Proposal /\ Carries(r, q)
      /\ serving \in [Request -> Serving \cup {NoRequest}] /\ serving[r].at = "decided"
      /\ IF queue[q] = "APPROVED"
         THEN serving' = [serving EXCEPT ![r] = [id |-> q, at |-> "logged"]]
         ELSE serving' = [serving EXCEPT ![r] = NoRequest]
  BY DEF LogDecision, Done, Serve, ChatInv, ChatTypeOK, At, Serving, Carries
<1> HIDE DEF q
<1>2. queue[q] \in Verdict /\ queue[q] \in Status /\ ChatTypeOK
  BY <1>1 DEF Status, ChatInv, VerdictStands
<1>3. /\ \A i \in DOMAIN approvals : approvals'[i] = approvals[i]
      /\ PendingRows(approvals, p) \subseteq PendingRows(approvals', p)
      /\ DecisionRows(approvals, p) \subseteq DecisionRows(approvals', p)
      /\ p # q => DecisionRows(approvals', p) = DecisionRows(approvals, p)
      /\ p = q => /\ approvals'[n].kind = queue[q]
                  /\ DecisionRows(approvals', p) = DecisionRows(approvals, p) \cup {n}
  BY <1>1, <1>2, LogAdds
<1> HIDE DEF n
<1>4. ~Overtaken(p) /\ Settled(p)
  BY <1>3, OvertakenStays DEF ChatInv
<1>5. DecisionRows(approvals, p) \subseteq DOMAIN approvals
  BY DEF DecisionRows
<1>6. CASE p # q
  <2>1. \A s \in Request : Carries(s, p)' => Carries(s, p) /\ serving'[s] = serving[s]
    BY <1>1, <1>6 DEF Carries
  <2> QED BY <1>1, <1>3, <1>4, <1>5, <1>6, <2>1 DEF Settled
<1>7. CASE p = q
  <2>1. DecisionRows(approvals, p) = {} /\ emitted[p] = 0
    BY <1>1, <1>4, <1>7, <1>2 DEF Settled
  <2>2. DecisionRows(approvals', p) = {n} /\ approvals'[n].kind = queue[p]
    BY <1>3, <1>7, <2>1
  <2>3. \A s \in Request : Carries(s, p)' =>
          s = r /\ serving'[s].at = "logged" /\ queue[p] = "APPROVED"
    BY <1>1, <1>4, <1>7 DEF Settled, Carries
  <2>4. queue'[p] # "PENDING"
    BY <1>1, <1>2, <1>7 DEF Verdict
  <2> QED BY <1>1, <2>1, <2>2, <2>3, <2>4 DEF Settled
<1> QED BY <1>6, <1>7

LEMMA OthersSettle ==
  ASSUME ChatInv, NEW r \in Request, AutoTooLate(r) \/ AppendRaises(r) \/ EmitRaises(r) \/ Emit(r),
         NEW p \in Proposal, ~Overtaken(p)'
  PROVE  Settled(p)'
<1>1. /\ UNCHANGED <<approvals, queue>>
      /\ serving' = [serving EXCEPT ![r] = NoRequest]
      /\ serving \in [Request -> Serving \cup {NoRequest}]
  BY DEF AutoTooLate, AppendRaises, EmitRaises, Emit, Done, ChatInv, ChatTypeOK
<1>2. ~Overtaken(p) /\ Settled(p)
  BY <1>1 DEF Overtaken, ChatInv
<1>3. \A s \in Request : Carries(s, p)' => Carries(s, p) /\ serving'[s] = serving[s] /\ s # r
  BY <1>1 DEF Carries
<1>4. DecisionRows(approvals', p) = DecisionRows(approvals, p) /\ approvals' = approvals
  BY <1>1
<1>5. CASE emitted' = emitted
  BY <1>1, <1>2, <1>3, <1>4, <1>5 DEF Settled
<1>6. CASE Emit(r)
  <2> DEFINE q == serving[r].id
  <2>1. /\ emitted' = [emitted EXCEPT ![q] = @ + 1] /\ q \in Proposal
        /\ Carries(r, q) /\ serving[r].at = "logged" /\ emitted \in [Proposal -> Nat]
    BY <1>6 DEF Emit, At, Carries, ChatInv, ChatTypeOK, Serving
  <2> HIDE DEF q
  <2>2. CASE p # q
    <3>1. emitted'[p] = emitted[p]
      BY <2>1, <2>2
    <3> QED BY <1>1, <1>2, <1>3, <1>4, <3>1 DEF Settled
  <2>3. CASE p = q
    <3>1. emitted[p] = 0 /\ emitted'[p] = 1
      BY <1>2, <2>1, <2>3 DEF Settled
    <3>2. \E i \in DecisionRows(approvals, p) : approvals[i].kind = "APPROVED"
      BY <1>2, <2>1, <2>3 DEF Settled
    <3>3. \A s \in Request : ~Carries(s, p)'
      BY <1>2, <1>3, <2>1, <2>3 DEF Settled
    <3> QED BY <1>1, <1>2, <1>4, <3>1, <3>2, <3>3 DEF Settled
  <2> QED BY <2>2, <2>3
<1> QED BY <1>5, <1>6 DEF AutoTooLate, AppendRaises, EmitRaises

(* The replay of a proposal that was not overtaken is pending only if no   *)
(* decision of it was written.                                             *)
LEMMA RestartSettles ==
  ASSUME ChatInv, ChatRestart, NEW p \in Proposal, ~Overtaken(p)'
  PROVE  Settled(p)'
<1>1. /\ UNCHANGED <<approvals, emitted>> /\ queue' = [x \in Proposal |-> Projected(approvals, x)]
      /\ approvals \in Seq(Row) /\ \A s \in Request : ~Carries(s, p)'
  BY DEF ChatRestart, ChatInv, ChatTypeOK, Carries
<1>2. ~Overtaken(p) /\ Settled(p)
  BY <1>1 DEF Overtaken, ChatInv
<1>3. ASSUME queue'[p] = "PENDING", NEW j \in DecisionRows(approvals, p) PROVE FALSE
  <2>1. PICK i \in PendingRows(approvals, p) : \A k \in DecisionRows(approvals, p) : k <= i
    BY <1>1, <1>3, ProjectedIs
  <2>2. j <= i /\ ~(j < i)
    BY <1>2, <1>3, <2>1 DEF Overtaken
  <2>3. i \in Nat /\ j \in Nat
    BY <1>1, <1>3 DEF PendingRows, DecisionRows
  <2>4. approvals[i].kind = "PENDING" /\ approvals[j].kind \in Verdict
    BY <1>3, <2>1 DEF PendingRows, DecisionRows
  <2> QED BY <2>2, <2>3, <2>4 DEF Verdict
<1>4. DecisionRows(approvals', p) = DecisionRows(approvals, p) /\ approvals' = approvals
      /\ emitted' = emitted
  BY <1>1
<1> QED BY <1>1, <1>2, <1>3, <1>4 DEF Settled

LEMMA ChatNextInv == ChatInv /\ [ChatNext]_chatVars => ChatInv'
<1> SUFFICES ASSUME ChatInv, [ChatNext]_chatVars PROVE ChatInv'
  OBVIOUS
<1>1. ChatTypeOK' /\ VerdictStands'
  BY ChatNextTypes DEF ChatInv
<1>2. ASSUME NEW p \in Proposal, ~Overtaken(p)' PROVE Settled(p)'
  <2>1. CASE UNCHANGED chatVars
    BY <1>2, <2>1 DEF chatVars, ChatInv, Overtaken, Settled, Carries
  <2>2. CASE ChatRestart
    BY <1>2, <2>2, RestartSettles
  <2>3. CASE \E r \in Request, q \in Proposal :
               Submit(r, q) \/ \E verdict \in Verdict : Decide(r, q, verdict)
    BY <1>2, <2>3, SubmitSettles, DecideSettles
  <2>4. CASE \E r \in Request : \/ LogPending(r) \/ AutoTooLate(r) \/ LogDecision(r)
                                \/ AppendRaises(r) \/ Emit(r) \/ EmitRaises(r)
    BY <1>2, <2>4, LogPendingSettles, LogDecisionSettles, OthersSettle
  <2> QED BY <2>1, <2>2, <2>3, <2>4 DEF ChatNext
<1> QED BY <1>1, <1>2 DEF ChatInv

(* A set without two elements.                                             *)
LEMMA AtMostOne ==
  ASSUME NEW S, \A i, j \in S : i = j
  PROVE  /\ Cardinality(S) = 0 \/ Cardinality(S) = 1
         /\ S # {} => Cardinality(S) = 1
<1>1. CASE S = {}
  BY <1>1, FS_EmptySet
<1>2. CASE S # {}
  <2>1. PICK i : S = {i}
    BY <1>2
  <2>2. Cardinality({i}) = 1
    BY FS_Singleton
  <2> QED BY <2>1, <2>2
<1> QED BY <1>1, <1>2

(* approval_edge.py: a proposal whose decision did not overtake its        *)
(* PENDING row has one decision row at most, and its signal goes out once  *)
(* at most, behind an APPROVED row: through racing operators, appends and  *)
(* emitters that raise, crashes and replays, for any number of threads.    *)
THEOREM ChatDecidesOnce == ChatSpec => []DecisionsAreFinal
<1>1. ChatInv => DecisionsAreFinal
  <2> SUFFICES ASSUME ChatInv, NEW p \in Proposal, ~Overtaken(p)
               PROVE  /\ Cardinality(DecisionRows(approvals, p)) <= 1
                      /\ emitted[p] <= Cardinality({i \in DecisionRows(approvals, p) :
                                                      approvals[i].kind = "APPROVED"})
    BY DEF DecisionsAreFinal
  <2> DEFINE decided == DecisionRows(approvals, p)
             approved == {i \in decided : approvals[i].kind = "APPROVED"}
  <2>1. Settled(p) /\ emitted[p] \in Nat
    BY DEF ChatInv, ChatTypeOK
  <2>2. \A i, j \in decided : i = j
    BY <2>1 DEF Settled
  <2>3. \A i, j \in approved : i = j
    BY <2>2
  <2>4. /\ approved = {} => emitted[p] = 0
        /\ emitted[p] <= 1
    BY <2>1 DEF Settled
  <2> HIDE DEF decided, approved
  <2>5. Cardinality(decided) <= 1
    <3>1. Cardinality(decided) = 0 \/ Cardinality(decided) = 1
      BY <2>2, AtMostOne
    <3> QED BY <3>1
  <2>6. emitted[p] <= Cardinality(approved)
    <3>1. CASE approved = {}
      <4>1. Cardinality(approved) = 0 /\ emitted[p] = 0
        BY <2>4, <3>1, FS_EmptySet
      <4> QED BY <4>1
    <3>2. CASE approved # {}
      <4>1. Cardinality(approved) = 1
        BY <2>3, <3>2, AtMostOne
      <4> QED BY <2>1, <2>4, <4>1
    <3> QED BY <3>1, <3>2
  <2> QED BY <2>5, <2>6 DEF decided, approved
<1> QED BY <1>1, ChatInitInv, ChatNextInv, PTL DEF ChatSpec
(* What a replay makes of a proposal that was not overtaken.               *)
LEMMA ProjectedWhen ==
  ASSUME NEW p \in Proposal, approvals \in Seq(Row), ~Overtaken(p)
  PROVE  /\ PendingRows(approvals, p) = {} => Projected(approvals, p) = "absent"
         /\ PendingRows(approvals, p) # {} /\ DecisionRows(approvals, p) = {} =>
              Projected(approvals, p) = "PENDING"
         /\ PendingRows(approvals, p) # {} /\ DecisionRows(approvals, p) # {} =>
              \E i \in DecisionRows(approvals, p) : Projected(approvals, p) = approvals[i].kind
<1> DEFINE pending == PendingRows(approvals, p)
           decided == DecisionRows(approvals, p)
           later == {j \in decided : pending # {} /\ j > Min(pending)}
<1>1. DOMAIN approvals = 1 .. Len(approvals) /\ Len(approvals) \in Nat
  OBVIOUS
<1>2. pending \subseteq Nat /\ decided \subseteq Nat
  BY <1>1 DEF PendingRows, DecisionRows
<1>3. Projected(approvals, p) = CASE pending = {} -> "absent"
                                  [] pending # {} /\ later = {} -> "PENDING"
                                  [] OTHER -> approvals[Min(later)].kind
  BY DEF Projected
<1>4. CASE pending = {}
  BY <1>3, <1>4
<1>5. CASE pending # {}
  <2>1. Min(pending) \in pending
    BY <1>2, <1>5, LeastExists
  <2>2. \A i \in pending : i \notin decided
    BY DEF PendingRows, DecisionRows, Verdict
  <2>3. \A j \in decided : ~(j < Min(pending))
    BY <2>1 DEF Overtaken
  <2>4. \A j \in decided : j > Min(pending)
    BY <1>2, <2>1, <2>2, <2>3
  <2>5. later = decided
    BY <1>5, <2>4
  <2> HIDE DEF pending, decided, later
  <2>6. CASE decided = {}
    <3>1. Projected(approvals, p) = "PENDING"
      BY <1>3, <1>5, <2>5, <2>6
    <3> QED BY <1>5, <2>6, <3>1 DEF pending, decided
  <2>7. CASE decided # {}
    <3>1. Projected(approvals, p) = approvals[Min(decided)].kind
      BY <1>3, <1>5, <2>5, <2>7
    <3>2. Min(decided) \in decided
      BY <1>2, <2>7, LeastExists
    <3> QED BY <1>5, <2>7, <3>1, <3>2 DEF pending, decided
  <2> QED BY <2>6, <2>7
<1> QED BY <1>4, <1>5

Stands(r, p, place) == serving[r] # NoRequest /\ serving[r].id = p /\ serving[r].at = place

(* Memory and ledger of a proposal that was not overtaken and whose        *)
(* appends did not raise differ by what a thread is about to write.        *)
Mirrored(p) ==
  /\ queue[p] = "absent" => PendingRows(approvals, p) = {}
  /\ \A r \in Request : Stands(r, p, "queued") => queue[p] # "absent"
  /\ queue[p] # "absent" => \/ PendingRows(approvals, p) # {}
                            \/ \E r \in Request : Stands(r, p, "queued")
  /\ queue[p] \in Verdict =>
       \/ \E r \in Request : Stands(r, p, "decided")
       \/ /\ DecisionRows(approvals, p) # {}
          /\ \A i \in DecisionRows(approvals, p) : approvals[i].kind = queue[p]

MirrorInv == \A p \in Proposal : ~Overtaken(p) /\ p \notin unlogged => Mirrored(p)

LEMMA RequestsAreTold ==
  ASSUME NEW p \in Proposal, NEW place \in {"queued", "auto", "decided", "logged"}
  PROVE  [id |-> p, at |-> place] # NoRequest
<1>1. [id |-> p, at |-> place] \in Serving
  BY DEF Serving
<1> QED BY <1>1, ChatAssumption

LEMMA InitMirror == ChatInit => MirrorInv
BY DEF ChatInit, MirrorInv, Mirrored, PendingRows, Verdict, Stands

LEMMA SubmitMirrors ==
  ASSUME ChatInv, MirrorInv, NEW r \in Request, NEW q \in Proposal, Submit(r, q),
         NEW p \in Proposal, ~Overtaken(p)', p \notin unlogged'
  PROVE  Mirrored(p)'
<1>1. /\ UNCHANGED <<approvals, unlogged>> /\ serving[r] = NoRequest
      /\ queue' = [queue EXCEPT ![q] = "PENDING"] /\ queue \in [Proposal -> Status \cup {"absent"}]
      /\ serving' = [serving EXCEPT ![r] = [id |-> q, at |-> "queued"]]
      /\ serving \in [Request -> Serving \cup {NoRequest}]
  BY DEF Submit, Serve, ChatInv, ChatTypeOK
<1>2. Mirrored(p)
  BY <1>1 DEF Overtaken, MirrorInv
<1>3. CASE p = q
  <2>1. Stands(r, p, "queued")' /\ queue'[p] = "PENDING"
    BY <1>1, <1>3, RequestsAreTold DEF Stands
  <2> QED BY <2>1 DEF Mirrored, Verdict
<1>4. CASE p # q
  <2>1. queue'[p] = queue[p] /\ approvals' = approvals
    BY <1>1, <1>4
  <2>2. \A s \in Request : \A place : Stands(s, p, place) <=> Stands(s, p, place)'
    BY <1>1, <1>4 DEF Stands
  <2> QED BY <1>2, <2>1, <2>2 DEF Mirrored
<1> QED BY <1>3, <1>4

LEMMA DecideMirrors ==
  ASSUME ChatInv, MirrorInv, NEW r \in Request, NEW q \in Proposal, NEW verdict \in Verdict,
         Decide(r, q, verdict), NEW p \in Proposal, ~Overtaken(p)', p \notin unlogged'
  PROVE  Mirrored(p)'
<1>1. /\ UNCHANGED <<approvals, unlogged>> /\ queue[q] = "PENDING"
      /\ queue' = [queue EXCEPT ![q] = verdict] /\ queue \in [Proposal -> Status \cup {"absent"}]
      /\ serving' = [serving EXCEPT ![r] = [id |-> q, at |-> "decided"]]
      /\ serving \in [Request -> Serving \cup {NoRequest}]
      /\ serving[r] = NoRequest \/ serving[r].at = "auto"
  BY DEF Decide, MayDecide, At, Serve, ChatInv, ChatTypeOK
<1>2. Mirrored(p)
  BY <1>1 DEF Overtaken, MirrorInv
<1>3. /\ \A s \in Request, place \in {"queued", "decided"} : Stands(s, p, place) => Stands(s, p, place)'
      /\ \A s \in Request : Stands(s, p, "queued")' => Stands(s, p, "queued")
  BY <1>1 DEF Stands
<1>4. CASE p = q
  <2>1. Stands(r, p, "decided")' /\ queue'[p] # "absent" /\ queue[p] # "absent"
    BY <1>1, <1>4, RequestsAreTold DEF Stands, Verdict
  <2> QED BY <1>1, <1>2, <1>3, <2>1 DEF Mirrored
<1>5. CASE p # q
  <2>1. queue'[p] = queue[p] /\ approvals' = approvals
    BY <1>1, <1>5
  <2> QED BY <1>2, <1>3, <2>1 DEF Mirrored
<1> QED BY <1>4, <1>5

LEMMA LogPendingMirrors ==
  ASSUME ChatInv, MirrorInv, NEW r \in Request, LogPending(r),
         NEW p \in Proposal, ~Overtaken(p)', p \notin unlogged'
  PROVE  Mirrored(p)'
<1> DEFINE q == serving[r].id
<1>1. /\ UNCHANGED <<queue, unlogged>> /\ Log("PENDING", q) /\ q \in Proposal
      /\ serving \in [Request -> Serving \cup {NoRequest}]
      /\ Stands(r, q, "queued")
      /\ \/ serving' = [serving EXCEPT ![r] = NoRequest]
         \/ serving' = [serving EXCEPT ![r] = [id |-> q, at |-> "auto"]]
  BY DEF LogPending, Done, Serve, ChatInv, ChatTypeOK, At, Serving, Stands
<1>2. "PENDING" \in Status /\ ChatTypeOK
  BY DEF Status, ChatInv
<1> HIDE DEF q
<1>3. /\ \A i \in DOMAIN approvals : approvals'[i] = approvals[i]
      /\ PendingRows(approvals, p) \subseteq PendingRows(approvals', p)
      /\ DecisionRows(approvals', p) = DecisionRows(approvals, p)
      /\ p = q => PendingRows(approvals', p) # {}
  BY <1>1, <1>2, LogAdds
<1>4. Mirrored(p) /\ Settled(p) /\ ~Overtaken(p)
  BY <1>1, <1>3, OvertakenStays DEF MirrorInv, ChatInv
<1>5. DecisionRows(approvals, p) \subseteq DOMAIN approvals
  BY DEF DecisionRows
<1>6. /\ \A s \in Request : Stands(s, p, "decided") => Stands(s, p, "decided")'
      /\ \A s \in Request : Stands(s, p, "queued")' => Stands(s, p, "queued")
  BY <1>1 DEF Stands
<1>7. CASE p = q
  <2>1. queue[p] # "absent"
    BY <1>1, <1>4, <1>7 DEF Mirrored
  <2> QED BY <1>1, <1>3, <1>4, <1>5, <1>6, <1>7, <2>1 DEF Mirrored
<1>8. CASE p # q
  <2>1. \A s \in Request : Stands(s, p, "queued") => Stands(s, p, "queued")'
    BY <1>1, <1>8 DEF Stands
  <2>2. PendingRows(approvals', p) = PendingRows(approvals, p)
    BY <1>1, <1>2, <1>8, LogAdds
  <2> QED BY <1>1, <1>3, <1>4, <1>5, <1>6, <2>1, <2>2 DEF Mirrored
<1> QED BY <1>7, <1>8

LEMMA LogDecisionMirrors ==
  ASSUME ChatInv, MirrorInv, NEW r \in Request, LogDecision(r),
         NEW p \in Proposal, ~Overtaken(p)', p \notin unlogged'
  PROVE  Mirrored(p)'
<1> DEFINE q == serving[r].id
           n == Len(approvals) + 1
<1>1. /\ UNCHANGED <<queue, unlogged>> /\ Log(queue[q], q) /\ q \in Proposal /\ Carries(r, q)
      /\ serving \in [Request -> Serving \cup {NoRequest}] /\ serving[r].at = "decided"
      /\ \/ serving' = [serving EXCEPT ![r] = NoRequest]
         \/ serving' = [serving EXCEPT ![r] = [id |-> q, at |-> "logged"]]
  BY DEF LogDecision, Done, Serve, ChatInv, ChatTypeOK, At, Serving, Carries
<1> HIDE DEF q
<1>2. queue[q] \in Verdict /\ queue[q] \in Status /\ queue[q] # "PENDING" /\ ChatTypeOK
  BY <1>1 DEF Status, Verdict, ChatInv, VerdictStands
<1>3. /\ \A i \in DOMAIN approvals : approvals'[i] = approvals[i]
      /\ DecisionRows(approvals, p) \subseteq DecisionRows(approvals', p)
      /\ PendingRows(approvals', p) = PendingRows(approvals, p)
      /\ p # q => DecisionRows(approvals', p) = DecisionRows(approvals, p)
      /\ p = q => /\ approvals'[n].kind = queue[q]
                  /\ DecisionRows(approvals', p) = DecisionRows(approvals, p) \cup {n}
  BY <1>1, <1>2, LogAdds
<1> HIDE DEF n
<1>4. Mirrored(p) /\ Settled(p)
  BY <1>1, <1>3, OvertakenStays DEF MirrorInv, ChatInv
<1>5. DecisionRows(approvals, p) \subseteq DOMAIN approvals
  BY DEF DecisionRows
<1>6. \A s \in Request : Stands(s, p, "queued") <=> Stands(s, p, "queued")'
  BY <1>1 DEF Stands
<1>7. CASE p = q
  <2>1. DecisionRows(approvals', p) = {n} /\ approvals'[n].kind = queue[p]
    BY <1>1, <1>3, <1>4, <1>7 DEF Settled
  <2> QED BY <1>1, <1>3, <1>4, <1>6, <2>1 DEF Mirrored
<1>8. CASE p # q
  <2>1. \A s \in Request : Stands(s, p, "decided") => Stands(s, p, "decided")'
    BY <1>1, <1>8 DEF Stands, Carries
  <2> QED BY <1>1, <1>3, <1>4, <1>5, <1>6, <1>8, <2>1 DEF Mirrored
<1> QED BY <1>7, <1>8

LEMMA OthersMirror ==
  ASSUME ChatInv, MirrorInv, NEW r \in Request,
         AutoTooLate(r) \/ AppendRaises(r) \/ EmitRaises(r) \/ Emit(r),
         NEW p \in Proposal, ~Overtaken(p)', p \notin unlogged'
  PROVE  Mirrored(p)'
<1>1. /\ UNCHANGED <<approvals, queue>>
      /\ serving' = [serving EXCEPT ![r] = NoRequest]
      /\ serving \in [Request -> Serving \cup {NoRequest}]
      /\ unlogged \subseteq unlogged'
  BY DEF AutoTooLate, AppendRaises, EmitRaises, Emit, Done, ChatInv, ChatTypeOK
<1>2. Mirrored(p)
  BY <1>1 DEF Overtaken, MirrorInv
<1>3. /\ \A s \in Request, place \in {"queued", "decided"} : Stands(s, p, place) => s # r
      /\ \A s \in Request : Stands(s, p, "queued")' => Stands(s, p, "queued")
  BY <1>1 DEF Stands, AutoTooLate, AppendRaises, EmitRaises, Emit, At
<1>4. \A s \in Request, place \in {"queued", "decided"} : Stands(s, p, place) => Stands(s, p, place)'
  BY <1>1, <1>3 DEF Stands
<1> QED BY <1>1, <1>2, <1>3, <1>4 DEF Mirrored

LEMMA RestartMirrors ==
  ASSUME ChatInv, MirrorInv, ChatRestart, NEW p \in Proposal, ~Overtaken(p)'
  PROVE  Mirrored(p)'
<1>1. /\ UNCHANGED <<approvals, emitted>> /\ queue'[p] = Projected(approvals, p)
      /\ approvals \in Seq(Row) /\ \A s \in Request : \A place : ~Stands(s, p, place)'
  BY DEF ChatRestart, ChatInv, ChatTypeOK, Stands
<1>2. ~Overtaken(p) /\ Settled(p)
  BY <1>1 DEF Overtaken, ChatInv
<1>3. CASE PendingRows(approvals, p) = {}
  <2>1. queue'[p] = "absent"
    BY <1>1, <1>2, <1>3, ProjectedWhen
  <2> QED BY <1>1, <1>3, <2>1 DEF Mirrored, Verdict
<1>4. CASE PendingRows(approvals, p) # {} /\ DecisionRows(approvals, p) = {}
  <2>1. queue'[p] = "PENDING"
    BY <1>1, <1>2, <1>4, ProjectedWhen
  <2> QED BY <1>1, <1>4, <2>1 DEF Mirrored, Verdict
<1>5. CASE PendingRows(approvals, p) # {} /\ DecisionRows(approvals, p) # {}
  <2>1. PICK i \in DecisionRows(approvals, p) : queue'[p] = approvals[i].kind
    BY <1>1, <1>2, <1>5, ProjectedWhen
  <2>2. \A j \in DecisionRows(approvals, p) : approvals[j].kind = queue'[p]
    BY <1>2, <2>1 DEF Settled
  <2>3. queue'[p] \in Verdict /\ queue'[p] # "absent"
    BY <2>1 DEF DecisionRows, Verdict
  <2> QED BY <1>1, <1>5, <2>2, <2>3 DEF Mirrored
<1> QED BY <1>3, <1>4, <1>5

LEMMA NextMirror == ChatInv /\ MirrorInv /\ [ChatNext]_chatVars => MirrorInv'
<1> SUFFICES ASSUME ChatInv, MirrorInv, [ChatNext]_chatVars,
                    NEW p \in Proposal, ~Overtaken(p)', p \notin unlogged'
             PROVE  Mirrored(p)'
  BY DEF MirrorInv
<1>1. CASE UNCHANGED chatVars
  BY <1>1 DEF chatVars, MirrorInv, Overtaken, Mirrored, Stands
<1>2. CASE ChatRestart
  BY <1>2, RestartMirrors
<1>3. CASE \E r \in Request, q \in Proposal :
             Submit(r, q) \/ \E verdict \in Verdict : Decide(r, q, verdict)
  BY <1>3, SubmitMirrors, DecideMirrors
<1>4. CASE \E r \in Request : \/ LogPending(r) \/ AutoTooLate(r) \/ LogDecision(r)
                              \/ AppendRaises(r) \/ Emit(r) \/ EmitRaises(r)
  BY <1>4, LogPendingMirrors, LogDecisionMirrors, OthersMirror
<1> QED BY <1>1, <1>2, <1>3, <1>4 DEF ChatNext

(* approval_projection.py: with nobody at work on a proposal, memory holds *)
(* what a replay of the ledger gives, unless an append of it raised or its *)
(* decision overtook its PENDING row.                                      *)
THEOREM ChatReplays == ChatSpec => []QueueIsProjection
<1>1. ChatInv /\ MirrorInv => QueueIsProjection
  <2> SUFFICES ASSUME ChatInv, MirrorInv, NEW p \in Proposal,
                      p \notin unlogged, ~Overtaken(p),
                      \A r \in Request : ~(/\ serving[r] # NoRequest /\ serving[r].id = p
                                           /\ ~At(r, "logged"))
               PROVE  queue[p] = Projected(approvals, p)
    BY DEF QueueIsProjection
  <2>1. Mirrored(p) /\ Settled(p) /\ approvals \in Seq(Row) /\ queue[p] \in Status \cup {"absent"}
    BY DEF MirrorInv, ChatInv, ChatTypeOK
  <2>2. \A r \in Request, place \in {"queued", "decided"} : ~Stands(r, p, place)
    BY DEF Stands, At
  <2>3. CASE queue[p] = "absent"
    BY <2>1, <2>3, ProjectedWhen DEF Mirrored
  <2>4. CASE queue[p] = "PENDING"
    BY <2>1, <2>2, <2>4, ProjectedWhen DEF Mirrored, Settled
  <2>5. CASE queue[p] \in Verdict
    <3>1. /\ PendingRows(approvals, p) # {} /\ DecisionRows(approvals, p) # {}
          /\ \A i \in DecisionRows(approvals, p) : approvals[i].kind = queue[p]
      BY <2>1, <2>2, <2>5 DEF Mirrored, Verdict
    <3> QED BY <2>1, <3>1, ProjectedWhen
  <2> QED BY <2>1, <2>3, <2>4, <2>5 DEF Status
<1>2. ChatInit => ChatInv /\ MirrorInv
  BY ChatInitInv, InitMirror
<1>3. ChatInv /\ MirrorInv /\ [ChatNext]_chatVars => (ChatInv /\ MirrorInv)'
  BY ChatNextInv, NextMirror
<1> QED BY <1>1, <1>2, <1>3, PTL DEF ChatSpec

\* No verdict on a proposal whose turn has not written its PENDING row yet, as
\* when turn and verdict were under one lock.
TurnLogsFirst ==
  \A s \in Request : At(s, "queued") =>
    \A r \in Request, verdict \in Verdict : ~Decide(r, serving[s].id, verdict)

\* Only the turn is at work on a proposal that it has not logged yet.
TurnsAlone ==
  \A s \in Request : At(s, "queued") =>
    /\ DecisionRows(approvals, serving[s].id) = {}
    /\ \A r \in Request : serving[r] # NoRequest /\ serving[r].id = serving[s].id => r = s

NobodyOvertaken == \A p \in Proposal : ~Overtaken(p)

LEMMA TurnsAloneInit == ChatInit => TurnsAlone /\ NobodyOvertaken
BY DEF ChatInit, TurnsAlone, NobodyOvertaken, At, Overtaken, DecisionRows

(* A thread that goes to a proposal nobody queued leaves the turns alone.  *)
LEMMA TurnsAloneStep ==
  ASSUME ChatTypeOK, TurnsAlone, NEW r \in Request,
         \/ serving' = [serving EXCEPT ![r] = NoRequest]
         \/ \E p \in Proposal, place \in {"auto", "decided", "logged"} :
              /\ serving' = [serving EXCEPT ![r] = [id |-> p, at |-> place]]
              /\ \A s \in Request : s # r /\ At(s, "queued") => serving[s].id # p,
         \A s \in Request : s # r /\ At(s, "queued") =>
           DecisionRows(approvals', serving[s].id) = DecisionRows(approvals, serving[s].id)
  PROVE  TurnsAlone'
<1> SUFFICES ASSUME NEW s \in Request, At(s, "queued")'
             PROVE  /\ DecisionRows(approvals', serving'[s].id) = {}
                    /\ \A q \in Request : serving'[q] # NoRequest /\ serving'[q].id = serving'[s].id => q = s
  BY DEF TurnsAlone
<1>1. s # r /\ serving'[s] = serving[s] /\ At(s, "queued")
  BY ChatAssumption DEF At, ChatTypeOK, ChatAssumption
<1>2. \A q \in Request : q # r => serving'[q] = serving[q]
  BY DEF ChatTypeOK
<1>3. serving'[r] = NoRequest \/ serving'[r].id # serving[s].id
  BY <1>1 DEF ChatTypeOK
<1> QED BY <1>1, <1>2, <1>3 DEF TurnsAlone

LEMMA TurnsAloneNext ==
  ChatTypeOK /\ VerdictStands /\ TurnsAlone /\ NobodyOvertaken /\ [ChatNext /\ TurnLogsFirst]_chatVars
    => (TurnsAlone /\ NobodyOvertaken)'
<1> SUFFICES ASSUME ChatTypeOK, VerdictStands, TurnsAlone, NobodyOvertaken,
                    [ChatNext /\ TurnLogsFirst]_chatVars
             PROVE  TurnsAlone' /\ NobodyOvertaken'
  OBVIOUS
<1>0. \A r \in Request : \A place : At(r, place) => serving[r].id \in Proposal
  BY DEF At, ChatTypeOK, Serving
<1>1. CASE UNCHANGED chatVars
  BY <1>1 DEF chatVars, TurnsAlone, NobodyOvertaken, At, Overtaken, DecisionRows, PendingRows
<1>2. CASE ChatRestart
  BY <1>2 DEF ChatRestart, TurnsAlone, NobodyOvertaken, At, Overtaken, DecisionRows, PendingRows
<1>3. ASSUME NEW r \in Request, NEW p \in Proposal, Submit(r, p) PROVE TurnsAlone' /\ NobodyOvertaken'
  <2>1. /\ serving' = [serving EXCEPT ![r] = [id |-> p, at |-> "queued"]] /\ serving[r] = NoRequest
        /\ approvals' = approvals /\ \A i \in DOMAIN approvals : approvals[i].id # p
        /\ \A s \in Request : serving[s] # NoRequest => serving[s].id # p
        /\ serving \in [Request -> Serving \cup {NoRequest}]
    BY <1>3 DEF Submit, Serve, ChatTypeOK
  <2>2. DecisionRows(approvals, p) = {}
    BY <2>1 DEF DecisionRows
  <2>3. TurnsAlone'
    <3> SUFFICES ASSUME NEW s \in Request, At(s, "queued")'
                 PROVE  /\ DecisionRows(approvals', serving'[s].id) = {}
                        /\ \A q \in Request : serving'[q] # NoRequest /\ serving'[q].id = serving'[s].id => q = s
      BY DEF TurnsAlone
    <3>1. CASE s = r
      BY <2>1, <2>2, <3>1
    <3>2. CASE s # r
      <4>1. serving'[s] = serving[s] /\ At(s, "queued") /\ serving[s].id # p
        BY <2>1, <3>2 DEF At
      <4> QED BY <2>1, <4>1 DEF TurnsAlone
    <3> QED BY <3>1, <3>2
  <2>4. NobodyOvertaken'
    BY <2>1 DEF NobodyOvertaken, Overtaken, DecisionRows, PendingRows
  <2> QED BY <2>3, <2>4
<1>4. ASSUME NEW r \in Request, NEW p \in Proposal, NEW verdict \in Verdict, Decide(r, p, verdict),
             TurnLogsFirst
      PROVE  TurnsAlone' /\ NobodyOvertaken'
  <2>1. /\ serving' = [serving EXCEPT ![r] = [id |-> p, at |-> "decided"]] /\ approvals' = approvals
    BY <1>4 DEF Decide, Serve
  <2>2. \A s \in Request : At(s, "queued") => serving[s].id # p
    BY <1>4 DEF TurnLogsFirst
  <2>3. \A s \in Request : DecisionRows(approvals', serving[s].id) = DecisionRows(approvals, serving[s].id)
    BY <2>1
  <2>4. TurnsAlone'
    BY <2>1, <2>2, <2>3, TurnsAloneStep
  <2>5. NobodyOvertaken'
    BY <2>1 DEF NobodyOvertaken, Overtaken, DecisionRows, PendingRows
  <2> QED BY <2>4, <2>5
<1>5. ASSUME NEW r \in Request, AutoTooLate(r) \/ AppendRaises(r) \/ Emit(r) \/ EmitRaises(r)
      PROVE  TurnsAlone' /\ NobodyOvertaken'
  <2>1. serving' = [serving EXCEPT ![r] = NoRequest] /\ approvals' = approvals
    BY <1>5 DEF AutoTooLate, AppendRaises, Emit, EmitRaises, Done
  <2>2. \A s \in Request : DecisionRows(approvals', serving[s].id) = DecisionRows(approvals, serving[s].id)
    BY <2>1
  <2>3. TurnsAlone'
    BY <2>1, <2>2, TurnsAloneStep
  <2>4. NobodyOvertaken'
    BY <2>1 DEF NobodyOvertaken, Overtaken, DecisionRows, PendingRows
  <2> QED BY <2>3, <2>4
<1>6. ASSUME NEW r \in Request, LogPending(r) PROVE TurnsAlone' /\ NobodyOvertaken'
  <2> DEFINE q == serving[r].id
  <2>1. /\ Log("PENDING", q) /\ At(r, "queued") /\ q \in Proposal /\ "PENDING" \in Status
        /\ \/ serving' = [serving EXCEPT ![r] = NoRequest]
           \/ serving' = [serving EXCEPT ![r] = [id |-> q, at |-> "auto"]]
    BY <1>0, <1>6 DEF LogPending, Serve, Done, Status
  <2>2. DecisionRows(approvals, q) = {} /\ \A s \in Request : s # r /\ At(s, "queued") => serving[s].id # q
    BY <2>1 DEF TurnsAlone, At
  <2>3. \A p \in Proposal : DecisionRows(approvals', p) = DecisionRows(approvals, p)
    BY <2>1, LogAdds
  <2>4. \A p \in Proposal : p # q => PendingRows(approvals', p) = PendingRows(approvals, p)
    BY <2>1, LogAdds
  <2> HIDE DEF q
  <2>5. TurnsAlone'
    BY <1>0, <2>1, <2>2, <2>3, TurnsAloneStep
  <2>6. NobodyOvertaken'
    BY <2>2, <2>3, <2>4 DEF NobodyOvertaken, Overtaken
  <2> QED BY <2>5, <2>6
<1>7. ASSUME NEW r \in Request, LogDecision(r) PROVE TurnsAlone' /\ NobodyOvertaken'
  <2> DEFINE q == serving[r].id
             verdict == queue[q]
  <2>1. /\ Log(verdict, q) /\ At(r, "decided") /\ q \in Proposal
        /\ \/ serving' = [serving EXCEPT ![r] = NoRequest]
           \/ serving' = [serving EXCEPT ![r] = [id |-> q, at |-> "logged"]]
    BY <1>0, <1>7 DEF LogDecision, Serve, Done
  <2>2. verdict \in Verdict /\ verdict \in Status /\ verdict # "PENDING"
    BY <2>1 DEF VerdictStands, Carries, At, Verdict, Status
  <2>3. \A s \in Request : s # r /\ At(s, "queued") => serving[s].id # q
    BY <2>1 DEF TurnsAlone, At
  <2> HIDE DEF q, verdict
  <2>4. \A p \in Proposal :
          /\ PendingRows(approvals', p) = PendingRows(approvals, p)
          /\ p # q => DecisionRows(approvals', p) = DecisionRows(approvals, p)
          /\ p = q => DecisionRows(approvals', p) = DecisionRows(approvals, p) \cup {Len(approvals) + 1}
    BY <2>1, <2>2, LogAdds
  <2>5. TurnsAlone'
    BY <1>0, <2>1, <2>3, <2>4, TurnsAloneStep
  <2>6. \A p \in Proposal : \A j \in PendingRows(approvals, p) : ~ (Len(approvals) + 1 < j)
    BY LenProperties DEF PendingRows, ChatTypeOK
  <2>7. NobodyOvertaken'
    <3> SUFFICES ASSUME NEW p \in Proposal, NEW i \in DecisionRows(approvals', p),
                        NEW j \in PendingRows(approvals', p), i < j
                 PROVE  FALSE
      BY DEF NobodyOvertaken, Overtaken
    <3>1. j \in PendingRows(approvals, p) /\ i \in DecisionRows(approvals, p)
      BY <2>4, <2>6
    <3> QED BY <3>1 DEF NobodyOvertaken, Overtaken
  <2> QED BY <2>5, <2>7
<1> QED BY <1>1, <1>2, <1>3, <1>4, <1>5, <1>6, <1>7 DEF ChatNext

(* approval_projection.py:180, "the approval edge refuses double decides", *)
(* for any number of threads and proposals: a turn that logs its proposal  *)
(* before anybody may decide it is all that the claim needs.               *)
THEOREM LoggedTurnsDecideOnce == ChatSpec /\ [][TurnLogsFirst]_chatVars => []DecidedOnce
<1>1. ChatSpec => []DecisionsAreFinal
  BY ChatDecidesOnce
<1>2. ChatSpec => [](ChatTypeOK /\ VerdictStands)
  BY ChatInitTypes, ChatNextTypes, PTL DEF ChatSpec
<1>3. [ChatNext]_chatVars /\ [TurnLogsFirst]_chatVars => [ChatNext /\ TurnLogsFirst]_chatVars
  OBVIOUS
<1>4. DecisionsAreFinal /\ NobodyOvertaken => DecidedOnce
  BY DEF DecisionsAreFinal, NobodyOvertaken, DecidedOnce
<1> QED BY <1>1, <1>2, <1>3, <1>4, TurnsAloneInit, TurnsAloneNext, PTL DEF ChatSpec

-----------------------------------------------------------------------------
(* The batching ledger writer.                                             *)

Stamped == [seq : Nat, ts : 0 .. MaxStamp]
Batch == Seq(Stamped)

\* The rows of b are numbered on from last.
GoesOn(b, last) == \A i \in 1 .. Len(b) : b[i].seq = last + i

\* No row stands before its predecessor.
Ordered(r) == \A i \in DOMAIN r : r[i] = 0 \/ \E j \in 1 .. i - 1 : r[j] = r[i] - 1

Holds(r, last) == \A n \in 0 .. last : \E i \in DOMAIN r : r[i] = n

AsyncInv == /\ AsyncTypeOK
            /\ reported = lastSeq
            /\ GoesOn(buffer, lastSeq)
            /\ ~cut => Ordered(rows) /\ Holds(rows, lastSeq)
            /\ sealed => buffer = <<>>

LEMMA SeqsIs ==
  ASSUME NEW b \in Batch
  PROVE  /\ Seqs(b) \in Seq(Nat) /\ Len(Seqs(b)) = Len(b)
         /\ \A i \in 1 .. Len(b) : Seqs(b)[i] = b[i].seq
<1>0. DOMAIN b = 1 .. Len(b) /\ Len(b) \in Nat
  BY LenProperties DEF Batch
<1>1. \A i \in 1 .. Len(b) : b[i].seq \in Nat
  <2>1. \A i \in 1 .. Len(b) : b[i] \in Stamped
    BY ElementOfSeq DEF Batch
  <2> QED BY <2>1 DEF Stamped
<1>2. Seqs(b) = [i \in 1 .. Len(b) |-> b[i].seq]
  BY <1>0 DEF Seqs
<1>3. Seqs(b) \in Seq(Nat) /\ Len(Seqs(b)) = Len(b)
  BY <1>0, <1>1, <1>2
<1> QED BY <1>2, <1>3

LEMMA BatchGrows ==
  ASSUME NEW b \in Batch, NEW e \in Stamped
  PROVE  /\ Append(b, e) \in Batch /\ Append(b, e) # <<>> /\ Len(Append(b, e)) = Len(b) + 1
         /\ Append(b, e)[Len(b) + 1] = e
         /\ \A i \in 1 .. Len(b) : Append(b, e)[i] = b[i]
BY AppendProperties DEF Batch

(* A batch behind rows that hold everything before it.                     *)
LEMMA BatchBehind ==
  ASSUME NEW r \in Seq(Nat), NEW b \in Batch, NEW last \in Int, last >= -1, GoesOn(b, last)
  PROVE  /\ r \o Seqs(b) \in Seq(Nat)
         /\ Ordered(r) /\ Holds(r, last) =>
              Ordered(r \o Seqs(b)) /\ Holds(r \o Seqs(b), last + Len(b))
         /\ Holds(r, last) => Holds(r \o Seqs(b), last)
<1> DEFINE u == r \o Seqs(b)
<1>1. /\ u \in Seq(Nat) /\ Len(u) = Len(r) + Len(b) /\ Len(r) \in Nat /\ Len(b) \in Nat
      /\ \A i \in 1 .. Len(r) : u[i] = r[i]
      /\ \A i \in 1 .. Len(b) : u[Len(r) + i] = b[i].seq
  <2>1. Seqs(b) \in Seq(Nat) /\ Len(Seqs(b)) = Len(b)
        /\ \A i \in 1 .. Len(b) : Seqs(b)[i] = b[i].seq
    BY SeqsIs
  <2>2. u \in Seq(Nat) /\ Len(u) = Len(r) + Len(Seqs(b))
        /\ \A i \in 1 .. Len(r) + Len(Seqs(b)) :
             u[i] = IF i <= Len(r) THEN r[i] ELSE Seqs(b)[i - Len(r)]
    BY <2>1, ConcatProperties
  <2>3. Len(r) \in Nat /\ Len(b) \in Nat
    BY LenProperties DEF Batch
  <2> HIDE DEF u
  <2>4. \A i \in 1 .. Len(r) : u[i] = r[i]
    BY <2>1, <2>2, <2>3
  <2>5. ASSUME NEW i \in 1 .. Len(b) PROVE u[Len(r) + i] = b[i].seq
    <3>1. /\ Len(r) + i \in 1 .. Len(r) + Len(Seqs(b)) /\ ~(Len(r) + i <= Len(r))
          /\ (Len(r) + i) - Len(r) = i
      BY <2>1, <2>3
    <3> QED BY <2>1, <2>2, <3>1
  <2> QED BY <2>1, <2>2, <2>3, <2>4, <2>5
<1>2. DOMAIN u = 1 .. Len(u) /\ DOMAIN r = 1 .. Len(r)
  BY <1>1
<1> HIDE DEF u
<1>3. \A k \in 1 .. Len(b) : u[Len(r) + k] = last + k
  BY <1>1 DEF GoesOn
<1>4. Holds(r, last) => Holds(u, last)
  <2> SUFFICES ASSUME Holds(r, last), NEW n \in 0 .. last PROVE \E i \in DOMAIN u : u[i] = n
    BY DEF Holds
  <2>1. PICK i \in DOMAIN r : r[i] = n
    BY DEF Holds
  <2>2. i \in DOMAIN u /\ u[i] = n
    BY <1>1, <1>2, <2>1
  <2> QED BY <2>2
<1>5. ASSUME Ordered(r), Holds(r, last) PROVE Ordered(u)
  <2> SUFFICES ASSUME NEW i \in DOMAIN u
               PROVE  u[i] = 0 \/ \E j \in 1 .. i - 1 : u[j] = u[i] - 1
    BY DEF Ordered
  <2>1. CASE i <= Len(r)
    <3>1. i \in DOMAIN r /\ u[i] = r[i]
      BY <1>1, <1>2, <2>1
    <3>2. CASE r[i] = 0
      BY <3>1, <3>2
    <3>3. CASE \E j \in 1 .. i - 1 : r[j] = r[i] - 1
      <4>1. PICK j \in 1 .. i - 1 : r[j] = r[i] - 1
        BY <3>3
      <4>2. u[j] = r[j]
        BY <1>1, <1>2, <3>1, <4>1
      <4> QED BY <3>1, <4>1, <4>2
    <3> QED BY <1>5, <3>1, <3>2, <3>3 DEF Ordered
  <2>2. CASE i > Len(r)
    <3>1. PICK k \in 1 .. Len(b) : i = Len(r) + k
      <4>1. i - Len(r) \in 1 .. Len(b) /\ i = Len(r) + (i - Len(r))
        BY <1>1, <1>2, <2>2
      <4> QED BY <4>1
    <3>2. u[i] = last + k
      BY <1>3, <3>1
    <3>3. CASE k = 1 /\ last = -1
      BY <3>2, <3>3
    <3>4. CASE k = 1 /\ last # -1
      <4>1. PICK j \in DOMAIN r : r[j] = last
        BY <1>5, <3>4 DEF Holds
      <4>2. j \in 1 .. i - 1 /\ u[j] = u[i] - 1
        BY <1>1, <1>2, <3>1, <3>2, <3>4, <4>1
      <4> QED BY <4>2
    <3>5. CASE k # 1
      <4>1. k - 1 \in 1 .. Len(b)
        BY <1>1, <3>5
      <4>2. u[Len(r) + (k - 1)] = last + (k - 1)
        BY <1>3, <4>1
      <4>3. Len(r) + (k - 1) = i - 1 /\ i - 1 \in 1 .. i - 1
        BY <1>1, <3>1, <4>1
      <4>4. u[i - 1] = u[i] - 1
        BY <3>2, <4>2, <4>3
      <4> QED BY <4>3, <4>4
    <3> QED BY <3>3, <3>4, <3>5
  <2> QED BY <1>1, <1>2, <2>1, <2>2
<1>6. ASSUME Holds(r, last) PROVE Holds(u, last + Len(b))
  <2> SUFFICES ASSUME NEW n \in 0 .. last + Len(b) PROVE \E i \in DOMAIN u : u[i] = n
    BY DEF Holds
  <2>1. CASE n <= last
    BY <1>4, <1>6, <2>1 DEF Holds
  <2>2. CASE n > last
    <3>1. n - last \in 1 .. Len(b) /\ n = last + (n - last)
      BY <1>1, <2>2
    <3>2. u[Len(r) + (n - last)] = n
      BY <1>3, <3>1
    <3>3. Len(r) + (n - last) \in DOMAIN u
      BY <1>1, <1>2, <3>1
    <3> QED BY <3>2, <3>3
  <2> QED BY <2>1, <2>2
<1> QED BY <1>1, <1>4, <1>5, <1>6 DEF u

LEMMA AsyncInitInv == AsyncInit => AsyncInv
<1> SUFFICES ASSUME AsyncInit PROVE AsyncInv
  OBVIOUS
<1>1. AsyncTypeOK
  <2>1. rows \in Seq(Nat) /\ buffer \in Seq([seq : Nat, ts : 0 .. MaxStamp])
    BY EmptySeq DEF AsyncInit
  <2>2. oldest \in -1 .. MaxStamp /\ lastSeq \in Int /\ lastSeq >= -1
        /\ reported \in Int /\ reported >= -1
    BY AsyncAssumption DEF AsyncInit
  <2>3. sealed \in BOOLEAN /\ cut \in BOOLEAN
    BY DEF AsyncInit
  <2> QED BY <2>1, <2>2, <2>3 DEF AsyncTypeOK
<1>2. GoesOn(buffer, lastSeq)
  BY DEF AsyncInit, GoesOn
<1>3. Ordered(rows) /\ Holds(rows, lastSeq)
  BY DEF AsyncInit, Ordered, Holds
<1> QED BY <1>1, <1>2, <1>3 DEF AsyncInit, AsyncInv

(* Whatever a flush comes to, on the buffer or on one row more.            *)
LEMMA FlushKeeps ==
  ASSUME AsyncInv, NEW b \in Batch, b # <<>>, GoesOn(b, lastSeq), NEW since \in -1 .. MaxStamp,
         Written(b) \/ Short(b) \/ Raising(b, since),
         sealed' \in BOOLEAN, sealed' => ~Raising(b, since)
  PROVE  AsyncInv'
<1>1. /\ rows \in Seq(Nat) /\ lastSeq \in Int /\ lastSeq >= -1 /\ cut \in BOOLEAN
      /\ reported = lastSeq /\ Len(b) \in Nat \ {0} /\ b[Len(b)].seq = lastSeq + Len(b)
  <2>1. Len(b) \in Nat \ {0}
    BY DEF Batch
  <2> QED BY <2>1 DEF AsyncInv, AsyncTypeOK, GoesOn
<1>2. /\ rows \o Seqs(b) \in Seq(Nat)
      /\ ~cut => /\ Ordered(rows \o Seqs(b)) /\ Holds(rows \o Seqs(b), lastSeq + Len(b))
                 /\ Holds(rows \o Seqs(b), lastSeq)
  BY <1>1, BatchBehind DEF AsyncInv
<1>3. CASE Written(b)
  <2>1. /\ rows' = rows \o Seqs(b) /\ buffer' = <<>> /\ oldest' = -1 /\ cut' = cut
        /\ lastSeq' = lastSeq + Len(b) /\ reported' = lastSeq + Len(b)
    BY <1>1, <1>3 DEF Written, Returns
  <2> QED BY <1>1, <1>2, <2>1, AsyncAssumption DEF AsyncInv, AsyncTypeOK, GoesOn
<1>4. CASE Short(b)
  <2>1. PICK n \in 0 .. Len(b) - 1 : rows' = rows \o Seqs(SubSeq(b, 1, n))
    BY <1>4 DEF Short
  <2>2. SubSeq(b, 1, n) \in Batch
    <3>1. \A i \in 1 .. n : b[i] \in Stamped
      BY <1>1, <2>1, ElementOfSeq DEF Batch
    <3> QED BY <2>1, <3>1, SubSeqProperties DEF Batch
  <2>3. rows' \in Seq(Nat)
    BY <1>1, <2>1, <2>2, SeqsIs, ConcatProperties
  <2>4. /\ buffer' = <<>> /\ oldest' = -1 /\ cut' = TRUE
        /\ lastSeq' = lastSeq + Len(b) /\ reported' = lastSeq + Len(b)
    BY <1>1, <1>4 DEF Short, Returns
  <2> QED BY <1>1, <2>3, <2>4, AsyncAssumption DEF AsyncInv, AsyncTypeOK, GoesOn
<1>5. CASE Raising(b, since)
  <2>1. /\ rows' = rows \/ rows' = rows \o Seqs(b)
        /\ buffer' = b /\ oldest' = since /\ UNCHANGED <<lastSeq, reported, cut>>
    BY <1>5 DEF Raising
  <2> QED BY <1>1, <1>2, <1>5, <2>1 DEF AsyncInv, AsyncTypeOK, Batch, Stamped
<1> QED BY <1>3, <1>4, <1>5

LEMMA NextSeqIs == ASSUME AsyncInv PROVE NextSeq = lastSeq + Len(buffer) + 1
<1>1. buffer \in Batch /\ lastSeq \in Int
  BY LenProperties DEF AsyncInv, AsyncTypeOK, Batch, Stamped
<1>2. CASE buffer = <<>>
  BY <1>1, <1>2 DEF NextSeq
<1>3. CASE buffer # <<>>
  <2>1. Len(buffer) \in 1 .. Len(buffer)
    BY <1>1, <1>3 DEF Batch
  <2> QED BY <1>1, <1>3, <2>1 DEF NextSeq, AsyncInv, GoesOn
<1> QED BY <1>2, <1>3

LEMMA AsyncNextInv == AsyncInv /\ [AsyncNext]_asyncVars => AsyncInv'
<1> SUFFICES ASSUME AsyncInv, [AsyncNext]_asyncVars PROVE AsyncInv'
  OBVIOUS
<1>0. /\ buffer \in Batch /\ lastSeq \in Int /\ lastSeq >= -1 /\ GoesOn(buffer, lastSeq)
      /\ sealed \in BOOLEAN /\ Len(buffer) \in Nat
  BY LenProperties DEF AsyncInv, AsyncTypeOK, Batch, Stamped
<1>1. CASE UNCHANGED asyncVars
  BY <1>1 DEF asyncVars, AsyncInv, AsyncTypeOK, GoesOn
<1>2. CASE AppendRow
  <2> DEFINE row(ts) == [seq |-> NextSeq, ts |-> ts]
             since(ts) == IF buffer = <<>> THEN ts ELSE oldest
             grown(ts) == Append(buffer, row(ts))
  <2>1. PICK ts \in 0 .. MaxStamp :
          /\ ts >= since(ts)
          /\ \/ FlushLocked(grown(ts), since(ts))
             \/ /\ buffer' = grown(ts) /\ oldest' = since(ts)
                /\ UNCHANGED <<rows, lastSeq, reported, cut>>
    BY <1>2 DEF AppendRow
  <2>2. NextSeq \in Nat /\ NextSeq = lastSeq + Len(buffer) + 1
    BY <1>0, NextSeqIs
  <2>3. row(ts) \in [seq : Nat, ts : 0 .. MaxStamp] /\ row(ts).seq = NextSeq
    BY <2>2
  <2>4. ~sealed /\ sealed' = sealed
    BY <1>2 DEF AppendRow
  <2> HIDE DEF row
  <2>5. /\ grown(ts) \in Batch /\ grown(ts) # <<>> /\ Len(grown(ts)) = Len(buffer) + 1
        /\ grown(ts)[Len(buffer) + 1] = row(ts)
        /\ \A i \in 1 .. Len(buffer) : grown(ts)[i] = buffer[i]
    BY <1>0, <2>3, BatchGrows DEF Stamped
  <2>6. GoesOn(grown(ts), lastSeq)
    BY <1>0, <2>2, <2>3, <2>5 DEF GoesOn
  <2> DEFINE b == grown(ts)
             old == since(ts)
  <2>7. old \in -1 .. MaxStamp
    BY AsyncAssumption DEF AsyncInv, AsyncTypeOK
  <2> HIDE DEF grown, since
  <2>8. CASE FlushLocked(b, old)
    <3>1. /\ b \in Batch /\ b # <<>> /\ GoesOn(b, lastSeq) /\ sealed' \in BOOLEAN /\ ~sealed'
          /\ Written(b) \/ Short(b) \/ Raising(b, old)
      BY <1>0, <2>4, <2>5, <2>6, <2>8 DEF FlushLocked
    <3> HIDE DEF b, old
    <3> QED BY <2>7, <3>1, FlushKeeps
  <2>9. CASE /\ buffer' = b /\ oldest' = old
             /\ UNCHANGED <<rows, lastSeq, reported, cut>>
    BY <2>4, <2>5, <2>6, <2>7, <2>9 DEF AsyncInv, AsyncTypeOK, Batch, Stamped
  <2> QED BY <2>1, <2>8, <2>9
<1>3. CASE Flush
  <2>1. /\ buffer # <<>> /\ ~sealed /\ sealed' = sealed /\ oldest \in -1 .. MaxStamp
        /\ Written(buffer) \/ Short(buffer) \/ Raising(buffer, oldest)
    BY <1>3 DEF Flush, FlushLocked, AsyncInv, AsyncTypeOK
  <2> QED BY <1>0, <2>1, FlushKeeps
<1>4. CASE CloseWriter
  <2>1. CASE sealed' = TRUE /\ buffer # <<>> /\ (Written(buffer) \/ Short(buffer))
    <3>1. oldest \in -1 .. MaxStamp /\ ~Raising(buffer, oldest)
      BY <2>1 DEF AsyncInv, AsyncTypeOK, Written, Short, Returns, Raising
    <3> QED BY <1>0, <2>1, <3>1, FlushKeeps
  <2>2. CASE /\ sealed' = TRUE /\ buffer = <<>>
             /\ UNCHANGED <<rows, buffer, oldest, lastSeq, reported, cut>>
    BY <2>2 DEF AsyncInv, AsyncTypeOK, GoesOn
  <2>3. CASE sealed' = FALSE /\ buffer # <<>> /\ Raising(buffer, oldest)
    <3>1. oldest \in -1 .. MaxStamp
      BY DEF AsyncInv, AsyncTypeOK
    <3> QED BY <1>0, <2>3, <3>1, FlushKeeps
  <2> QED BY <1>4, <2>1, <2>2, <2>3 DEF CloseWriter
<1> QED BY <1>1, <1>2, <1>3, <1>4 DEF AsyncNext

(* async_writer.py: whatever raises and wherever, as long as no write was  *)
(* short, no row is in the file before its predecessor, what was reported  *)
(* is there, and the rest waits in the buffer, which close leaves empty.   *)
THEOREM RowsInOrder == AsyncSpec => []RowsReachTheFile
<1>1. AsyncInv => RowsReachTheFile
  <2> SUFFICES ASSUME AsyncInv, ~cut
               PROVE  LET inFile == {rows[i] : i \in DOMAIN rows}
                          waiting == {buffer[i].seq : i \in DOMAIN buffer}
                      IN /\ Ordered(rows)
                         /\ 0 .. reported \subseteq inFile
                         /\ 0 .. NextSeq - 1 = (0 .. reported) \cup waiting
                         /\ sealed => waiting = {}
    BY DEF RowsReachTheFile, Ordered
  <2> DEFINE inFile == {rows[i] : i \in DOMAIN rows}
             waiting == {buffer[i].seq : i \in DOMAIN buffer}
  <2>1. /\ DOMAIN buffer = 1 .. Len(buffer) /\ Len(buffer) \in Nat
        /\ lastSeq \in Int /\ lastSeq >= -1 /\ reported = lastSeq
        /\ \A i \in 1 .. Len(buffer) : buffer[i].seq = lastSeq + i
    BY DEF AsyncInv, AsyncTypeOK, GoesOn
  <2>2. 0 .. reported \subseteq inFile
    BY <2>1 DEF AsyncInv, Holds
  <2>3. waiting = lastSeq + 1 .. lastSeq + Len(buffer)
    <3>1. waiting \subseteq lastSeq + 1 .. lastSeq + Len(buffer)
      BY <2>1
    <3>2. ASSUME NEW n \in lastSeq + 1 .. lastSeq + Len(buffer) PROVE n \in waiting
      <4>1. n - lastSeq \in DOMAIN buffer /\ n = lastSeq + (n - lastSeq)
        BY <2>1
      <4>2. buffer[n - lastSeq].seq = n
        BY <2>1, <4>1
      <4> QED BY <4>1, <4>2
    <3> QED BY <3>1, <3>2
  <2>4. 0 .. NextSeq - 1 = (0 .. reported) \cup waiting
    <3> HIDE DEF waiting
    <3> QED BY <2>1, <2>3, NextSeqIs
  <2>5. sealed => waiting = {}
    BY DEF AsyncInv
  <2> QED BY <2>2, <2>4, <2>5 DEF AsyncInv
<1> QED BY <1>1, AsyncInitInv, AsyncNextInv, PTL DEF AsyncSpec

\* What was written was reported: no fsync raises behind a write.
WritesReturn == rows' # rows => reported' # reported

RowsAreExact == ~cut => Len(rows) = reported + 1 /\ \A i \in DOMAIN rows : rows[i] = i - 1

LEMMA BatchExact ==
  ASSUME AsyncInv, RowsAreExact, ~cut, NEW b \in Batch, GoesOn(b, lastSeq)
  PROVE  LET r == rows \o Seqs(b)
         IN  Len(r) = lastSeq + Len(b) + 1 /\ \A i \in DOMAIN r : r[i] = i - 1
<1> DEFINE r == rows \o Seqs(b)
<1>1. /\ rows \in Seq(Nat) /\ lastSeq \in Int /\ reported = lastSeq /\ Len(rows) = lastSeq + 1
      /\ Len(rows) \in Nat /\ Len(b) \in Nat /\ DOMAIN rows = 1 .. Len(rows)
      /\ \A i \in 1 .. Len(rows) : rows[i] = i - 1
  BY LenProperties DEF AsyncInv, AsyncTypeOK, RowsAreExact, Batch
<1>2. Seqs(b) \in Seq(Nat) /\ Len(Seqs(b)) = Len(b) /\ \A i \in 1 .. Len(b) : Seqs(b)[i] = b[i].seq
  BY SeqsIs
<1>3. /\ r \in Seq(Nat) /\ Len(r) = Len(rows) + Len(b)
      /\ \A i \in 1 .. Len(rows) + Len(b) :
           r[i] = IF i <= Len(rows) THEN rows[i] ELSE Seqs(b)[i - Len(rows)]
  <2>1. /\ r \in Seq(Nat) /\ Len(r) = Len(rows) + Len(Seqs(b))
        /\ \A i \in 1 .. Len(rows) + Len(Seqs(b)) :
             r[i] = IF i <= Len(rows) THEN rows[i] ELSE Seqs(b)[i - Len(rows)]
    <3>1. rows \in Seq(Nat) /\ Seqs(b) \in Seq(Nat)
      BY <1>1, <1>2
    <3> QED BY <3>1, ConcatProperties
  <2> HIDE DEF r
  <2> QED BY <1>2, <2>1
<1> HIDE DEF r
<1>4. ASSUME NEW i \in 1 .. Len(rows) + Len(b) PROVE r[i] = i - 1
  <2>1. CASE i <= Len(rows)
    BY <1>1, <1>3, <2>1
  <2>2. CASE ~ (i <= Len(rows))
    <3>1. i - Len(rows) \in 1 .. Len(b)
      BY <1>1, <2>2
    <3>2. b[i - Len(rows)].seq = lastSeq + (i - Len(rows))
      BY <3>1 DEF GoesOn
    <3>3. r[i] = Seqs(b)[i - Len(rows)] /\ Seqs(b)[i - Len(rows)] = b[i - Len(rows)].seq
      BY <1>2, <1>3, <2>2, <3>1
    <3>4. i \in Int /\ lastSeq + (i - Len(rows)) = i - 1
      BY <1>1
    <3> QED BY <3>2, <3>3, <3>4
  <2> QED BY <2>1, <2>2
<1>5. DOMAIN r = 1 .. Len(r)
  BY <1>3, LenProperties
<1> QED BY <1>1, <1>3, <1>4, <1>5 DEF r

LEMMA FlushExact ==
  ASSUME AsyncInv, RowsAreExact, NEW b \in Batch, b # <<>>, GoesOn(b, lastSeq), NEW since,
         Written(b) \/ Short(b) \/ Raising(b, since), WritesReturn
  PROVE  RowsAreExact'
<1>1. Len(b) \in Nat \ {0} /\ reported = lastSeq /\ b[Len(b)].seq = lastSeq + Len(b)
  <2>1. Len(b) \in Nat \ {0}
    BY DEF Batch
  <2> QED BY <2>1 DEF AsyncInv, GoesOn
<1>2. CASE Written(b)
  <2> SUFFICES ASSUME ~cut PROVE RowsAreExact'
    BY <1>2 DEF Written, RowsAreExact
  <2>1. rows' = rows \o Seqs(b) /\ reported' = lastSeq + Len(b)
    BY <1>1, <1>2 DEF Written, Returns
  <2> QED BY <2>1, BatchExact DEF RowsAreExact
<1>3. CASE Short(b)
  BY <1>3 DEF Short, RowsAreExact
<1>4. CASE Raising(b, since)
  <2>1. rows' = rows /\ reported' = reported /\ cut' = cut
    BY <1>4 DEF Raising, WritesReturn
  <2> QED BY <2>1 DEF RowsAreExact
<1> QED BY <1>2, <1>3, <1>4

LEMMA AsyncNextExact ==
  AsyncInv /\ RowsAreExact /\ [AsyncNext /\ WritesReturn]_asyncVars => RowsAreExact'
<1> SUFFICES ASSUME AsyncInv, RowsAreExact, [AsyncNext /\ WritesReturn]_asyncVars PROVE RowsAreExact'
  OBVIOUS
<1>0. /\ buffer \in Batch /\ lastSeq \in Int /\ lastSeq >= -1 /\ GoesOn(buffer, lastSeq) /\ Len(buffer) \in Nat
  BY LenProperties DEF AsyncInv, AsyncTypeOK, Batch, Stamped
<1>1. CASE UNCHANGED <<rows, reported, cut>>
  BY <1>1 DEF RowsAreExact
<1>2. CASE AppendRow /\ WritesReturn
  <2> DEFINE row(ts) == [seq |-> NextSeq, ts |-> ts]
             since(ts) == IF buffer = <<>> THEN ts ELSE oldest
             grown(ts) == Append(buffer, row(ts))
  <2>1. PICK ts \in 0 .. MaxStamp :
          FlushLocked(grown(ts), since(ts)) \/ UNCHANGED <<rows, reported, cut>>
    BY <1>2 DEF AppendRow
  <2>2. NextSeq \in Nat /\ NextSeq = lastSeq + Len(buffer) + 1
    BY <1>0, NextSeqIs
  <2>3. row(ts) \in Stamped /\ row(ts).seq = NextSeq
    BY <2>2 DEF Stamped
  <2> HIDE DEF row
  <2>4. /\ grown(ts) \in Batch /\ grown(ts) # <<>> /\ Len(grown(ts)) = Len(buffer) + 1
        /\ grown(ts)[Len(buffer) + 1] = row(ts)
        /\ \A i \in 1 .. Len(buffer) : grown(ts)[i] = buffer[i]
    BY <1>0, <2>3, BatchGrows
  <2>5. GoesOn(grown(ts), lastSeq)
    BY <1>0, <2>2, <2>3, <2>4 DEF GoesOn
  <2> HIDE DEF grown, since
  <2>6. CASE FlushLocked(grown(ts), since(ts))
    <3> DEFINE b == grown(ts)
               old == since(ts)
    <3>1. b \in Batch /\ b # <<>> /\ GoesOn(b, lastSeq) /\ (Written(b) \/ Short(b) \/ Raising(b, old))
      BY <2>4, <2>5, <2>6 DEF FlushLocked
    <3> HIDE DEF b, old
    <3> QED BY <1>2, <3>1, FlushExact
  <2> QED BY <1>1, <2>1, <2>6
<1>3. CASE (Flush \/ CloseWriter) /\ WritesReturn
  <2>1. CASE buffer # <<>> /\ (Written(buffer) \/ Short(buffer) \/ Raising(buffer, oldest))
    BY <1>0, <1>3, <2>1, FlushExact
  <2> QED BY <1>1, <1>3, <2>1 DEF Flush, FlushLocked, CloseWriter
<1> QED BY <1>1, <1>2, <1>3 DEF AsyncNext, asyncVars

(* async_writer.py, "gap-free sequence id", for any batch size, interval   *)
(* and stamps: until a write is short, and if no fsync raises behind a     *)
(* write, the file has each row that was reported once, in order.  A row   *)
(* is there twice only because of an fsync that raised.                    *)
THEOREM RowsOnce == AsyncSpec /\ [][WritesReturn]_asyncVars => []RowsAreExact
<1>1. AsyncInit => RowsAreExact
  BY DEF AsyncInit, RowsAreExact
<1>2. [AsyncNext]_asyncVars /\ [WritesReturn]_asyncVars => [AsyncNext /\ WritesReturn]_asyncVars
  OBVIOUS
<1> QED BY <1>1, <1>2, AsyncInitInv, AsyncNextInv, AsyncNextExact, PTL DEF AsyncSpec

-----------------------------------------------------------------------------
(* A durable consumer of a stream.                                         *)

Message == [seq : Nat, publish : Nat, wanted : BOOLEAN]

Whole ==
  /\ stream \in Seq(Message) /\ published = Len(stream)
  /\ delivered \in Nat /\ ackFloor \in Nat
  /\ \A i \in 1 .. Len(stream) : stream[i].seq = i /\ stream[i].publish = i
  /\ \A s \in unanswered : s \in 1 .. Len(stream) /\ stream[s].wanted
  /\ ackFloor <= delivered /\ delivered <= Len(stream)
  /\ \A i \in 1 .. Len(stream) : stream[i].wanted =>
       /\ i <= delivered => i \in answered \cup unanswered
       /\ i <= ackFloor => i \in answered /\ i \notin unanswered

JetInv == keeps = "none" => Whole

LEMMA JetInitInv == JetInit => JetInv
BY EmptySeq DEF JetInit, JetInv, Whole

LEMMA PublishKeepsWhole == ASSUME Whole, keeps = "none", PublishRecord PROVE Whole'
<1>1. PICK wanted \in BOOLEAN :
        stream' \in Retained(Append(stream, [seq |-> Len(stream) + 1,
                                             publish |-> published', wanted |-> wanted]))
  BY DEF PublishRecord
<1> DEFINE e == [seq |-> Len(stream) + 1, publish |-> published', wanted |-> wanted]
<1>2. /\ stream \in Seq(Message) /\ Len(stream) \in Nat /\ published' = Len(stream) + 1
      /\ UNCHANGED <<keeps, delivered, ackFloor, unanswered, answered>>
      /\ delivered \in Nat /\ ackFloor \in Nat
  BY LenProperties DEF Whole, PublishRecord
<1>3. stream' = Append(stream, e)
  BY <1>1 DEF Retained
<1>4. e \in Message /\ e.seq = Len(stream) + 1 /\ e.publish = Len(stream) + 1
  BY <1>2 DEF Message
<1> HIDE DEF e
<1>5. /\ stream' \in Seq(Message) /\ Len(stream') = Len(stream) + 1
      /\ stream'[Len(stream) + 1] = e
      /\ \A i \in 1 .. Len(stream) : stream'[i] = stream[i]
  BY <1>2, <1>3, <1>4, AppendProperties
<1> QED BY <1>2, <1>4, <1>5 DEF Whole

LEMMA FetchKeepsWhole == ASSUME Whole, NEW n \in 1 .. MaxPublishes, Fetch(n) PROVE Whole'
<1> DEFINE some == {i \in Ahead : Cardinality({j \in Ahead : j < i}) < n}
           seqs == {stream[i].seq : i \in some}
<1>1. /\ unanswered' = unanswered \cup seqs
      /\ delivered' \in seqs /\ \A s \in seqs : s <= delivered'
      /\ UNCHANGED <<keeps, stream, published, ackFloor, answered>>
  BY DEF Fetch
<1>2. /\ DOMAIN stream = 1 .. Len(stream) /\ Len(stream) \in Nat
      /\ \A i \in 1 .. Len(stream) : stream[i].seq = i
      /\ delivered \in Nat /\ ackFloor \in Nat /\ ackFloor <= delivered
  BY LenProperties DEF Whole
<1>3. \A i : i \in Ahead <=> i \in 1 .. Len(stream) /\ stream[i].wanted /\ i > delivered
  BY <1>2 DEF Ahead
<1>4. seqs = some
  <2>1. \A i \in some : stream[i].seq = i
    BY <1>2, <1>3
  <2> HIDE DEF some
  <2> QED BY <2>1
<1>5. delivered' \in Ahead /\ Cardinality({j \in Ahead : j < delivered'}) < n
  BY <1>1, <1>4
<1>6. ASSUME NEW w \in Ahead, w <= delivered'
      PROVE  w \in some
  <2> DEFINE before(i) == {j \in Ahead : j < i}
  <2>1. IsFiniteSet(1 .. Len(stream)) /\ before(delivered') \subseteq 1 .. Len(stream)
    BY <1>2, <1>3, FS_Interval
  <2>2. IsFiniteSet(before(delivered'))
    BY <2>1, FS_Subset
  <2>3. before(w) \subseteq before(delivered')
    BY <1>2, <1>3, <1>5, <1>6
  <2>4. /\ Cardinality(before(w)) <= Cardinality(before(delivered'))
        /\ Cardinality(before(w)) \in Nat /\ Cardinality(before(delivered')) \in Nat
    <3> HIDE DEF before
    <3>1. IsFiniteSet(before(w)) /\ Cardinality(before(w)) <= Cardinality(before(delivered'))
      BY <2>2, <2>3, FS_Subset
    <3> QED BY <2>2, <3>1, FS_CardinalityType
  <2>5. Cardinality(before(delivered')) < n
    BY <1>5
  <2>6. Cardinality(before(w)) < n
    <3> HIDE DEF before
    <3> QED BY <2>4, <2>5
  <2> QED BY <2>6
<1> HIDE DEF some, seqs
<1>7. \A w \in 1 .. Len(stream) : stream[w].wanted /\ w <= delivered' =>
        w <= delivered \/ w \in unanswered'
  BY <1>1, <1>2, <1>3, <1>4, <1>6
<1>8. \A s \in seqs : s \in Ahead
  BY <1>4 DEF some
<1>9. delivered' \in Nat /\ delivered' > delivered /\ delivered' <= Len(stream)
  BY <1>2, <1>3, <1>5
<1>10. ASSUME NEW w \in 1 .. Len(stream), stream[w].wanted
       PROVE  /\ w <= delivered' => w \in answered \cup unanswered'
              /\ w <= ackFloor => w \in answered /\ w \notin unanswered'
  <2>1. w <= delivered' => w \in answered \cup unanswered'
    BY <1>1, <1>7, <1>10 DEF Whole
  <2>2. w <= ackFloor => w \notin seqs
    BY <1>2, <1>3, <1>8
  <2> QED BY <1>1, <1>10, <2>1, <2>2 DEF Whole
<1>11. \A s \in unanswered' : s \in 1 .. Len(stream) /\ stream[s].wanted
  BY <1>1, <1>3, <1>8 DEF Whole
<1> QED BY <1>1, <1>2, <1>9, <1>10, <1>11 DEF Whole

\* What Raised looks for: the last number before one that is still pending.
Reach(f, from, still, upTo) ==
  /\ f \in from .. upTo + 1
  /\ (from + 1) .. f \cap still = {}
  /\ f <= upTo \/ f = from
  /\ f + 1 \in still \/ f >= upTo

LEMMA RaisedExists ==
  ASSUME NEW from \in Nat, NEW upTo \in Nat, from <= upTo, NEW still
  PROVE  Reach(Raised(from, still, upTo), from, still, upTo)
<1> DEFINE stops == {f \in from .. upTo : f + 1 \in still \/ f = upTo}
<1>1. stops \subseteq Nat /\ upTo \in stops
  OBVIOUS
<1>2. Min(stops) \in stops /\ \A f \in stops : Min(stops) <= f
  <2> HIDE DEF stops
  <2> QED BY <1>1, LeastExists
<1> DEFINE m == Min(stops)
<1>3. m \in from .. upTo /\ (m + 1 \in still \/ m = upTo)
  BY <1>2
<1>4. ASSUME NEW k \in (from + 1) .. m PROVE k \notin still
  <2>1. k - 1 \in from .. upTo /\ k - 1 < m /\ (k - 1) + 1 = k
    BY <1>3
  <2>2. k - 1 \notin stops
    BY <1>2, <2>1
  <2> QED BY <2>1, <2>2
<1> HIDE DEF m
<1>5. Reach(m, from, still, upTo)
  BY <1>3, <1>4 DEF Reach
<1>6. Raised(from, still, upTo) = CHOOSE f \in from .. upTo + 1 :
        (from + 1) .. f \cap still = {} /\ (f <= upTo \/ f = from) /\ (f + 1 \in still \/ f >= upTo)
  BY DEF Raised
<1> QED BY <1>5, <1>6 DEF Reach

LEMMA AnswerKeepsWhole ==
  ASSUME Whole, NEW s \in unanswered, Answer(s) PROVE Whole'
<1>1. /\ unanswered' = unanswered \ {s} /\ answered' = answered \cup {s}
      /\ ackFloor' = Raised(ackFloor, unanswered', delivered)
      /\ UNCHANGED <<keeps, stream, published, delivered>>
  BY DEF Answer
<1>2. /\ delivered \in Nat /\ ackFloor \in Nat /\ ackFloor <= delivered /\ Len(stream) \in Nat
  BY LenProperties DEF Whole
<1>3. Reach(ackFloor', ackFloor, unanswered', delivered)
  BY <1>1, <1>2, RaisedExists
<1>4. ackFloor' \in Nat /\ ackFloor' <= delivered /\ ackFloor <= ackFloor'
  BY <1>2, <1>3 DEF Reach
<1>5. \A w \in (ackFloor + 1) .. ackFloor' : w \notin unanswered'
  BY <1>3 DEF Reach
<1>6. ASSUME NEW w \in 1 .. Len(stream), stream[w].wanted, w <= ackFloor'
      PROVE  w \in answered' /\ w \notin unanswered'
  <2>1. CASE w <= ackFloor
    BY <1>1, <1>6, <2>1 DEF Whole
  <2>2. CASE w > ackFloor
    <3>1. w \in (ackFloor + 1) .. ackFloor' /\ w <= delivered
      BY <1>2, <1>4, <1>6, <2>2
    <3>2. w \notin unanswered' /\ w \in answered \cup unanswered
      BY <1>5, <1>6, <3>1 DEF Whole
    <3> QED BY <1>1, <3>2
  <2> QED BY <1>2, <2>1, <2>2
<1>7. \A w \in 1 .. Len(stream) : stream[w].wanted /\ w <= delivered =>
        w \in answered' \cup unanswered'
  BY <1>1 DEF Whole
<1> QED BY <1>1, <1>2, <1>4, <1>6, <1>7 DEF Whole

LEMMA NakKeepsWhole ==
  ASSUME Whole, NEW s \in unanswered, Nak(s) PROVE Whole'
<1>1. /\ delivered' = IF s - 1 < delivered THEN s - 1 ELSE delivered
      /\ UNCHANGED <<keeps, stream, published, ackFloor, unanswered, answered>>
  BY DEF Nak
<1>2. /\ delivered \in Nat /\ ackFloor \in Nat /\ ackFloor <= delivered /\ Len(stream) \in Nat
      /\ s \in 1 .. Len(stream) /\ s > ackFloor /\ delivered <= Len(stream)
  BY LenProperties DEF Whole
<1>3. delivered' \in Nat /\ delivered' <= delivered /\ ackFloor <= delivered'
  BY <1>1, <1>2
<1> QED BY <1>1, <1>2, <1>3 DEF Whole

LEMMA JetNextInv == JetInv /\ [JetNext]_jetVars => JetInv'
<1> SUFFICES ASSUME JetInv, [JetNext]_jetVars, keeps' = "none" PROVE Whole'
  BY DEF JetInv
<1>1. keeps = "none" /\ Whole
  BY DEF JetInv, JetNext, jetVars, PublishRecord, Fetch, Answer, Nak
<1>2. CASE UNCHANGED jetVars
  BY <1>1, <1>2 DEF jetVars, Whole
<1>3. CASE JetNext
  BY <1>1, <1>3, PublishKeepsWhole, FetchKeepsWhole, AnswerKeepsWhole, NakKeepsWhole DEF JetNext
<1> QED BY <1>2, <1>3

(* nats_bus.py: on a stream that drops nothing a wanted message that was   *)
(* passed by is answered or pending, and the floor is over answered ones   *)
(* only, through fetches, answers and rewinds in any order.                *)
THEOREM NothingIsPassedBy == JetSpec => []NothingPassedBy
<1>1. JetInv => NothingPassedBy
  <2> SUFFICES ASSUME JetInv, keeps = "none" PROVE NothingPassedBy
    BY DEF NothingPassedBy
  <2>1. Whole /\ DOMAIN stream = 1 .. Len(stream)
    BY LenProperties DEF JetInv, Whole
  <2> QED BY <2>1 DEF Whole, NothingPassedBy
<1> QED BY <1>1, JetInitInv, JetNextInv, PTL DEF JetSpec


(* The floor of a consumer, whatever the stream drops.                     *)
FloorIsUnder == ackFloor <= delivered /\ \A s \in unanswered : ackFloor < s

(* What retention leaves of a stream is one.                               *)
LEMMA RetainedTypes ==
  ASSUME NEW messages \in Seq(Message), NEW left \in Retained(messages), keeps \in {"none", "count", "age"}
  PROVE  left \in Seq(Message)
<1>1. \A m \in Nat \ {0} : SubSeq(messages, m, Len(messages)) \in Seq(Message)
  <2> TAKE m \in Nat \ {0}
  <2>1. Len(messages) \in Nat /\ \A i \in m .. Len(messages) : messages[i] \in Message
    BY LenProperties, ElementOfSeq
  <2> QED BY <2>1, SubSeqProperties
<1>2. CASE keeps = "none"
  BY <1>2 DEF Retained
<1>3. CASE keeps = "count"
  <2>1. left = SubSeq(messages, IF Len(messages) > MaxMessages THEN 2 ELSE 1, Len(messages))
    BY <1>3 DEF Retained
  <2> QED BY <1>1, <2>1
<1>4. CASE keeps = "age"
  <2>1. PICK n \in 1 .. Len(messages) + 1 : left = SubSeq(messages, n, Len(messages))
    BY <1>4 DEF Retained
  <2>2. n \in Nat \ {0}
    OBVIOUS
  <2> QED BY <1>1, <2>1, <2>2
<1> QED BY <1>2, <1>3, <1>4

LEMMA FloorInit == JetInit => JetTypeOK /\ FloorIsUnder
BY EmptySeq DEF JetInit, JetTypeOK, FloorIsUnder

LEMMA FloorNext ==
  JetTypeOK /\ FloorIsUnder /\ [JetNext]_jetVars =>
    JetTypeOK' /\ FloorIsUnder' /\ ackFloor <= ackFloor' /\ answered \subseteq answered'
<1> SUFFICES ASSUME JetTypeOK, FloorIsUnder, [JetNext]_jetVars
             PROVE  JetTypeOK' /\ FloorIsUnder' /\ ackFloor <= ackFloor' /\ answered \subseteq answered'
  OBVIOUS
<1>0. /\ keeps \in Retention /\ stream \in Seq(Message) /\ published \in Nat /\ delivered \in Nat
      /\ ackFloor \in Nat /\ unanswered \subseteq Nat /\ answered \subseteq Nat
      /\ ackFloor <= delivered /\ \A s \in unanswered : ackFloor < s
  BY DEF JetTypeOK, FloorIsUnder, Message
<1>1. CASE UNCHANGED jetVars
  BY <1>0, <1>1 DEF jetVars, JetTypeOK, FloorIsUnder
<1>2. CASE PublishRecord
  <2>1. PICK wanted \in BOOLEAN :
          stream' \in Retained(Append(stream, [seq |-> Len(stream) + 1,
                                               publish |-> published', wanted |-> wanted]))
    BY <1>2 DEF PublishRecord
  <2> DEFINE e == [seq |-> Len(stream) + 1, publish |-> published', wanted |-> wanted]
  <2>2. /\ published' \in Nat /\ Len(stream) \in Nat
        /\ UNCHANGED <<keeps, delivered, ackFloor, unanswered, answered>>
    BY <1>0, <1>2, LenProperties DEF PublishRecord
  <2>3. e \in Message
    BY <2>2 DEF Message
  <2> HIDE DEF e
  <2>4. Append(stream, e) \in Seq(Message) /\ stream' \in Retained(Append(stream, e))
    BY <1>0, <2>1, <2>3, AppendProperties DEF e
  <2>5. stream' \in Seq(Message)
    BY <1>0, <2>4, JetAssumption, RetainedTypes DEF JetAssumption
  <2> QED BY <1>0, <2>2, <2>5 DEF JetTypeOK, FloorIsUnder, Message
<1>3. ASSUME NEW n \in 1 .. MaxPublishes, Fetch(n)
      PROVE  JetTypeOK' /\ FloorIsUnder' /\ ackFloor <= ackFloor' /\ answered \subseteq answered'
  <2> DEFINE some == {i \in Ahead : Cardinality({j \in Ahead : j < i}) < n}
             seqs == {stream[i].seq : i \in some}
  <2>1. /\ unanswered' = unanswered \cup seqs /\ delivered' \in seqs
        /\ UNCHANGED <<keeps, stream, published, ackFloor, answered>>
    BY <1>3 DEF Fetch
  <2>2. \A s \in seqs : s \in Nat /\ s > delivered
    <3>1. \A i \in Ahead : stream[i] \in Message /\ stream[i].seq > delivered
      BY <1>0, ElementOfSeq, LenProperties DEF Ahead
    <3> QED BY <3>1 DEF Message
  <2> HIDE DEF seqs
  <2>3. delivered' \in Nat /\ ackFloor <= delivered'
    BY <1>0, <2>1, <2>2
  <2>4. \A s \in unanswered' : s \in Nat /\ ackFloor < s
    <3> SUFFICES ASSUME NEW s \in unanswered' PROVE s \in Nat /\ ackFloor < s
      OBVIOUS
    <3>1. CASE s \in unanswered
      BY <1>0, <3>1
    <3>2. CASE s \in seqs
      <4>1. s \in Nat /\ s > delivered
        BY <2>2, <3>2
      <4> QED BY <1>0, <4>1
    <3> QED BY <2>1, <3>1, <3>2
  <2> QED BY <1>0, <2>1, <2>3, <2>4 DEF JetTypeOK, FloorIsUnder, Message
<1>4. ASSUME NEW s \in unanswered, Answer(s)
      PROVE  JetTypeOK' /\ FloorIsUnder' /\ ackFloor <= ackFloor' /\ answered \subseteq answered'
  <2>1. /\ unanswered' = unanswered \ {s} /\ answered' = answered \cup {s}
        /\ ackFloor' = Raised(ackFloor, unanswered', delivered)
        /\ UNCHANGED <<keeps, stream, published, delivered>>
    BY <1>4 DEF Answer
  <2>2. Reach(ackFloor', ackFloor, unanswered', delivered)
    BY <1>0, <2>1, RaisedExists
  <2>3. /\ ackFloor' \in Nat /\ ackFloor <= ackFloor' /\ ackFloor' <= delivered
        /\ \A w \in (ackFloor + 1) .. ackFloor' : w \notin unanswered'
    BY <1>0, <2>2 DEF Reach
  <2>4. ASSUME NEW w \in unanswered' PROVE ackFloor' < w
    <3>1. w \in unanswered
      BY <2>1
    <3>2. w \in Nat /\ ackFloor < w
      BY <1>0, <3>1
    <3>3. w \notin (ackFloor + 1) .. ackFloor'
      BY <2>3
    <3> QED BY <1>0, <2>3, <3>2, <3>3
  <2> QED BY <1>0, <2>1, <2>3, <2>4 DEF JetTypeOK, FloorIsUnder, Message
<1>5. ASSUME NEW s \in unanswered, Nak(s)
      PROVE  JetTypeOK' /\ FloorIsUnder' /\ ackFloor <= ackFloor' /\ answered \subseteq answered'
  <2>1. /\ delivered' = IF s - 1 < delivered THEN s - 1 ELSE delivered
        /\ UNCHANGED <<keeps, stream, published, ackFloor, unanswered, answered>>
    BY <1>5 DEF Nak
  <2>2. s \in Nat /\ ackFloor < s
    BY <1>0
  <2>3. delivered' \in Nat /\ ackFloor <= delivered'
    BY <1>0, <2>1, <2>2
  <2> QED BY <1>0, <2>1, <2>3 DEF JetTypeOK, FloorIsUnder, Message
<1> QED BY <1>1, <1>2, <1>3, <1>4, <1>5 DEF JetNext

(* nats_bus.py, any retention: although seqs repeat when a stream drops    *)
(* messages and a nak rewinds the consumer, the floor stays under every    *)
(* message that is still pending and is never taken back.                  *)
THEOREM FloorNeverFalls ==
  JetSpec => [](JetTypeOK /\ FloorIsUnder) /\ [][ackFloor <= ackFloor' /\ answered \subseteq answered']_jetVars
<1>1. JetTypeOK /\ FloorIsUnder /\ [JetNext]_jetVars =>
        (JetTypeOK /\ FloorIsUnder)' /\ [ackFloor <= ackFloor' /\ answered \subseteq answered']_jetVars
  BY FloorNext
<1> QED BY <1>1, FloorInit, PTL DEF JetSpec

(* nats_bus.py, any retention: a message that was acknowledged or           *)
(* terminated comes again only because a nak took delivery back behind it.  *)
THEOREM AnsweredStaysAnswered ==
  JetSpec /\ [][delivered <= delivered']_jetVars => [](answered \cap unanswered = {})
<1> DEFINE Apart == /\ answered \cap unanswered = {}
                    /\ \A s \in answered \cup unanswered : s <= delivered
<1>1. JetInit => Apart
  BY DEF JetInit
<1>2. JetTypeOK /\ Apart /\ [JetNext]_jetVars /\ [delivered <= delivered']_jetVars => Apart'
  <2> SUFFICES ASSUME JetTypeOK, Apart, [JetNext]_jetVars, [delivered <= delivered']_jetVars
               PROVE  Apart'
    OBVIOUS
  <2>0. /\ stream \in Seq(Message) /\ delivered \in Nat
        /\ unanswered \subseteq Nat /\ answered \subseteq Nat
    BY DEF JetTypeOK, Message
  <2>1. CASE UNCHANGED jetVars \/ PublishRecord
    BY <2>1 DEF jetVars, PublishRecord
  <2>2. ASSUME NEW n \in 1 .. MaxPublishes, Fetch(n)
        PROVE  Apart'
    <3> DEFINE some == {i \in Ahead : Cardinality({j \in Ahead : j < i}) < n}
               seqs == {stream[i].seq : i \in some}
    <3>1. /\ unanswered' = unanswered \cup seqs /\ answered' = answered
          /\ delivered' \in seqs /\ \A s \in seqs : s <= delivered'
      BY <2>2 DEF Fetch
    <3>2. \A s \in seqs : s \in Nat /\ s > delivered
      <4>1. \A i \in Ahead : stream[i] \in Message /\ stream[i].seq > delivered
        BY <2>0, ElementOfSeq, LenProperties DEF Ahead
      <4> QED BY <4>1 DEF Message
    <3> HIDE DEF seqs
    <3>3. answered \cap seqs = {}
      BY <2>0, <3>2
    <3>4. delivered' \in Nat /\ delivered < delivered'
      BY <2>0, <3>1, <3>2
    <3>5. \A s \in answered \cup unanswered : s <= delivered'
      BY <2>0, <3>4
    <3> QED BY <3>1, <3>3, <3>5
  <2>3. ASSUME NEW s \in unanswered, Answer(s)
        PROVE  Apart'
    BY <2>3 DEF Answer
  <2>4. ASSUME NEW s \in unanswered, Nak(s)
        PROVE  Apart'
    <3>1. /\ UNCHANGED <<keeps, stream, published, ackFloor, unanswered, answered>>
          /\ delivered' = IF s - 1 < delivered THEN s - 1 ELSE delivered
      BY <2>4 DEF Nak
    <3>2. delivered' = delivered
      <4>1. delivered <= delivered' \/ UNCHANGED jetVars
        OBVIOUS
      <4> QED BY <2>0, <3>1, <4>1 DEF jetVars
    <3> QED BY <3>1, <3>2
  <2> QED BY <2>1, <2>2, <2>3, <2>4 DEF JetNext
<1> QED BY <1>1, <1>2, FloorNeverFalls, PTL DEF JetSpec

-----------------------------------------------------------------------------
(* The fills of an order.                                                  *)

(* Induction over the numbers, for sets of them.                           *)
LEMMA AllNumbers ==
  ASSUME NEW K \in SUBSET Nat, 0 \in K, \A n \in K : n + 1 \in K
  PROVE  K = Nat
<1> SUFFICES ASSUME Nat \ K # {} PROVE FALSE
  OBVIOUS
<1> DEFINE I == Nat \ K
           n == Min(I)
<1>1. n \in I /\ \A j \in I : n <= j
  <2>1. I \in SUBSET Nat /\ I # {}
    OBVIOUS
  <2> HIDE DEF I
  <2> QED BY <2>1, LeastExists
<1> HIDE DEF n
<1>2. n \in Nat /\ n # 0 /\ n - 1 \in Nat
  BY <1>1
<1>3. n - 1 \notin I
  BY <1>1, <1>2
<1> QED BY <1>1, <1>2, <1>3

\* The fold, taken apart: who is added first, and what each step adds.
First(s) == CHOOSE f \in s : TRUE
Adds(g, s) == g[s] = IF s = {} THEN 0 ELSE First(s).qty + g[s \ {First(s)}]
Qty(s) == MapThenSumSet(LAMBDA f : f.qty, s)

(* What is left of finitely many fills without one of them.                *)
LEMMA RestOf ==
  ASSUME NEW S \in SUBSET Fill, IsFiniteSet(S), NEW s \in SUBSET S
  PROVE  /\ Cardinality(s) \in Nat /\ Cardinality(s) <= Cardinality(S) /\ Cardinality(S) \in Nat
         /\ Cardinality(s) = 0 <=> s = {}
         /\ s # {} => First(s) \in s
         /\ \A f \in s : /\ s \ {f} \in SUBSET S /\ Cardinality(s \ {f}) = Cardinality(s) - 1
                         /\ f.qty \in Nat
<1>1. IsFiniteSet(s) /\ Cardinality(s) \in Nat /\ Cardinality(s) <= Cardinality(S) /\ Cardinality(S) \in Nat
  BY FS_Subset, FS_CardinalityType
<1>2. ASSUME NEW f \in s PROVE Cardinality(s \ {f}) = Cardinality(s) - 1 /\ f.qty \in Nat
  <2>1. f \in Fill
    OBVIOUS
  <2>2. Cardinality(s \ {f}) = Cardinality(s) - 1
    BY <1>1, FS_RemoveElement
  <2>3. f.qty \in 1 .. Target
    BY <2>1 DEF Fill
  <2>4. f.qty \in Nat
    BY <2>3, LifecycleAssumption DEF LifecycleAssumption
  <2> QED BY <2>2, <2>4
<1>3. s # {} => First(s) \in s
  BY DEF First
<1>4. Cardinality(s) = 0 <=> s = {}
  BY <1>1, FS_EmptySet
<1> QED BY <1>1, <1>2, <1>3, <1>4

(* For finitely many fills there is a function that adds them up.          *)
LEMMA AdderExists ==
  ASSUME NEW S \in SUBSET Fill, IsFiniteSet(S)
  PROVE  \E g \in [SUBSET S -> Nat] : \A s \in SUBSET S : Adds(g, s)
<1>1. \A s \in SUBSET S : Cardinality(s) \in Nat /\ Cardinality(s) <= Cardinality(S) /\ Cardinality(S) \in Nat
  BY RestOf
<1>2. \A s \in SUBSET S : s # {} => /\ First(s) \in s /\ s \ {First(s)} \in SUBSET S
                                   /\ Cardinality(s \ {First(s)}) = Cardinality(s) - 1
                                   /\ First(s).qty \in Nat
  BY RestOf
<1>3. \A s \in SUBSET S : Cardinality(s) = 0 <=> s = {}
  BY RestOf
<1> DEFINE Upto(g, k) == \A s \in SUBSET S : Cardinality(s) <= k => Adds(g, s)
           K == {k \in Nat : \E g \in [SUBSET S -> Nat] : Upto(g, k)}
<1>4. 0 \in K
  <2> DEFINE g == [s \in SUBSET S |-> 0]
  <2>1. g \in [SUBSET S -> Nat]
    OBVIOUS
  <2>2. Upto(g, 0)
    BY <1>1, <1>3 DEF Adds
  <2> QED BY <2>1, <2>2
<1>5. ASSUME NEW k \in K PROVE k + 1 \in K
  <2>1. PICK g \in [SUBSET S -> Nat] : Upto(g, k)
    OBVIOUS
  <2> DEFINE h == [s \in SUBSET S |-> IF Cardinality(s) <= k THEN g[s] ELSE First(s).qty + g[s \ {First(s)}]]
  <2>2. k \in Nat
    OBVIOUS
  <2>3. ASSUME NEW s \in SUBSET S PROVE h[s] \in Nat
    <3>1. CASE Cardinality(s) <= k
      BY <3>1
    <3>2. CASE ~ (Cardinality(s) <= k)
      <4>1. s # {}
        BY <1>3, <2>2, <3>2
      <4>2. First(s).qty \in Nat /\ g[s \ {First(s)}] \in Nat
        BY <1>2, <4>1
      <4> QED BY <3>2, <4>2
    <3> QED BY <3>1, <3>2
  <2>4. h \in [SUBSET S -> Nat]
    BY <2>3
  <2>5. ASSUME NEW s \in SUBSET S, Cardinality(s) <= k + 1 PROVE Adds(h, s)
    <3>1. CASE s = {}
      <4>1. h[s] = g[s] /\ Adds(g, s)
        BY <1>3, <2>1, <2>2, <3>1
      <4> QED BY <3>1, <4>1 DEF Adds
    <3>2. CASE s # {}
      <4>1. /\ s \ {First(s)} \in SUBSET S /\ Cardinality(s \ {First(s)}) <= k
        BY <1>1, <1>2, <2>2, <2>5, <3>2
      <4>2. h[s \ {First(s)}] = g[s \ {First(s)}]
        BY <4>1
      <4>3. CASE Cardinality(s) <= k
        <5>1. h[s] = g[s] /\ Adds(g, s)
          BY <2>1, <4>3
        <5> QED BY <3>2, <4>2, <5>1 DEF Adds
      <4>4. CASE ~ (Cardinality(s) <= k)
        BY <3>2, <4>2, <4>4 DEF Adds
      <4> QED BY <4>3, <4>4
    <3> QED BY <3>1, <3>2
  <2>6. k + 1 \in Nat
    BY <2>2
  <2> HIDE DEF h
  <2>7. Upto(h, k + 1)
    BY <2>5
  <2> HIDE DEF Upto
  <2> QED BY <2>4, <2>6, <2>7
<1>6. K = Nat
  <2>1. K \in SUBSET Nat
    OBVIOUS
  <2> HIDE DEF K
  <2> QED BY <1>4, <1>5, <2>1, AllNumbers
<1>7. Cardinality(S) \in K
  BY <1>1, <1>6
<1>8. PICK g \in [SUBSET S -> Nat] : Upto(g, Cardinality(S))
  BY <1>7
<1> QED BY <1>1, <1>8

(* There is only one.                                                      *)
LEMMA OneAdder ==
  ASSUME NEW S \in SUBSET Fill, IsFiniteSet(S), NEW g, NEW h,
         \A s \in SUBSET S : Adds(g, s) /\ Adds(h, s)
  PROVE  \A s \in SUBSET S : g[s] = h[s]
<1> DEFINE Upto(k) == \A s \in SUBSET S : Cardinality(s) <= k => g[s] = h[s]
           K == {k \in Nat : Upto(k)}
<1>1. 0 \in K
  <2>1. \A s \in SUBSET S : Cardinality(s) <= 0 => s = {}
    BY RestOf
  <2> QED BY <2>1 DEF Adds
<1>2. ASSUME NEW k \in K PROVE k + 1 \in K
  <2>1. ASSUME NEW s \in SUBSET S, Cardinality(s) <= k + 1 PROVE g[s] = h[s]
    <3>1. CASE s = {}
      BY <3>1 DEF Adds
    <3>2. CASE s # {}
      <4>1. s \ {First(s)} \in SUBSET S /\ Cardinality(s \ {First(s)}) <= k
        BY <2>1, <3>2, RestOf
      <4>2. g[s \ {First(s)}] = h[s \ {First(s)}]
        BY <4>1
      <4> QED BY <3>2, <4>2 DEF Adds
    <3> QED BY <3>1, <3>2
  <2> QED BY <2>1
<1>3. K = Nat
  <2>1. K \in SUBSET Nat
    OBVIOUS
  <2> HIDE DEF K
  <2> QED BY <1>1, <1>2, <2>1, AllNumbers
<1> TAKE s \in SUBSET S
<1>4. Cardinality(s) \in K
  BY <1>3, RestOf
<1>5. Cardinality(s) <= Cardinality(s)
  BY RestOf
<1> QED BY <1>4, <1>5

(* Whichever is added first, the sum is the same.                          *)
LEMMA AnyFirst ==
  ASSUME NEW S \in SUBSET Fill, IsFiniteSet(S), NEW g \in [SUBSET S -> Nat],
         \A s \in SUBSET S : Adds(g, s)
  PROVE  \A s \in SUBSET S : \A f \in s : g[s] = f.qty + g[s \ {f}]
<1> DEFINE Upto(k) == \A s \in SUBSET S : Cardinality(s) <= k => \A f \in s : g[s] = f.qty + g[s \ {f}]
           K == {k \in Nat : Upto(k)}
<1>1. 0 \in K
  <2>1. \A s \in SUBSET S : Cardinality(s) <= 0 => s = {}
    BY RestOf
  <2> QED BY <2>1
<1>2. ASSUME NEW k \in K PROVE k + 1 \in K
  <2>1. ASSUME NEW s \in SUBSET S, Cardinality(s) <= k + 1, NEW f \in s PROVE g[s] = f.qty + g[s \ {f}]
    <3>1. First(s) \in s /\ g[s] = First(s).qty + g[s \ {First(s)}]
      BY RestOf DEF Adds
    <3>4. PICK c \in s : c = First(s) /\ g[s] = c.qty + g[s \ {c}]
      BY <3>1
    <3>2. CASE f = c
      BY <3>4, <3>2
    <3>3. CASE f # c
      <4>1. /\ s \ {c} \in SUBSET S /\ Cardinality(s \ {c}) <= k
            /\ s \ {f} \in SUBSET S /\ Cardinality(s \ {f}) <= k
            /\ (s \ {c}) \ {f} \in SUBSET S /\ c.qty \in Nat /\ f.qty \in Nat
        <5>1. /\ Cardinality(s) \in Nat
              /\ \A e \in s : /\ s \ {e} \in SUBSET S /\ Cardinality(s \ {e}) = Cardinality(s) - 1
                             /\ e.qty \in Nat
          <6> HIDE DEF K, Upto
          <6>1. Cardinality(s) \in Nat
            BY RestOf
          <6>2. ASSUME NEW e \in s
                PROVE  s \ {e} \in SUBSET S /\ Cardinality(s \ {e}) = Cardinality(s) - 1 /\ e.qty \in Nat
            BY RestOf
          <6> QED BY <6>1, <6>2
        <5>2. Cardinality(s) - 1 <= k
          BY <2>1, <5>1
        <5> QED BY <5>1, <5>2
      <4>2. g[s \ {c}] = f.qty + g[(s \ {c}) \ {f}]
        BY <3>4, <3>3, <4>1
      <4>3. g[s \ {f}] = c.qty + g[(s \ {f}) \ {c}]
        BY <3>4, <3>3, <4>1
      <4>4. (s \ {f}) \ {c} = (s \ {c}) \ {f} /\ g[(s \ {c}) \ {f}] \in Nat
        BY <4>1
      <4>5. g[s] = c.qty + (f.qty + g[(s \ {c}) \ {f}])
        BY <3>4, <4>2
      <4>6. g[s \ {f}] = c.qty + g[(s \ {c}) \ {f}]
        BY <4>3, <4>4
      <4>7. \A a, b, x \in Nat : a + (b + x) = b + (a + x)
        OBVIOUS
      <4> QED BY <4>1, <4>4, <4>5, <4>6, <4>7
    <3> QED BY <3>2, <3>3
  <2> QED BY <2>1
<1>3. K = Nat
  <2>1. K \in SUBSET Nat
    OBVIOUS
  <2> HIDE DEF K
  <2> QED BY <1>1, <1>2, <2>1, AllNumbers
<1> TAKE s \in SUBSET S
<1>4. Cardinality(s) \in K
  BY <1>3, RestOf
<1>5. Cardinality(s) <= Cardinality(s)
  BY RestOf
<1> QED BY <1>4, <1>5

(* The fold is that function, for the set it is given and its parts.       *)
LEMMA QtyIs ==
  ASSUME NEW S \in SUBSET Fill, IsFiniteSet(S), NEW g, \A s \in SUBSET S : Adds(g, s)
  PROVE  \A s \in SUBSET S : Qty(s) = g[s]
<1> TAKE T \in SUBSET S
<1> DEFINE Step(h) == [s \in SUBSET T |-> IF s = {} THEN 0 ELSE First(s).qty + h[s \ {First(s)}]]
           iter == CHOOSE h : h = Step(h)
<1>0. T \in SUBSET Fill /\ IsFiniteSet(T)
  BY FS_Subset
<1>1. Qty(T) = iter[T]
  BY DEF Qty, MapThenSumSet, MapThenFoldSet, First
<1>2. PICK h \in [SUBSET T -> Nat] : \A s \in SUBSET T : Adds(h, s)
  BY <1>0, AdderExists
<1>3. h = Step(h)
  BY <1>2 DEF Adds
<1>4. iter = Step(iter)
  <2> HIDE DEF Step
  <2> QED BY <1>3
<1> HIDE DEF iter
<1>5. \A s \in SUBSET T : Adds(iter, s)
  BY <1>4 DEF Adds
<1>6. \A s \in SUBSET T : Adds(g, s)
  OBVIOUS
<1> QED BY <1>0, <1>1, <1>5, <1>6, OneAdder

(* What booking a fill does to the sum.                                    *)
LEMMA QtyAdds ==
  ASSUME NEW S \in SUBSET Fill, IsFiniteSet(S), NEW f \in Fill \ S
  PROVE  Qty(S \cup {f}) = Qty(S) + f.qty /\ Qty(S) \in Nat /\ IsFiniteSet(S \cup {f}) /\ f.qty \in Nat
<1> DEFINE T == S \cup {f}
<1>1. T \in SUBSET Fill /\ IsFiniteSet(T) /\ S \in SUBSET T /\ f \in T /\ T \ {f} = S /\ T \in SUBSET T
  BY FS_AddElement
<1> HIDE DEF T
<1>2. PICK g \in [SUBSET T -> Nat] : \A s \in SUBSET T : Adds(g, s)
  BY <1>1, AdderExists
<1>3. g[T] = f.qty + g[S] /\ g[S] \in Nat /\ g[T] \in Nat
  BY <1>1, <1>2, AnyFirst
<1>4. Qty(T) = g[T] /\ Qty(S) = g[S]
  BY <1>1, <1>2, QtyIs
<1>5. f.qty \in Nat
  BY <1>1, RestOf
<1> QED BY <1>1, <1>3, <1>4, <1>5 DEF T

LEMMA QtyNone == Qty({}) = 0
<1>1. IsFiniteSet({}) /\ {} \in SUBSET Fill
  BY FS_EmptySet
<1>2. PICK g \in [SUBSET {} -> Nat] : \A s \in SUBSET {} : Adds(g, s)
  BY <1>1, AdderExists
<1>3. Qty({}) = g[{}] /\ Adds(g, {})
  BY <1>1, <1>2, QtyIs
<1> QED BY <1>3 DEF Adds
\* The state of an order nobody cancelled, failed or closed.
StateOf(state, booked, sum) ==
  CASE ~booked -> IF state = "NEW" THEN "NEW" ELSE "absent"
    [] booked /\ sum = 0 -> "PENDING"
    [] sum \in 1 .. Target - 1 -> "PARTIALLY_FILLED"
    [] sum = Target -> "FILLED"
StateOfBook == StateOf(orderState, registered, filled)

\* FillsCountOnce, with what it rests on: a booked fill was remembered, and an
\* order without a book has nothing in it.
BookInv == /\ LifecycleTypeOK
           /\ IsFiniteSet(fills) /\ filled = Qty(fills) /\ filled <= Target
           /\ fills \subseteq seenFills
           /\ ~registered => filled = 0
           /\ \A f \in fills : reports[f] > 0
           /\ \A f \in seenFills \ fills : ~Fits(f)
           /\ orderState \notin {"CANCELLED", "ERROR", "CLOSED"} => orderState = StateOfBook

(* Its cases exclude each other.                                           *)
LEMMA StatesOfBooks ==
  ASSUME NEW state, NEW booked \in BOOLEAN, NEW sum \in Nat, sum <= Target, ~booked => sum = 0
  PROVE  /\ ~booked => StateOf(state, booked, sum) = IF state = "NEW" THEN "NEW" ELSE "absent"
         /\ booked /\ sum = 0 => StateOf(state, booked, sum) = "PENDING"
         /\ booked /\ sum > 0 /\ sum < Target => StateOf(state, booked, sum) = "PARTIALLY_FILLED"
         /\ booked /\ sum = Target => StateOf(state, booked, sum) = "FILLED"
<1>1. Target \in Nat /\ Target > 0
  BY LifecycleAssumption DEF LifecycleAssumption
<1>2. CASE ~booked
  <2>1. ~ (sum \in 1 .. Target - 1) /\ sum # Target /\ sum = 0
    BY <1>1, <1>2
  <2> QED BY <1>1, <1>2, <2>1 DEF StateOf
<1>3. CASE booked /\ sum = 0
  <2>1. ~ (sum \in 1 .. Target - 1) /\ sum # Target
    BY <1>1, <1>3
  <2> QED BY <1>1, <1>3, <2>1 DEF StateOf
<1>4. CASE booked /\ sum > 0 /\ sum < Target
  <2>1. sum \in 1 .. Target - 1 /\ sum # Target /\ sum # 0
    BY <1>1, <1>4
  <2> QED BY <1>4, <2>1 DEF StateOf
<1>5. CASE booked /\ sum = Target
  <2>1. ~ (sum \in 1 .. Target - 1) /\ sum # 0
    BY <1>1, <1>5
  <2> QED BY <1>1, <1>5, <2>1 DEF StateOf
<1> QED BY <1>1, <1>2, <1>3, <1>4, <1>5

LEMMA BookInvInit == LifecycleInit => BookInv
<1> SUFFICES ASSUME LifecycleInit PROVE BookInv
  OBVIOUS
<1>1. fills = {} /\ filled = 0 /\ seenFills = {} /\ registered = FALSE /\ orderState = "absent"
  BY DEF LifecycleInit
<1>2. LifecycleTypeOK
  <2>1. reports \in [Fill -> 0 .. 2]
    BY DEF LifecycleInit
  <2> QED BY <1>1, <2>1 DEF LifecycleTypeOK
<1>3. IsFiniteSet(fills) /\ filled = Qty(fills)
  BY <1>1, FS_EmptySet, QtyNone
<1>4. filled <= Target
  BY <1>1, LifecycleAssumption DEF LifecycleAssumption
<1>5. orderState = StateOfBook
  BY <1>1, <1>4, StatesOfBooks DEF StateOfBook
<1> QED BY <1>1, <1>2, <1>3, <1>4, <1>5 DEF BookInv

LEMMA OthersKeepBook ==
  ASSUME BookInv,
         \/ Open \/ RegisterOrder \/ (\E new \in OrderState : Transition(new))
         \/ UNCHANGED lifecycleVars
  PROVE  BookInv'
<1>1. UNCHANGED <<filled, fills, seenFills, reports>>
  BY DEF Open, RegisterOrder, Transition, lifecycleVars
<1>2. LifecycleTypeOK'
  BY DEF BookInv, LifecycleTypeOK, Open, RegisterOrder, Transition, lifecycleVars, OrderState
<1>3. (IsFiniteSet(fills) /\ filled = Qty(fills) /\ filled <= Target)'
  BY <1>1 DEF BookInv
<1>4. (/\ fills \subseteq seenFills
       /\ \A f \in fills : reports[f] > 0
       /\ \A f \in seenFills \ fills : ~Fits(f))'
  BY <1>1 DEF BookInv, Fits
<1>5. (~registered => filled = 0)'
  BY <1>1 DEF BookInv, Open, RegisterOrder, Transition, lifecycleVars
<1>6. (orderState \notin {"CANCELLED", "ERROR", "CLOSED"} => orderState = StateOfBook)'
  <2>0. /\ registered \in BOOLEAN /\ filled \in Nat /\ filled <= Target /\ (~registered => filled = 0)
        /\ registered' \in BOOLEAN /\ filled' = filled /\ (~registered' => filled' = 0)
    BY <1>1, <1>2, <1>5 DEF BookInv, LifecycleTypeOK
  <2>1. CASE Open
    <3>1. orderState = "absent" /\ orderState' = "NEW" /\ registered' = registered
      BY <2>1 DEF Open
    <3>2. orderState = StateOf(orderState, registered, filled)
      BY <3>1 DEF BookInv, StateOfBook
    <3>3. ~registered
      <4> SUFFICES ASSUME registered PROVE FALSE
        OBVIOUS
      <4>1. filled = 0 \/ (filled > 0 /\ filled < Target) \/ filled = Target
        BY <2>0, LifecycleAssumption DEF LifecycleAssumption
      <4> QED BY <2>0, <3>1, <3>2, <4>1, StatesOfBooks
    <3>4. StateOf(orderState', registered', filled') = "NEW"
      BY <2>0, <3>1, <3>3, StatesOfBooks
    <3> QED BY <3>1, <3>4 DEF StateOfBook
  <2>2. CASE RegisterOrder
    <3>1. registered' /\ filled' = 0 /\ orderState' = "PENDING"
      BY <1>1, <2>2 DEF RegisterOrder, BookInv
    <3>2. StateOf(orderState', registered', filled') = "PENDING"
      BY <2>0, <3>1, StatesOfBooks
    <3> QED BY <3>1, <3>2 DEF StateOfBook
  <2>3. CASE \E new \in OrderState : Transition(new)
    BY <2>3 DEF Transition
  <2>4. CASE UNCHANGED lifecycleVars
    BY <2>4 DEF lifecycleVars, BookInv, StateOfBook
  <2> QED BY <2>1, <2>2, <2>3, <2>4
<1> QED BY <1>2, <1>3, <1>4, <1>5, <1>6 DEF BookInv

LEMMA ExecutingKeepsBook ==
  ASSUME BookInv, NEW f \in Fill, Execute(f) PROVE BookInv'
<1>1. /\ UNCHANGED <<orderState, registered, filled, fills, seenFills>>
      /\ reports' = [reports EXCEPT ![f] = @ + 1] /\ reports[f] < 2
      /\ reports \in [Fill -> 0 .. 2]
  BY DEF Execute, BookInv, LifecycleTypeOK
<1>2. \A e \in Fill : reports'[e] \in 0 .. 2 /\ (reports[e] > 0 => reports'[e] > 0)
  BY <1>1
<1>3. reports' \in [Fill -> 0 .. 2]
  BY <1>1, <1>2
<1>4. LifecycleTypeOK'
  BY <1>1, <1>3 DEF BookInv, LifecycleTypeOK
<1>5. (IsFiniteSet(fills) /\ filled = Qty(fills) /\ filled <= Target)'
  BY <1>1 DEF BookInv
<1>6. (\A e \in fills : reports[e] > 0)'
  BY <1>1, <1>2 DEF BookInv, LifecycleTypeOK
<1>7. (\A e \in seenFills \ fills : ~Fits(e))'
  BY <1>1 DEF BookInv, Fits
<1>8. (orderState \notin {"CANCELLED", "ERROR", "CLOSED"} => orderState = StateOfBook)'
  BY <1>1 DEF BookInv, StateOfBook
<1>9. (fills \subseteq seenFills /\ (~registered => filled = 0))'
  BY <1>1 DEF BookInv
<1> QED BY <1>4, <1>5, <1>6, <1>7, <1>8, <1>9 DEF BookInv

LEMMA ApplyingKeepsBook ==
  ASSUME BookInv, NEW f \in Fill, Apply(f) PROVE BookInv'
<1>1. /\ registered /\ reports[f] > 0 /\ f \notin seenFills /\ f \notin fills
      /\ seenFills' = seenFills \cup {f} /\ UNCHANGED <<registered, reports>>
  BY DEF Apply, BookInv
<1>2. filled \in Nat /\ Target \in Nat /\ f.qty \in Nat /\ f.qty > 0
  BY LifecycleAssumption DEF BookInv, LifecycleTypeOK, LifecycleAssumption, Fill
<1>3. CASE ~Fits(f)
  <2>1. UNCHANGED <<orderState, filled, fills>>
    BY <1>3 DEF Apply
  <2>2. LifecycleTypeOK'
    BY <1>1, <2>1 DEF BookInv, LifecycleTypeOK
  <2>3. (IsFiniteSet(fills) /\ filled = Qty(fills) /\ filled <= Target)'
    BY <2>1 DEF BookInv
  <2>4. (/\ fills \subseteq seenFills /\ (~registered => filled = 0)
         /\ \A e \in fills : reports[e] > 0)'
    BY <1>1, <2>1 DEF BookInv
  <2>5. (\A e \in seenFills \ fills : ~Fits(e))'
    BY <1>1, <1>3, <2>1 DEF BookInv, Fits
  <2>6. (orderState \notin {"CANCELLED", "ERROR", "CLOSED"} => orderState = StateOfBook)'
    BY <1>1, <2>1 DEF BookInv, StateOfBook
  <2> QED BY <2>2, <2>3, <2>4, <2>5, <2>6 DEF BookInv
<1>4. CASE Fits(f)
  <2> DEFINE new == IF filled + f.qty = Target THEN "FILLED" ELSE "PARTIALLY_FILLED"
  <2>1. /\ filled' = filled + f.qty /\ fills' = fills \cup {f}
        /\ orderState' = IF LegalEdge(orderState, new) THEN new ELSE orderState
    BY <1>4 DEF Apply
  <2>2. filled < Target /\ filled' <= Target /\ filled' \in Nat /\ filled' > filled
    BY <1>2, <1>4, <2>1 DEF Fits
  <2>3. fills \in SUBSET Fill /\ IsFiniteSet(fills) /\ filled = Qty(fills)
    BY DEF BookInv, LifecycleTypeOK
  <2>4. Qty(fills \cup {f}) = Qty(fills) + f.qty /\ IsFiniteSet(fills \cup {f})
    BY <1>1, <2>3, QtyAdds
  <2>5. (IsFiniteSet(fills) /\ filled = Qty(fills) /\ filled <= Target)'
    BY <2>1, <2>2, <2>3, <2>4
  <2>6. new \in OrderState
    BY DEF OrderState
  <2>7. orderState' \in OrderState \cup {"absent"}
    <3> HIDE DEF new
    <3> QED BY <2>1, <2>6 DEF BookInv, LifecycleTypeOK
  <2>8. LifecycleTypeOK'
    BY <1>1, <2>1, <2>2, <2>7 DEF BookInv, LifecycleTypeOK
  <2>9. (/\ fills \subseteq seenFills /\ (~registered => filled = 0)
         /\ \A e \in fills : reports[e] > 0)'
    BY <1>1, <2>1 DEF BookInv
  <2>10. (\A e \in seenFills \ fills : ~Fits(e))'
    <3> SUFFICES ASSUME NEW e \in seenFills' \ fills' PROVE ~Fits(e)'
      OBVIOUS
    <3>1. e \in seenFills \ fills /\ e \in Fill
      BY <1>1, <2>1 DEF BookInv, LifecycleTypeOK
    <3>2. ~ (filled < Target /\ filled + e.qty <= Target)
      BY <3>1 DEF BookInv, Fits
    <3>3. e.qty \in Nat
      BY <3>1, LifecycleAssumption DEF LifecycleAssumption, Fill
    <3> QED BY <1>2, <2>2, <3>2, <3>3 DEF Fits
  <2>11. (orderState \notin {"CANCELLED", "ERROR", "CLOSED"} => orderState = StateOfBook)'
    <3>1. CASE orderState \in {"CANCELLED", "ERROR", "CLOSED"}
      BY <2>1, <3>1 DEF LegalEdge
    <3>2. CASE orderState \notin {"CANCELLED", "ERROR", "CLOSED"}
      <4>0. registered \in BOOLEAN /\ registered' \in BOOLEAN /\ registered' /\ filled' > 0
        BY <1>1, <1>2, <2>2 DEF BookInv, LifecycleTypeOK
      <4>1. orderState = "PENDING" \/ orderState = "PARTIALLY_FILLED"
        <5>1. orderState = StateOf(orderState, registered, filled)
          BY <3>2 DEF BookInv, StateOfBook
        <5>2. filled = 0 \/ (filled > 0 /\ filled < Target)
          BY <1>2, <2>2
        <5>3. filled <= Target
          BY <1>2, <2>2
        <5> QED BY <1>1, <1>2, <4>0, <5>1, <5>2, <5>3, StatesOfBooks
      <4>2. orderState' = new
        BY <2>1, <4>1 DEF LegalEdge
      <4>3. StateOf(orderState', registered', filled') = new
        <5>1. CASE filled' = Target
          <6>1. StateOf(orderState', registered', filled') = "FILLED"
            BY <2>2, <4>0, <5>1, StatesOfBooks
          <6> QED BY <2>1, <5>1, <6>1
        <5>2. CASE filled' # Target
          <6>1. filled' < Target
            BY <1>2, <2>2, <5>2
          <6>2. StateOf(orderState', registered', filled') = "PARTIALLY_FILLED"
            BY <2>2, <4>0, <6>1, StatesOfBooks
          <6> QED BY <2>1, <5>2, <6>2
        <5> QED BY <5>1, <5>2
      <4> QED BY <4>2, <4>3 DEF StateOfBook
    <3> QED BY <3>1, <3>2
  <2> QED BY <2>5, <2>8, <2>9, <2>10, <2>11 DEF BookInv
<1> QED BY <1>3, <1>4

\* fill_handler.py, for every target, every set of time stamps and every
\* excess: whatever the venue executes and however it reports it, the book is
\* the sum of different fills it reported, at most the target; what was refused
\* would be refused again; and the state of the order is the one its book has.
THEOREM FillsAreCountedOnce == LifecycleSpec => []FillsCountOnce
<1>1. LifecycleInit => BookInv
  BY BookInvInit
<1>2. BookInv /\ [LifecycleNext]_lifecycleVars => BookInv'
  BY OthersKeepBook, ExecutingKeepsBook, ApplyingKeepsBook DEF LifecycleNext
<1>3. BookInv => FillsCountOnce
  BY DEF BookInv, FillsCountOnce, StateOfBook, StateOf, Qty
<1> QED BY <1>1, <1>2, <1>3, PTL DEF LifecycleSpec

Drives(f) == IF filled + f.qty = Target THEN "FILLED" ELSE "PARTIALLY_FILLED"

\* Nobody cancels or fails the order.
LeftAlone == ~ (Transition("CANCELLED") \/ Transition("ERROR"))

\* fill_handler.py, "only ever calls fsm.transition with legal edges": of an order
\* that nobody cancels or fails, whatever the venue executes and however it reports
\* it, the machine accepts every fill the book accepts.  A cancel breaks it.
THEOREM FillsDriveLegalEdges ==
  LifecycleSpec /\ [][LeftAlone]_lifecycleVars
    => [](\A f \in Fill : registered /\ Fits(f) => LegalEdge(orderState, Drives(f)))
<1> DEFINE Alone == /\ orderState \notin {"CANCELLED", "ERROR"}
                    /\ orderState = "CLOSED" => filled = Target
           Legal == \A f \in Fill : registered /\ Fits(f) => LegalEdge(orderState, Drives(f))
<1>1. LifecycleInit => Alone
  BY DEF LifecycleInit
<1>2. BookInv /\ Alone /\ [LifecycleNext]_lifecycleVars /\ [LeftAlone]_lifecycleVars => Alone'
  <2> SUFFICES ASSUME BookInv, Alone, [LifecycleNext]_lifecycleVars, [LeftAlone]_lifecycleVars
               PROVE  Alone'
    OBVIOUS
  <2>0. filled \in Nat /\ filled <= Target /\ registered \in BOOLEAN /\ (~registered => filled = 0)
    BY DEF BookInv, LifecycleTypeOK
  <2>1. CASE Open \/ RegisterOrder \/ UNCHANGED lifecycleVars
    BY <2>1 DEF Open, RegisterOrder, lifecycleVars
  <2>2. ASSUME NEW new \in OrderState, Transition(new)
        PROVE  Alone'
    <3>1. /\ new \in {"CANCELLED", "ERROR", "CLOSED"} /\ LegalEdge(orderState, new)
          /\ orderState' = new /\ filled' = filled
      BY <2>2 DEF Transition
    <3>2. new # orderState
      BY <3>1 DEF LegalEdge
    <3>3. new = "CLOSED"
      BY <2>2, <3>1, <3>2 DEF LeftAlone, lifecycleVars
    <3>4. orderState = "FILLED"
      BY <3>1, <3>3 DEF LegalEdge
    <3>5. StateOf(orderState, registered, filled) = "FILLED"
      BY <3>4 DEF BookInv, StateOfBook
    <3>6. filled = 0 \/ (filled > 0 /\ filled < Target) \/ filled = Target
      BY <2>0, LifecycleAssumption DEF LifecycleAssumption
    <3>7. filled = Target
      BY <2>0, <3>4, <3>5, <3>6, StatesOfBooks
    <3> QED BY <3>1, <3>3, <3>7
  <2>3. ASSUME NEW f \in Fill, Execute(f)
        PROVE  Alone'
    BY <2>3 DEF Execute
  <2>4. ASSUME NEW f \in Fill, Apply(f)
        PROVE  Alone'
    <3>1. CASE ~Fits(f)
      BY <2>4, <3>1 DEF Apply
    <3>2. CASE Fits(f)
      <4>1. filled # Target /\ orderState # "CLOSED"
        BY <2>0, <3>2, LifecycleAssumption DEF Fits, LifecycleAssumption
      <4>2. orderState' \in {orderState, "FILLED", "PARTIALLY_FILLED"}
        BY <2>4, <3>2 DEF Apply
      <4> QED BY <4>1, <4>2
    <3> QED BY <3>1, <3>2
  <2> QED BY <2>1, <2>2, <2>3, <2>4 DEF LifecycleNext
<1>3. BookInv /\ Alone => Legal
  <2> SUFFICES ASSUME BookInv, Alone, NEW f \in Fill, registered, Fits(f)
               PROVE  LegalEdge(orderState, Drives(f))
    OBVIOUS
  <2>1. filled \in Nat /\ filled < Target /\ Target \in Nat
    BY LifecycleAssumption DEF BookInv, LifecycleTypeOK, Fits, LifecycleAssumption
  <2>2. orderState \notin {"CANCELLED", "ERROR", "CLOSED"}
    BY <2>1
  <2>3. orderState = StateOf(orderState, registered, filled)
    BY <2>2 DEF BookInv, StateOfBook
  <2>4. filled = 0 \/ (filled > 0 /\ filled < Target)
    BY <2>1
  <2>5. orderState \in {"PENDING", "PARTIALLY_FILLED"}
    <3>1. filled <= Target /\ registered \in BOOLEAN
      BY <2>1 DEF BookInv, LifecycleTypeOK
    <3> QED BY <2>1, <2>3, <2>4, <3>1, StatesOfBooks
  <2> QED BY <2>5 DEF LegalEdge, Drives
<1>4. LifecycleSpec => []BookInv
  <2>1. BookInv /\ [LifecycleNext]_lifecycleVars => BookInv'
    BY OthersKeepBook, ExecutingKeepsBook, ApplyingKeepsBook DEF LifecycleNext
  <2> QED BY <2>1, BookInvInit, PTL DEF LifecycleSpec
<1> QED BY <1>1, <1>2, <1>3, <1>4, PTL DEF LifecycleSpec

-----------------------------------------------------------------------------
(* Types.                                                                  *)

(* Whatever raises, dies, is lost or races in them, every reachable state  *)
(* of the daily caps, the consumer group, the order book, the proposals of *)
(* the chat, the batching writer, a stream's consumer and an order's book  *)
(* is well typed, for every value of the constants.                        *)
THEOREM PartsTypeCorrect ==
  /\ CapsSpec => []CapsTypeOK
  /\ KafkaSpec => []KafkaTypeOK
  /\ MarketSpec => []MarketTypeOK
  /\ ChatSpec => []ChatTypeOK
  /\ AsyncSpec => []AsyncTypeOK
  /\ JetSpec => []JetTypeOK
  /\ LifecycleSpec => []LifecycleTypeOK
<1>1. CapsSpec => []CapsTypeOK
  <2>1. CapsIInv => CapsTypeOK
    BY DEF CapsIInv
  <2> QED BY <2>1, CapsInitInv, CapsNextInv, PTL DEF CapsSpec
<1>2. KafkaSpec => []KafkaTypeOK
  BY KafkaInitInv, KafkaNextInv, PTL DEF KafkaSpec
<1>3. MarketSpec => []MarketTypeOK
  <2>1. MarketInit => MarketInv
    BY MarketAssumption DEF MarketInit, MarketInv, MarketTypeOK, BookIsTheVenues, MarketAssumption, Update
  <2>2. MarketInv /\ [MarketNext]_marketVars => MarketInv'
    BY MarketAssumption, MarketInductive
  <2>3. MarketInv => MarketTypeOK
    BY DEF MarketInv
  <2> QED BY <2>1, <2>2, <2>3, PTL DEF MarketSpec
<1>4. ChatSpec => []ChatTypeOK
  BY ChatInitTypes, ChatNextTypes, PTL DEF ChatSpec
<1>5. AsyncSpec => []AsyncTypeOK
  <2>1. AsyncInv => AsyncTypeOK
    BY DEF AsyncInv
  <2> QED BY <2>1, AsyncInitInv, AsyncNextInv, PTL DEF AsyncSpec
<1>6. JetSpec => []JetTypeOK
  BY FloorNeverFalls, PTL
<1>7. LifecycleSpec => []LifecycleTypeOK
  <2>1. BookInv /\ [LifecycleNext]_lifecycleVars => BookInv'
    BY OthersKeepBook, ExecutingKeepsBook, ApplyingKeepsBook DEF LifecycleNext
  <2>2. BookInv => LifecycleTypeOK
    BY DEF BookInv
  <2> QED BY <2>1, <2>2, BookInvInit, PTL DEF LifecycleSpec
<1> QED BY <1>1, <1>2, <1>3, <1>4, <1>5, <1>6, <1>7
=============================================================================
