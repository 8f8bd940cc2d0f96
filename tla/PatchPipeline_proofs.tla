------------------------ MODULE PatchPipeline_proofs ------------------------
(***************************************************************************)
(* For any strategies, reasons, tickers and number of patches: a key has   *)
(* no more proposals since it last recovered than there are tickers that   *)
(* looked at it unarmed, and the bridge's decisions tell what became of    *)
(* every patch.                                                            *)
(***************************************************************************)
EXTENDS PatchPipeline, FiniteSetTheorems, TLAPS

\* What the argument needs to know of the types: stages and patches are not of
\* it, and of a tick only the key it found.
EpisodeTypes == /\ DOMAIN ticks = Ticker
                /\ \A t \in Ticker : "found" \in DOMAIN ticks[t] /\ ticks[t].found \subseteq Key
                /\ breach \in [Key -> Nat]

\* The tickers between the look at the armed keys and the arming of k.
Holding(k) == {t \in Ticker : k \in ticks[t].found}

\* An unarmed key has no proposal yet; those who saw it so make one each.
Episode(k) == /\ k \notin armed => breach[k] = 0
              /\ breach[k] + Cardinality(Holding(k)) <= Cardinality(Ticker)

EpisodeInv == /\ EpisodeTypes
              /\ \A t \in Ticker : \A j, k \in ticks[t].found : j = k
              /\ \A k \in Key : Episode(k)

LEMMA HoldingBound ==
  ASSUME PatchAssumption, NEW H \in SUBSET Ticker
  PROVE  /\ IsFiniteSet(H) /\ Cardinality(H) \in Nat /\ Cardinality(Ticker) \in Nat
         /\ Cardinality(H) <= Cardinality(Ticker)
BY FS_Subset, FS_CardinalityType DEF PatchAssumption

LEMMA EpisodeInit == ASSUME PatchAssumption, PatchInit PROVE EpisodeInv
<1>1. EpisodeTypes
  BY DEF PatchInit, EpisodeTypes, Idle
<1>2. \A t \in Ticker : ticks[t].found = {}
  BY DEF PatchInit, Idle
<1>3. \A k \in Key : Holding(k) = {}
  BY <1>2 DEF Holding
<1>4. \A k \in Key : Episode(k)
  <2> TAKE k \in Key
  <2>1. Cardinality(Holding(k)) <= Cardinality(Ticker) /\ Cardinality(Holding(k)) \in Nat
        /\ Cardinality(Ticker) \in Nat
    BY HoldingBound DEF Holding
  <2> QED BY <2>1 DEF PatchInit, Episode
<1> QED BY <1>1, <1>2, <1>4 DEF EpisodeInv

(* A step that leaves the proposer's own state alone keeps the episodes.   *)
LEMMA OtherSteps ==
  ASSUME EpisodeInv, EpisodeTypes', UNCHANGED <<armed, breach>>,
         \A t \in Ticker : ticks'[t].found = ticks[t].found
  PROVE  EpisodeInv'
<1>1. \A k \in Key : Holding(k)' = Holding(k)
  BY DEF Holding
<1> QED BY <1>1 DEF EpisodeInv, Episode

(* Whoever disarms keys holds none of them.                                *)
LEMMA DisarmKeeps ==
  ASSUME PatchAssumption, EpisodeInv, NEW t \in Ticker, NEW keys \in SUBSET Key,
         ticks[t].found = {}, Disarm(t, keys)
  PROVE  EpisodeInv'
<1>1. EpisodeTypes'
  BY DEF EpisodeInv, EpisodeTypes, Disarm, Becomes
<1>2. \A u \in Ticker : ticks'[u].found = ticks[u].found
  BY DEF EpisodeInv, EpisodeTypes, Disarm, Becomes
<1>3. \A k \in Key : Holding(k)' = Holding(k) /\ Holding(k) \subseteq Ticker
  BY <1>2 DEF Holding
<1>4. \A k \in Key : Episode(k)'
  <2> TAKE k \in Key
  <2>1. /\ Cardinality(Holding(k)) <= Cardinality(Ticker)
        /\ Cardinality(Holding(k)) \in Nat /\ Cardinality(Ticker) \in Nat
    BY <1>3, HoldingBound
  <2>2. armed' = armed \ keys /\ breach'[k] = IF k \in keys THEN 0 ELSE breach[k]
    BY DEF Disarm
  <2> QED BY <1>3, <2>1, <2>2 DEF EpisodeInv, Episode
<1> QED BY <1>1, <1>2, <1>4 DEF EpisodeInv

(* The look at the armed keys: who finds k unarmed finds it unproposed.    *)
LEMMA BelowKeeps ==
  ASSUME PatchAssumption, EpisodeInv, NEW t \in Ticker, NEW k \in Key, Below(t, k)
  PROVE  EpisodeInv'
<1>1. EpisodeTypes'
  BY DEF EpisodeInv, EpisodeTypes, Below, Becomes
<1>2. /\ armed' = armed /\ breach' = breach
      /\ ticks'[t].found = {k} \ armed /\ ticks[t].found = {}
      /\ \A u \in Ticker \ {t} : ticks'[u] = ticks[u]
  BY DEF EpisodeInv, EpisodeTypes, Below, Becomes
<1>3. \A j \in Key : Episode(j)'
  <2> TAKE j \in Key
  <2>1. CASE j = k /\ k \notin armed
    <3>1. breach'[j] = 0
      BY <1>2, <2>1 DEF EpisodeInv, Episode
    <3>2. /\ Cardinality(Holding(j)') <= Cardinality(Ticker)
          /\ Cardinality(Holding(j)') \in Nat /\ Cardinality(Ticker) \in Nat
      BY HoldingBound DEF Holding
    <3> QED BY <3>1, <3>2 DEF Episode
  <2>2. CASE ~ (j = k /\ k \notin armed)
    <3>1. Holding(j)' = Holding(j)
      BY <1>2, <2>2 DEF Holding
    <3> QED BY <1>2, <3>1 DEF EpisodeInv, Episode
  <2> QED BY <2>1, <2>2
<1> QED BY <1>1, <1>2, <1>3 DEF EpisodeInv

(* The arming: one who holds k becomes one proposal of it.                 *)
LEMMA ArmKeeps ==
  ASSUME PatchAssumption, EpisodeInv, NEW t \in Ticker, Arm(t)
  PROVE  EpisodeInv'
<1>1. PICK k \in ticks[t].found :
        /\ armed' = armed \cup {k}
        /\ patches' = Append(patches, [key |-> k, stage |-> "named", verdicts |-> 0])
        /\ breach' = [breach EXCEPT ![k] = @ + 1]
  BY DEF Arm
<1>2. k \in Key
  BY <1>1 DEF EpisodeInv, EpisodeTypes
<1>3. ticks' = [ticks EXCEPT ![t] = [ticks[t] EXCEPT !.found = {}, !.out = Append(@, Len(patches) + 1)]]
  BY DEF Arm, Becomes
<1>4. LET tick == [ticks[t] EXCEPT !.found = {}, !.out = Append(@, Len(patches) + 1)]
      IN  "found" \in DOMAIN tick /\ tick.found = {}
  BY DEF EpisodeInv, EpisodeTypes
<1>5. /\ ticks'[t].found = {} /\ "found" \in DOMAIN ticks'[t] /\ DOMAIN ticks' = Ticker
      /\ \A u \in Ticker \ {t} : ticks'[u] = ticks[u]
  BY <1>3, <1>4 DEF EpisodeInv, EpisodeTypes
<1>6. EpisodeTypes'
  <2>1. breach' \in [Key -> Nat]
    BY <1>1, <1>2 DEF EpisodeInv, EpisodeTypes
  <2>2. \A u \in Ticker : "found" \in DOMAIN ticks'[u] /\ ticks'[u].found \subseteq Key
    <3> TAKE u \in Ticker
    <3>1. CASE u = t
      BY <1>5, <3>1
    <3>2. CASE u # t
      BY <1>5, <3>2 DEF EpisodeInv, EpisodeTypes
    <3> QED BY <3>1, <3>2
  <2> QED BY <1>5, <2>1, <2>2 DEF EpisodeTypes
<1>7. /\ ticks'[t].found = {}
      /\ \A u \in Ticker \ {t} : ticks'[u] = ticks[u]
  BY <1>5
<1>8. \A j \in ticks[t].found : j = k
  BY <1>1 DEF EpisodeInv
<1>9. \A j \in Key : Episode(j)'
  <2> TAKE j \in Key
  <2>1. CASE j = k
    <3>1. Holding(k)' = Holding(k) \ {t} /\ t \in Holding(k)
      BY <1>1, <1>7 DEF Holding
    <3>2. IsFiniteSet(Holding(k)) /\ Cardinality(Holding(k)) \in Nat /\ Cardinality(Ticker) \in Nat
      BY HoldingBound DEF Holding
    <3>3. Cardinality(Holding(k)') = Cardinality(Holding(k)) - 1
      BY <3>1, <3>2, FS_RemoveElement
    <3>4. breach'[k] = breach[k] + 1 /\ breach[k] \in Nat /\ k \in armed'
      BY <1>1, <1>2 DEF EpisodeInv, EpisodeTypes
    <3>5. breach[k] + Cardinality(Holding(k)) <= Cardinality(Ticker)
      BY <1>2 DEF EpisodeInv, Episode
    <3> QED BY <2>1, <3>2, <3>3, <3>4, <3>5 DEF Episode
  <2>2. CASE j # k
    <3>1. Holding(j)' = Holding(j)
      BY <1>7, <1>8, <2>2 DEF Holding
    <3>2. breach'[j] = breach[j] /\ (j \in armed' <=> j \in armed)
      BY <1>1, <2>2 DEF EpisodeInv, EpisodeTypes
    <3> QED BY <3>1, <3>2 DEF EpisodeInv, Episode
  <2> QED BY <2>1, <2>2
<1> QED BY <1>6, <1>7, <1>9 DEF EpisodeInv

(* The pipeline's and the bridge's steps keep the types.                   *)
LEMMA PipelineTypes ==
  ASSUME EpisodeTypes, NEW t \in Ticker,
         \/ Propose(t) \/ EvidenceRaises(t) \/ StageRecords(t) \/ StageAdvances(t)
         \/ StageFails(t) \/ StageRaises(t) \/ Approve(t)
  PROVE  EpisodeTypes' /\ UNCHANGED <<armed, breach>>
         /\ ticks[t].found = {} /\ ticks'[t].found = {}
         /\ \A u \in Ticker \ {t} : ticks'[u] = ticks[u]
<1> DEFINE Clear(tick) == "found" \in DOMAIN tick /\ tick.found = {}
<1>1. Clear(ticks[t]) /\ UNCHANGED <<armed, breach>>
  BY DEF EpisodeTypes, Propose, EvidenceRaises, StageRecords, StageAdvances, StageFails, StageRaises,
         Approve, Running, AtStage
<1>2. /\ \A run : Clear([ticks[t] EXCEPT !.run = run]) /\ Clear([ticks[t] EXCEPT !.run = run, !.noted = FALSE])
      /\ Clear([ticks[t] EXCEPT !.noted = TRUE])
  BY <1>1
<1>3. Clear([ticks[t] EXCEPT !.out = Tail(@), !.run = 0, !.noted = FALSE]) /\ Clear(Idle)
  BY <1>1 DEF Idle
<1>4. \E tick : Becomes(t, tick) /\ Clear(tick)
  <2> HIDE DEF Clear
  <2> QED BY <1>2, <1>3 DEF Propose, EvidenceRaises, StageRecords, StageAdvances, StageFails, StageRaises,
        Approve, TickRaises, RunEnds
<1>5. PICK tick : Becomes(t, tick) /\ Clear(tick)
  BY <1>4
<1>6. /\ DOMAIN ticks' = Ticker /\ ticks'[t] = tick
      /\ \A u \in Ticker \ {t} : ticks'[u] = ticks[u]
  BY <1>5 DEF Becomes, EpisodeTypes
<1> QED BY <1>1, <1>5, <1>6 DEF EpisodeTypes

LEMMA EpisodeInductive ==
  ASSUME PatchAssumption, EpisodeInv, [PatchNext]_patchVars
  PROVE  EpisodeInv'
<1>0. EpisodeTypes
  BY DEF EpisodeInv
<1>1. ASSUME NEW t \in Ticker, PatchTick(t) PROVE EpisodeInv'
  <2>1. ticks[t].found = {} /\ [Idle EXCEPT !.left = Strategy].found = {}
        /\ "found" \in DOMAIN [Idle EXCEPT !.left = Strategy]
    BY <1>1 DEF PatchTick, Idle
  <2>2. EpisodeTypes'
    BY <1>0, <1>1, <2>1 DEF PatchTick, Becomes, EpisodeTypes
  <2>3. \A u \in Ticker : ticks'[u].found = ticks[u].found
    BY <1>0, <1>1, <2>1 DEF PatchTick, Becomes, EpisodeTypes
  <2> QED BY <1>1, <2>2, <2>3, OtherSteps DEF PatchTick
<1>2. ASSUME NEW t \in Ticker, NEW s \in Strategy, Evaluate(t, s) PROVE EpisodeInv'
  <2>2. EpisodeTypes'
    BY <1>0, <1>2 DEF Evaluate, Becomes, EpisodeTypes
  <2>3. \A u \in Ticker : ticks'[u].found = ticks[u].found
    BY <1>0, <1>2 DEF Evaluate, Becomes, EpisodeTypes
  <2> QED BY <1>2, <2>2, <2>3, OtherSteps DEF Evaluate
<1>3. ASSUME NEW t \in Ticker, NEW s \in Strategy, TooFew(t, s) PROVE EpisodeInv'
  <2>1. KeysOf(s) \subseteq Key
    BY DEF KeysOf, Key
  <2> QED BY <1>3, <2>1, DisarmKeeps DEF TooFew
<1>4. ASSUME NEW t \in Ticker, NEW k \in Key, Recovered(t, k) PROVE EpisodeInv'
  BY <1>4, DisarmKeeps DEF Recovered
<1>5. ASSUME NEW t \in Ticker, NEW k \in Key, Below(t, k) PROVE EpisodeInv'
  BY <1>5, BelowKeeps
<1>6. ASSUME NEW t \in Ticker, Arm(t) PROVE EpisodeInv'
  BY <1>6, ArmKeeps
<1>7. ASSUME NEW t \in Ticker,
             \/ Propose(t) \/ EvidenceRaises(t) \/ StageRecords(t) \/ StageAdvances(t)
             \/ StageFails(t) \/ StageRaises(t) \/ Approve(t)
      PROVE  EpisodeInv'
  <2>1. /\ EpisodeTypes' /\ UNCHANGED <<armed, breach>>
        /\ ticks[t].found = {} /\ ticks'[t].found = {}
        /\ \A u \in Ticker \ {t} : ticks'[u] = ticks[u]
    BY <1>0, <1>7, PipelineTypes
  <2> QED BY <2>1, OtherSteps
<1>8. ASSUME NEW r, NEW p, NEW decision, Review(r, p, decision) PROVE EpisodeInv'
  BY <1>0, <1>8, OtherSteps DEF Review, EpisodeTypes
<1>9. ASSUME NEW a, Listed(a) PROVE EpisodeInv'
  BY <1>0, <1>9, OtherSteps DEF Listed, EpisodeTypes
<1>10. CASE UNCHANGED patchVars
  BY <1>0, <1>10, OtherSteps DEF patchVars, EpisodeTypes
<1> QED BY <1>1, <1>2, <1>3, <1>4, <1>5, <1>6, <1>7, <1>8, <1>9, <1>10 DEF PatchNext

(* mutation_proposer.py: one proposal an episode, but for the ticks that   *)
(* looked at the key before the first of them armed it.                    *)
THEOREM OneProposalAnEpisode == PatchSpec => []OncePerBreach
<1>1. PatchInit => EpisodeInv
  BY PatchAssumption, EpisodeInit
<1>2. EpisodeInv /\ [PatchNext]_patchVars => EpisodeInv'
  BY PatchAssumption, EpisodeInductive
<1>3. EpisodeInv => OncePerBreach
  <2> SUFFICES ASSUME EpisodeInv, NEW k \in Key PROVE breach[k] <= Cardinality(Ticker)
    BY DEF OncePerBreach
  <2>1. Cardinality(Holding(k)) \in Nat /\ Cardinality(Ticker) \in Nat
    BY PatchAssumption, HoldingBound DEF Holding
  <2>2. breach[k] \in Nat /\ breach[k] + Cardinality(Holding(k)) <= Cardinality(Ticker)
    BY DEF EpisodeInv, EpisodeTypes, Episode
  <2> QED BY <2>1, <2>2
<1> QED BY <1>1, <1>2, <1>3, PTL DEF PatchSpec

-----------------------------------------------------------------------------
(* What the bridge decided is what became of the patch: what each run may  *)
(* have in hand, then what the list says of a patch.                       *)

\* Where a patch in its r-th stage can be, a reviewer having settled it or not.
RunStage(r) == {Chain[r], "REJECTED", "ROLLED_BACK"}

\* A proposal that has not been run.
Untouched(p) == patches[p].stage = "named" /\ patches[p].verdicts = 0

\* The verdicts of the patch that runs.
Noted(tick) == IF tick.noted THEN tick.run ELSE tick.run - 1

\* The proposals of one tick, all different: what is still to come is untouched,
\* the one that runs has a verdict for each stage it passed.
OutOK(t) ==
  LET tick == ticks[t]
  IN /\ tick.run # 0 => tick.out # <<>> /\ tick.look = {} /\ tick.found = {}
     /\ \A i \in DOMAIN tick.out : /\ tick.out[i] \in DOMAIN patches
                                   /\ (i # 1 \/ tick.run = 0) => Untouched(tick.out[i])
     /\ \A i, j \in DOMAIN tick.out : tick.out[i] = tick.out[j] => i = j
     /\ tick.run \in {0, 6} => ~ tick.noted
     /\ tick.run # 0 => /\ patches[tick.out[1]].verdicts = Noted(tick)
                        /\ patches[tick.out[1]].stage \in RunStage(tick.run)

Holds(t, p) == \E i \in DOMAIN ticks[t].out : ticks[t].out[i] = p

LineInv == /\ PatchTypeOK
           /\ \A t \in Ticker : OutOK(t)
           /\ \A t, u \in Ticker, p \in DOMAIN patches : Holds(t, p) /\ Holds(u, p) => t = u

\* The decisions made about a patch: listed, or owed to the list.
ListedAt(p, d) == {i \in DOMAIN decisions : decisions[i] = Entry(p, d)}
OwedBy(p, d) == {a \in Actor : owed[a] = Entry(p, d)}
Made(p, d) == Cardinality(ListedAt(p, d)) + Cardinality(OwedBy(p, d))

\* DecisionsTellStages of one patch and one decision; what was approved is in no
\* tick's hands any more, so it keeps its verdicts.
Told(p, d) ==
  /\ Made(p, d) <= 1
  /\ p \in DOMAIN patches /\ patches[p].stage = d => Made(p, d) = 1
  /\ Made(p, d) = 1 => /\ p \in DOMAIN patches
                       /\ patches[p].stage = d \/ (d = "APPROVED" /\ patches[p].stage = "ROLLED_BACK")
                       /\ d = "APPROVED" => /\ patches[p].verdicts = 5
                                            /\ \A t \in Ticker : ~ Holds(t, p)

AllTold == \A p \in Nat, d \in Decision : Told(p, d)

DecisionInv == LineInv /\ AllTold

(* One element of a sequence replaced.                                     *)
LEMMA SeqEdit ==
  ASSUME NEW S, NEW s \in Seq(S), NEW i \in DOMAIN s, NEW x \in S
  PROVE  /\ [s EXCEPT ![i] = x] \in Seq(S) /\ DOMAIN [s EXCEPT ![i] = x] = DOMAIN s
         /\ [s EXCEPT ![i] = x][i] = x
         /\ \A j \in DOMAIN s \ {i} : [s EXCEPT ![i] = x][j] = s[j]
<1>1. Len(s) \in Nat /\ s \in [1 .. Len(s) -> S]
  OBVIOUS
<1>2. [s EXCEPT ![i] = x] \in [1 .. Len(s) -> S]
  BY <1>1
<1> QED BY <1>1, <1>2

LEMMA SeqAppend ==
  ASSUME NEW S, NEW s \in Seq(S), NEW x \in S
  PROVE  /\ Append(s, x) \in Seq(S) /\ DOMAIN Append(s, x) = DOMAIN s \cup {Len(s) + 1}
         /\ Len(s) + 1 \notin DOMAIN s /\ Append(s, x)[Len(s) + 1] = x
         /\ Len(s) \in Nat /\ DOMAIN s = 1 .. Len(s)
         /\ \A j \in DOMAIN s : Append(s, x)[j] = s[j]
OBVIOUS

LEMMA SeqTail ==
  ASSUME NEW S, NEW s \in Seq(S), s # <<>>
  PROVE  /\ Tail(s) \in Seq(S) /\ 1 \in DOMAIN s /\ Head(s) = s[1]
         /\ \A j \in DOMAIN Tail(s) : j + 1 \in DOMAIN s /\ j + 1 # 1 /\ Tail(s)[j] = s[j + 1] /\ j \in Nat
OBVIOUS

LEMMA ChainFacts ==
  /\ DOMAIN Chain = 1 .. 6 /\ Len(Chain) = 6
  /\ \A r \in 1 .. 6 : Chain[r] \in PatchStage /\ Chain[r] \notin Decision /\ Chain[r] # "named"
  /\ \A r, q \in 1 .. 6 : Chain[r] = Chain[q] => r = q
  /\ Chain[1] = "PROPOSED" /\ Chain[6] = "CANARY"
  /\ Decision \subseteq PatchStage
  /\ \A r \in 1 .. 5 : Append(Chain, "APPROVED")[r + 1] = Chain[r + 1]
  /\ Append(Chain, "APPROVED")[7] = "APPROVED"
<1>1. DOMAIN Chain = 1 .. 6 /\ Len(Chain) = 6
  BY DEF Chain
<1>2. \A r \in 1 .. 6 : r = 1 \/ r = 2 \/ r = 3 \/ r = 4 \/ r = 5 \/ r = 6
  OBVIOUS
<1>3. /\ Chain[1] = "PROPOSED" /\ Chain[2] = "SANDBOX" /\ Chain[3] = "STATIC_ANALYSIS"
      /\ Chain[4] = "BACKTEST" /\ Chain[5] = "SHADOW" /\ Chain[6] = "CANARY"
  BY DEF Chain
<1>4. \A r \in 1 .. 6 : Chain[r] \notin Decision /\ Chain[r] # "named"
  BY <1>2, <1>3 DEF Decision
<1>5. \A r, q \in 1 .. 6 : Chain[r] = Chain[q] => r = q
  BY <1>2, <1>3
<1>6. \A r \in 1 .. 6 : Chain[r] \in PatchStage
  BY <1>1 DEF PatchStage
<1>7. /\ \A r \in 1 .. 5 : Append(Chain, "APPROVED")[r + 1] = Chain[r + 1]
      /\ Append(Chain, "APPROVED")[7] = "APPROVED"
  BY DEF Chain
<1> QED BY <1>1, <1>3, <1>4, <1>5, <1>6, <1>7 DEF PatchStage

(* The table: what has ended stays, but for the rollback of what was       *)
(* approved; a stage leads to the next one.                                *)
LEMMA LegalFacts ==
  ASSUME NEW p, NEW new, NEW r \in 1 .. 6
  PROVE  /\ Legal(p, new) => patches[p].stage # "named"
         /\ Legal(p, new) /\ patches[p].stage \in Decision
              => patches[p].stage = "APPROVED" /\ new = "ROLLED_BACK"
         /\ Legal(p, new) /\ patches[p].stage \in RunStage(r) => patches[p].stage = Chain[r]
<1>1. \A i \in 1 .. Len(Chain) : Chain[i] \notin Decision /\ Chain[i] # "named"
  BY ChainFacts
<1>2. "CANARY" \notin Decision /\ "named" \notin {"CANARY", "APPROVED"}
  BY DEF Decision
<1>3. patches[p].stage \in RunStage(r) => patches[p].stage = Chain[r] \/ patches[p].stage \in Decision \ {"APPROVED"}
  BY DEF RunStage, Decision
<1> QED BY <1>1, <1>2, <1>3 DEF Legal, Decision

\* The records of PatchTypeOK.
Tick == [left : SUBSET Strategy, look : SUBSET Key, found : SUBSET Key, out : Seq(Nat), run : 0 .. 6,
         noted : BOOLEAN]
Owing == [patch : Nat, decision : Decision] \cup {Nothing}

\* What a run that goes on leaves of its tick, and a line whose run has ended.
OnTick(tick, new, r) == /\ new \in Tick /\ new.out = tick.out /\ new.run = r
                        /\ new.look = tick.look /\ new.found = tick.found
WithLine(tick, o) == [tick EXCEPT !.out = o, !.run = 0, !.noted = FALSE]

LEMMA Edits ==
  /\ \A tick \in Tick, o \in Seq(Nat) :
       /\ WithLine(tick, o) \in Tick /\ WithLine(tick, o).out = o /\ WithLine(tick, o).run = 0
       /\ ~ WithLine(tick, o).noted
  /\ \A tick \in Tick, r \in 0 .. 6 :
       /\ OnTick(tick, [tick EXCEPT !.run = r], r)
       /\ [tick EXCEPT !.run = r].noted = tick.noted
  /\ \A tick \in Tick, r \in 0 .. 6 :
       /\ OnTick(tick, [tick EXCEPT !.run = r, !.noted = FALSE], r)
       /\ ~ [tick EXCEPT !.run = r, !.noted = FALSE].noted
  /\ \A tick \in Tick :
       /\ OnTick(tick, [tick EXCEPT !.noted = TRUE], tick.run)
       /\ [tick EXCEPT !.noted = TRUE].noted
<1>1. 0 \in 0 .. 6
  OBVIOUS
<1>2. \A tick \in Tick, o \in Seq(Nat) :
       /\ WithLine(tick, o) \in Tick /\ WithLine(tick, o).out = o /\ WithLine(tick, o).run = 0
       /\ ~ WithLine(tick, o).noted
  BY <1>1 DEF Tick, WithLine
<1>3. \A tick \in Tick, r \in 0 .. 6 :
       /\ OnTick(tick, [tick EXCEPT !.run = r], r)
       /\ [tick EXCEPT !.run = r].noted = tick.noted
  BY DEF Tick, OnTick
<1>4. \A tick \in Tick, r \in 0 .. 6 :
       /\ OnTick(tick, [tick EXCEPT !.run = r, !.noted = FALSE], r)
       /\ ~ [tick EXCEPT !.run = r, !.noted = FALSE].noted
  BY DEF Tick, OnTick
<1>5. \A tick \in Tick :
       /\ OnTick(tick, [tick EXCEPT !.noted = TRUE], tick.run)
       /\ [tick EXCEPT !.noted = TRUE].noted
  BY DEF Tick, OnTick
<1> QED BY <1>2, <1>3, <1>4, <1>5

LEMMA TickTypes ==
  ASSUME PatchTypeOK, NEW t \in Ticker
  PROVE  /\ ticks[t] \in Tick /\ Idle \in Tick
         /\ ticks[t].left \subseteq Strategy /\ ticks[t].look \subseteq Key
         /\ ticks[t].found \subseteq Key /\ ticks[t].out \in Seq(Nat) /\ ticks[t].run \in 0 .. 6
         /\ ticks[t].noted \in BOOLEAN
         /\ \A new \in Tick : Becomes(t, new) =>
              /\ ticks' \in [Ticker -> Tick] /\ ticks'[t] = new
              /\ \A u \in Ticker \ {t} : ticks'[u] = ticks[u]
<1>1. ticks \in [Ticker -> Tick] /\ Idle \in Tick
  BY DEF PatchTypeOK, Tick, Idle
<1>2. ticks[t] \in Tick
  BY <1>1
<1>3. /\ ticks[t].left \subseteq Strategy /\ ticks[t].look \subseteq Key
      /\ ticks[t].found \subseteq Key /\ ticks[t].out \in Seq(Nat) /\ ticks[t].run \in 0 .. 6
      /\ ticks[t].noted \in BOOLEAN
  BY <1>2 DEF Tick
<1> QED BY <1>1, <1>2, <1>3 DEF Becomes

(* Where one ticker moves and only a patch it holds, or a new one, is      *)
(* written, the others' proposals are as they were.                        *)
LEMMA MoveKeepsLine ==
  ASSUME LineInv, PatchTypeOK', NEW t \in Ticker, OutOK(t)',
         \A u \in Ticker \ {t} : ticks'[u] = ticks[u],
         DOMAIN patches \subseteq DOMAIN patches',
         \A p \in DOMAIN patches : ~ Holds(t, p) => patches'[p] = patches[p],
         \A p \in DOMAIN patches : Holds(t, p)' => Holds(t, p)
  PROVE  LineInv'
<1>1. ASSUME NEW u \in Ticker \ {t} PROVE OutOK(u)'
  <2>1. \A i \in DOMAIN ticks[u].out : /\ ticks[u].out[i] \in DOMAIN patches
                                       /\ patches'[ticks[u].out[i]] = patches[ticks[u].out[i]]
    BY DEF LineInv, OutOK, Holds
  <2>2. OutOK(u) /\ ticks'[u] = ticks[u]
    BY DEF LineInv
  <2>3. ticks[u].run # 0 => 1 \in DOMAIN ticks[u].out
    BY <2>2, TickTypes DEF OutOK, LineInv
  <2> QED BY <2>1, <2>2, <2>3 DEF OutOK, Untouched, Noted
<1>2. ASSUME NEW u \in Ticker \ {t}, NEW p, Holds(u, p)' PROVE p \in DOMAIN patches /\ Holds(u, p)
  BY <1>2 DEF LineInv, OutOK, Holds
<1>3. ASSUME NEW u \in Ticker, NEW v \in Ticker, NEW p, Holds(u, p)', Holds(v, p)' PROVE u = v
  <2>1. CASE u = t /\ v = t
    BY <2>1
  <2>2. CASE u # t
    <3>1. p \in DOMAIN patches /\ Holds(u, p)
      BY <1>2, <1>3, <2>2
    <3>2. Holds(v, p)
      BY <1>2, <1>3, <3>1
    <3> QED BY <3>1, <3>2 DEF LineInv
  <2>3. CASE v # t
    <3>1. p \in DOMAIN patches /\ Holds(v, p)
      BY <1>2, <1>3, <2>3
    <3>2. Holds(u, p)
      BY <1>2, <1>3, <3>1
    <3> QED BY <3>1, <3>2 DEF LineInv
  <2> QED BY <2>1, <2>2, <2>3
<1> QED BY <1>1, <1>3 DEF LineInv

(* Steps that leave the tick's proposals alone, and what they are.         *)
LEMMA QuietKeepsLine ==
  ASSUME LineInv, PatchTypeOK', NEW t \in Ticker, UNCHANGED patches,
         \A u \in Ticker \ {t} : ticks'[u] = ticks[u],
         ticks'[t].out = ticks[t].out, ticks[t].run = 0, ticks'[t].run = 0, ~ ticks'[t].noted
  PROVE  LineInv'
<1>1. OutOK(t)'
  BY DEF LineInv, OutOK, Untouched
<1> QED BY <1>1, MoveKeepsLine DEF Holds

(* A tick that ends: everything it held is left as it is.                  *)
LEMMA RaiseKeepsLine ==
  ASSUME LineInv, PatchTypeOK', NEW t \in Ticker,
         TickRaises(t), DOMAIN patches' = DOMAIN patches,
         \A p \in DOMAIN patches : ~ Holds(t, p) => patches'[p] = patches[p]
  PROVE  LineInv'
<1>1. ticks'[t] = Idle /\ \A u \in Ticker \ {t} : ticks'[u] = ticks[u]
  BY DEF LineInv, PatchTypeOK, TickRaises, Becomes
<1>2. ticks'[t].out = <<>> /\ ticks'[t].run = 0 /\ ~ ticks'[t].noted /\ DOMAIN ticks'[t].out = {}
  BY <1>1 DEF Idle
<1> QED BY <1>1, <1>2, MoveKeepsLine DEF OutOK, Holds

(* The proposer's steps.                                                   *)
LEMMA ProposerLine ==
  ASSUME PatchAssumption, LineInv, NEW t \in Ticker,
         \/ PatchTick(t)
         \/ \E s \in Strategy : Evaluate(t, s) \/ TooFew(t, s)
         \/ \E k \in Key : Recovered(t, k) \/ Below(t, k)
  PROVE  LineInv' /\ UNCHANGED <<patches, decisions, owed>>
         /\ \A u \in Ticker : ticks'[u].out = ticks[u].out
<1> DEFINE Quiet(new) == new \in Tick /\ new.out = ticks[t].out /\ new.run = 0 /\ ~ new.noted
<1>0. PatchTypeOK /\ OutOK(t) /\ ticks[t] \in Tick
  BY TickTypes DEF LineInv
<1>1. \A s \in Strategy : KeysOf(s) \subseteq Key
  BY DEF KeysOf, Key
<1>2. ASSUME NEW new, Becomes(t, new), Quiet(new), ticks[t].run = 0,
             armed' \subseteq Key, breach' \in [Key -> Nat], UNCHANGED <<patches, decisions, owed>>
      PROVE  LineInv' /\ UNCHANGED <<patches, decisions, owed>>
             /\ \A u \in Ticker : ticks'[u].out = ticks[u].out
  <2>1. /\ ticks' \in [Ticker -> Tick] /\ ticks'[t] = new
        /\ \A u \in Ticker \ {t} : ticks'[u] = ticks[u]
    BY <1>0, <1>2, TickTypes
  <2>2. PatchTypeOK'
    BY <1>0, <1>2, <2>1 DEF PatchTypeOK, Tick
  <2> QED BY <1>2, <2>1, <2>2, QuietKeepsLine
<1>3. \A l \in SUBSET Key, k \in SUBSET Key, f \in SUBSET Strategy :
        ticks[t].run = 0 /\ ~ ticks[t].noted =>
          Quiet([ticks[t] EXCEPT !.left = f, !.look = l]) /\ Quiet([ticks[t] EXCEPT !.look = l])
            /\ Quiet([ticks[t] EXCEPT !.look = l, !.found = k])
  BY <1>0 DEF Tick
<1>4. /\ ticks[t].look \subseteq Key /\ armed \subseteq Key /\ breach \in [Key -> Nat]
      /\ ticks[t].left \subseteq Strategy /\ (ticks[t].run # 0 => ticks[t].out # <<>> /\ ticks[t].look = {})
      /\ (ticks[t].run = 0 => ~ ticks[t].noted)
  BY <1>0, TickTypes DEF PatchTypeOK, OutOK
<1>5. CASE PatchTick(t)
  <2> DEFINE new == [Idle EXCEPT !.left = Strategy]
  <2>1. Idle \in Tick /\ Idle.out = <<>> /\ Idle.run = 0 /\ ~ Idle.noted
    BY <1>0, TickTypes DEF Idle
  <2>2. ticks[t].run = 0 /\ ticks[t].out = <<>>
    BY <1>5, <2>1 DEF PatchTick
  <2>3. Quiet(new)
    BY <2>1, <2>2 DEF Tick
  <2>4. Becomes(t, new) /\ UNCHANGED <<armed, breach, patches, decisions, owed>>
    BY <1>5 DEF PatchTick
  <2> HIDE DEF new, Quiet
  <2> QED BY <1>2, <1>4, <2>2, <2>3, <2>4
<1>6. ASSUME NEW s \in Strategy, Evaluate(t, s)
      PROVE  LineInv' /\ UNCHANGED <<patches, decisions, owed>>
             /\ \A u \in Ticker : ticks'[u].out = ticks[u].out
  <2>1. ticks[t].run = 0 /\ UNCHANGED <<armed, breach, patches, decisions, owed>>
    BY <1>4, <1>6 DEF Evaluate
  <2>2. Becomes(t, [ticks[t] EXCEPT !.left = @ \ {s}, !.look = KeysOf(s)])
    BY <1>6 DEF Evaluate
  <2>3. Quiet([ticks[t] EXCEPT !.left = @ \ {s}, !.look = KeysOf(s)])
    <3> HIDE DEF Quiet
    <3> QED BY <1>1, <1>3, <1>4, <2>1
  <2> HIDE DEF Quiet
  <2> QED BY <1>2, <1>4, <2>1, <2>2, <2>3
<1>7. ASSUME NEW keys \in SUBSET Key, Disarm(t, keys), ticks[t].run = 0
      PROVE  LineInv' /\ UNCHANGED <<patches, decisions, owed>>
             /\ \A u \in Ticker : ticks'[u].out = ticks[u].out
  <2>1. armed' \subseteq Key /\ breach' \in [Key -> Nat] /\ UNCHANGED <<patches, decisions, owed>>
    BY <1>4, <1>7 DEF Disarm
  <2>2. Becomes(t, [ticks[t] EXCEPT !.look = @ \ keys])
    BY <1>7 DEF Disarm
  <2>3. Quiet([ticks[t] EXCEPT !.look = @ \ keys])
    <3> HIDE DEF Quiet
    <3> QED BY <1>3, <1>4, <1>7
  <2> HIDE DEF Quiet
  <2> QED BY <1>2, <2>1, <2>2, <2>3, <1>7
<1>8. ASSUME NEW s \in Strategy, TooFew(t, s)
      PROVE  LineInv' /\ UNCHANGED <<patches, decisions, owed>>
             /\ \A u \in Ticker : ticks'[u].out = ticks[u].out
  BY <1>1, <1>4, <1>7, <1>8 DEF TooFew
<1>9. ASSUME NEW k \in Key, Recovered(t, k)
      PROVE  LineInv' /\ UNCHANGED <<patches, decisions, owed>>
             /\ \A u \in Ticker : ticks'[u].out = ticks[u].out
  BY <1>4, <1>7, <1>9 DEF Recovered
<1>10. ASSUME NEW k \in Key, Below(t, k)
       PROVE  LineInv' /\ UNCHANGED <<patches, decisions, owed>>
              /\ \A u \in Ticker : ticks'[u].out = ticks[u].out
  <2>1. ticks[t].run = 0 /\ UNCHANGED <<armed, breach, patches, decisions, owed>>
    BY <1>4, <1>10 DEF Below
  <2>2. Becomes(t, [ticks[t] EXCEPT !.look = @ \ {k}, !.found = {k} \ armed])
    BY <1>10 DEF Below
  <2>3. Quiet([ticks[t] EXCEPT !.look = @ \ {k}, !.found = {k} \ armed])
    <3> HIDE DEF Quiet
    <3> QED BY <1>3, <1>4, <2>1
  <2> HIDE DEF Quiet
  <2> QED BY <1>2, <1>4, <2>1, <2>2, <2>3
<1> QED BY <1>5, <1>6, <1>8, <1>9, <1>10

(* The arming: a new patch, untouched, at the end of the ticker's line.    *)
LEMMA ArmLine ==
  ASSUME LineInv, NEW t \in Ticker, Arm(t)
  PROVE  /\ LineInv' /\ DOMAIN patches \subseteq DOMAIN patches' /\ UNCHANGED <<decisions, owed>>
         /\ \A p \in DOMAIN patches : patches'[p] = patches[p]
         /\ \A p \in DOMAIN patches' \ DOMAIN patches : patches'[p].stage = "named"
         /\ \A u \in Ticker, p \in DOMAIN patches : Holds(u, p)' => Holds(u, p)
<1>0. PatchTypeOK /\ OutOK(t) /\ ticks[t] \in Tick /\ ticks[t].out \in Seq(Nat)
      /\ ticks[t].found \subseteq Key /\ patches \in Seq(Patch)
  BY TickTypes DEF LineInv, PatchTypeOK
<1>1. PICK k \in ticks[t].found :
        /\ armed' = armed \cup {k}
        /\ patches' = Append(patches, [key |-> k, stage |-> "named", verdicts |-> 0])
        /\ breach' = [breach EXCEPT ![k] = @ + 1]
  BY DEF Arm
<1>2. k \in Key /\ ticks[t].run = 0 /\ ~ ticks[t].noted
  BY <1>0, <1>1 DEF OutOK
<1>3. [key |-> k, stage |-> "named", verdicts |-> 0] \in Patch
  BY <1>2 DEF Patch, PatchStage
<1> DEFINE id == Len(patches) + 1
           new == [ticks[t] EXCEPT !.found = {}, !.out = Append(@, id)]
<1>4. /\ patches' \in Seq(Patch) /\ DOMAIN patches' = DOMAIN patches \cup {id} /\ id \notin DOMAIN patches
      /\ patches'[id] = [key |-> k, stage |-> "named", verdicts |-> 0] /\ id \in Nat
      /\ \A p \in DOMAIN patches : patches'[p] = patches[p]
  BY <1>0, <1>1, <1>3, SeqAppend
<1> HIDE DEF id
<1> DEFINE line == ticks[t].out
           longer == Append(line, id)
<1>5. line \in Seq(Nat)
  BY <1>0
<1> HIDE DEF line
<1>6. /\ longer \in Seq(Nat) /\ DOMAIN longer = DOMAIN line \cup {Len(line) + 1}
      /\ Len(line) + 1 \notin DOMAIN line /\ longer[Len(line) + 1] = id
      /\ \A i \in DOMAIN line : longer[i] = line[i]
  BY <1>4, <1>5, SeqAppend
<1>7. new \in Tick /\ new.out = longer /\ new.run = 0 /\ ~ new.noted /\ Becomes(t, new)
  BY <1>0, <1>2, <1>6 DEF Tick, Arm, id, line
<1> HIDE DEF new, longer
<1>8. /\ ticks' \in [Ticker -> Tick] /\ ticks'[t] = new
      /\ \A u \in Ticker \ {t} : ticks'[u] = ticks[u]
  BY <1>0, <1>7, TickTypes
<1>9. PatchTypeOK'
  <2>1. armed' \subseteq Key /\ breach' \in [Key -> Nat] /\ decisions' = decisions /\ owed' = owed
    BY <1>0, <1>1, <1>2 DEF PatchTypeOK, Arm
  <2> QED BY <1>0, <1>4, <1>8, <2>1 DEF PatchTypeOK, Tick
<1>10. OutOK(t)'
  <2>1. \A i \in DOMAIN line : line[i] \in DOMAIN patches /\ patches[line[i]].stage = "named"
                                /\ patches[line[i]].verdicts = 0
    BY <1>0, <1>2 DEF OutOK, Untouched, line
  <2>2. \A i \in DOMAIN longer : /\ longer[i] \in DOMAIN patches' /\ patches'[longer[i]].stage = "named"
                                 /\ patches'[longer[i]].verdicts = 0
    <3> TAKE i \in DOMAIN longer
    <3>1. CASE i \in DOMAIN line
      BY <1>4, <1>6, <2>1, <3>1
    <3>2. CASE i = Len(line) + 1
      BY <1>4, <1>6, <3>2
    <3> QED BY <1>6, <3>1, <3>2
  <2>3. \A i, j \in DOMAIN line : line[i] = line[j] => i = j
    BY <1>0 DEF OutOK, line
  <2>4. \A i, j \in DOMAIN longer : longer[i] = longer[j] => i = j
    BY <1>4, <1>6, <2>1, <2>3
  <2> QED BY <1>7, <1>8, <2>2, <2>4 DEF OutOK, Untouched
<1>11. \A p \in DOMAIN patches : Holds(t, p)' => Holds(t, p)
  <2> SUFFICES ASSUME NEW p \in DOMAIN patches, Holds(t, p)' PROVE \E i \in DOMAIN line : line[i] = p
    BY DEF Holds, line
  <2>1. ticks'[t].out = longer
    BY <1>7, <1>8
  <2>2. PICK i \in DOMAIN longer : longer[i] = p
    BY <2>1 DEF Holds
  <2> QED BY <1>4, <1>6, <2>2
<1>12. LineInv'
  BY <1>4, <1>8, <1>9, <1>10, <1>11, MoveKeepsLine
<1>13. \A u \in Ticker, p \in DOMAIN patches : Holds(u, p)' => Holds(u, p)
  BY <1>8, <1>11 DEF Holds
<1> QED BY <1>4, <1>12, <1>13 DEF Arm

(* The run of the first patch of the line ends and nothing else of the line *)
(* is touched.                                                             *)
LEMMA EndsKeepsLine ==
  ASSUME LineInv, PatchTypeOK', NEW t \in Ticker, Running(t), RunEnds(t),
         NEW q, q = Current(t), DOMAIN patches' = DOMAIN patches,
         \A p \in DOMAIN patches \ {q} : patches'[p] = patches[p]
  PROVE  LineInv' /\ Holds(t, q) /\ ~ Holds(t, q)'
         /\ \A u \in Ticker, p \in DOMAIN patches : Holds(u, p)' => Holds(u, p)
<1>0. PatchTypeOK /\ OutOK(t) /\ ticks[t] \in Tick /\ ticks[t].out \in Seq(Nat)
      /\ ticks[t].out # <<>> /\ ticks \in [Ticker -> Tick]
  BY TickTypes DEF LineInv, Running, PatchTypeOK, Tick
<1> DEFINE line == ticks[t].out
           rest == Tail(line)
           new == WithLine(ticks[t], rest)
<1>1. line \in Seq(Nat) /\ line # <<>> /\ q = Head(line)
  BY <1>0 DEF Current
<1> HIDE DEF line
<1>2. /\ rest \in Seq(Nat) /\ 1 \in DOMAIN line /\ q = line[1]
      /\ \A j \in DOMAIN rest : j + 1 \in DOMAIN line /\ j + 1 # 1 /\ rest[j] = line[j + 1] /\ j \in Nat
  BY <1>1, SeqTail
<1>3. new \in Tick /\ new.out = rest /\ new.run = 0 /\ ~ new.noted /\ Becomes(t, new)
  <2>1. Becomes(t, new)
    BY DEF RunEnds, WithLine, line
  <2>2. ticks[t] \in Tick /\ rest \in Seq(Nat)
    BY <1>0, <1>2
  <2> HIDE DEF rest
  <2> QED BY <2>1, <2>2, Edits
<1> HIDE DEF new, rest
<1>4. ticks'[t] = new /\ \A u \in Ticker \ {t} : ticks'[u] = ticks[u]
  BY <1>0, <1>3, TickTypes
<1>5. /\ \A i \in DOMAIN line : line[i] \in DOMAIN patches
      /\ \A i \in DOMAIN line : i # 1 => patches[line[i]].stage = "named" /\ patches[line[i]].verdicts = 0
      /\ \A i, j \in DOMAIN line : line[i] = line[j] => i = j
  BY <1>0 DEF OutOK, Untouched, line
<1>6. \A j \in DOMAIN rest : /\ rest[j] \in DOMAIN patches /\ rest[j] # line[1]
                             /\ patches[rest[j]].stage = "named" /\ patches[rest[j]].verdicts = 0
  BY <1>2, <1>5
<1>7. \A i, j \in DOMAIN rest : rest[i] = rest[j] => i = j
  <2> SUFFICES ASSUME NEW i \in DOMAIN rest, NEW j \in DOMAIN rest, rest[i] = rest[j] PROVE i = j
    OBVIOUS
  <2>1. i + 1 = j + 1
    BY <1>2, <1>5
  <2> QED BY <1>2, <2>1
<1>8. OutOK(t)'
  BY <1>2, <1>3, <1>4, <1>6, <1>7 DEF OutOK, Untouched
<1>9. \A p \in DOMAIN patches : Holds(t, p)' => Holds(t, p)
  <2> SUFFICES ASSUME NEW p \in DOMAIN patches, Holds(t, p)' PROVE \E i \in DOMAIN line : line[i] = p
    BY DEF Holds, line
  <2>1. ticks'[t].out = rest
    BY <1>3, <1>4
  <2>2. PICK i \in DOMAIN rest : rest[i] = p
    BY <2>1 DEF Holds
  <2> QED BY <1>2, <2>2
<1>10. Holds(t, q) /\ q \in DOMAIN patches
  BY <1>2, <1>5 DEF Holds, line
<1>11. ~ Holds(t, q)'
  <2> SUFFICES ASSUME NEW i \in DOMAIN ticks'[t].out, ticks'[t].out[i] = q PROVE FALSE
    BY DEF Holds
  <2> QED BY <1>2, <1>3, <1>4, <1>6
<1>12. \A p \in DOMAIN patches : ~ Holds(t, p) => patches'[p] = patches[p]
  BY <1>10
<1>13. LineInv'
  BY <1>4, <1>8, <1>9, <1>12, MoveKeepsLine
<1> QED BY <1>4, <1>9, <1>10, <1>11, <1>13 DEF Holds

(* The first patch of the line, while it runs and before.                  *)
LEMMA CurrentIs ==
  ASSUME LineInv, NEW t \in Ticker, Running(t), NEW q, q = Current(t)
  PROVE  /\ PatchTypeOK /\ ticks[t] \in Tick /\ ticks[t].out \in Seq(Nat) /\ 1 \in DOMAIN ticks[t].out
         /\ q = ticks[t].out[1] /\ q \in DOMAIN patches /\ Holds(t, q) /\ patches[q] \in Patch
         /\ \A i \in DOMAIN ticks[t].out : i # 1 => ticks[t].out[i] # q /\ Untouched(ticks[t].out[i])
         /\ ticks[t].run = 0 => Untouched(q)
         /\ ticks[t].run \in {0, 6} => ~ ticks[t].noted
         /\ ticks[t].run # 0 => /\ patches[q].verdicts = Noted(ticks[t])
                                /\ patches[q].stage \in RunStage(ticks[t].run)
         /\ \A u \in Ticker \ {t} : ~ Holds(u, q)
<1>1. PatchTypeOK /\ OutOK(t) /\ ticks[t] \in Tick /\ ticks[t].out \in Seq(Nat) /\ ticks[t].out # <<>>
  BY TickTypes DEF LineInv, Running
<1>2. 1 \in DOMAIN ticks[t].out /\ q = ticks[t].out[1]
  BY <1>1, SeqTail DEF Current
<1>3. q \in DOMAIN patches /\ Holds(t, q) /\ patches[q] \in Patch
  BY <1>1, <1>2 DEF OutOK, Holds, PatchTypeOK
<1>4. \A u \in Ticker \ {t} : ~ Holds(u, q)
  BY <1>3 DEF LineInv
<1> QED BY <1>1, <1>2, <1>3, <1>4 DEF OutOK

(* The run goes on: the first patch of the line has a new stage or verdict. *)
LEMMA OnKeepsLine ==
  ASSUME LineInv, NEW t \in Ticker, Running(t), NEW q, q = Current(t), NEW r \in 1 .. 6,
         NEW new, OnTick(ticks[t], new, r), Becomes(t, new), r = 6 => ~ new.noted,
         patches' \in Seq(Patch), DOMAIN patches' = DOMAIN patches,
         patches'[q].stage \in RunStage(r), patches'[q].verdicts = Noted(new),
         \A p \in DOMAIN patches \ {q} : patches'[p] = patches[p],
         UNCHANGED <<armed, decisions, owed, breach>>
  PROVE  /\ LineInv'
         /\ \A u \in Ticker, p \in DOMAIN patches : Holds(u, p)' => Holds(u, p)
<1>0. /\ PatchTypeOK /\ ticks[t] \in Tick /\ ticks[t].out \in Seq(Nat) /\ 1 \in DOMAIN ticks[t].out
      /\ q = ticks[t].out[1] /\ q \in DOMAIN patches /\ Holds(t, q)
      /\ \A i \in DOMAIN ticks[t].out : i # 1 => ticks[t].out[i] # q /\ Untouched(ticks[t].out[i])
      /\ OutOK(t)
  BY CurrentIs DEF LineInv
<1>1. new \in Tick /\ new.out = ticks[t].out /\ new.run = r /\ new.look = ticks[t].look /\ new.found = ticks[t].found
  BY DEF OnTick
<1>3. /\ ticks' \in [Ticker -> Tick] /\ ticks'[t] = new
      /\ \A u \in Ticker \ {t} : ticks'[u] = ticks[u]
  BY <1>0, <1>1, TickTypes
<1>4. PatchTypeOK'
  BY <1>0, <1>3 DEF PatchTypeOK, Tick
<1>5. OutOK(t)'
  <2>1. new.run # 0 /\ new.out # <<>> /\ new.look = {} /\ new.found = {} /\ (new.run \in {0, 6} => ~ new.noted)
    BY <1>0, <1>1 DEF Running
  <2>2. \A i \in DOMAIN new.out : new.out[i] \in DOMAIN patches'
    BY <1>0, <1>1 DEF OutOK
  <2>3. \A i \in DOMAIN new.out : i # 1 => patches'[new.out[i]].stage = "named" /\ patches'[new.out[i]].verdicts = 0
    <3>1. ASSUME NEW i \in DOMAIN ticks[t].out, i # 1
          PROVE  patches'[ticks[t].out[i]] = patches[ticks[t].out[i]]
      <4>1. ticks[t].out[i] \in DOMAIN patches /\ ticks[t].out[i] # q
        BY <1>0, <3>1 DEF OutOK
      <4> QED BY <4>1
    <3> QED BY <1>0, <1>1, <3>1 DEF Untouched
  <2>4. \A i, j \in DOMAIN new.out : new.out[i] = new.out[j] => i = j
    BY <1>0, <1>1 DEF OutOK
  <2>5. patches'[new.out[1]].verdicts = Noted(new) /\ patches'[new.out[1]].stage \in RunStage(new.run)
    BY <1>0, <1>1
  <2> QED BY <1>3, <2>1, <2>2, <2>3, <2>4, <2>5 DEF OutOK, Untouched, Noted
<1>6. \A u \in Ticker, p \in DOMAIN patches : Holds(u, p)' => Holds(u, p)
  BY <1>1, <1>3 DEF Holds
<1>7. \A p \in DOMAIN patches : ~ Holds(t, p) => patches'[p] = patches[p]
  BY <1>0
<1>8. LineInv'
  BY <1>3, <1>4, <1>5, <1>6, <1>7, MoveKeepsLine
<1> QED BY <1>6, <1>8

(* One patch is written.                                                   *)
LEMMA PatchWritten ==
  ASSUME PatchTypeOK, NEW q \in DOMAIN patches, NEW e \in Patch, patches' = [patches EXCEPT ![q] = e]
  PROVE  /\ patches' \in Seq(Patch) /\ DOMAIN patches' = DOMAIN patches /\ patches'[q] = e
         /\ \A p \in DOMAIN patches \ {q} : patches'[p] = patches[p]
BY SeqEdit DEF PatchTypeOK

-----------------------------------------------------------------------------
(* How many decisions of a kind have been made about a patch.              *)

LEMMA MadeTypes ==
  ASSUME PatchAssumption, PatchTypeOK, NEW p, NEW d
  PROVE  /\ IsFiniteSet(ListedAt(p, d)) /\ Cardinality(ListedAt(p, d)) \in Nat
         /\ IsFiniteSet(OwedBy(p, d)) /\ Cardinality(OwedBy(p, d)) \in Nat
         /\ Made(p, d) \in Nat
<1>1. DOMAIN decisions = 1 .. Len(decisions) /\ Len(decisions) \in Nat
  BY DEF PatchTypeOK
<1>2. IsFiniteSet(DOMAIN decisions)
  BY <1>1, FS_Interval
<1>3. IsFiniteSet(Actor)
  BY FS_Union DEF PatchAssumption, Actor
<1>4. IsFiniteSet(ListedAt(p, d)) /\ IsFiniteSet(OwedBy(p, d))
  BY <1>2, <1>3, FS_Subset DEF ListedAt, OwedBy
<1>5. Cardinality(ListedAt(p, d)) \in Nat /\ Cardinality(OwedBy(p, d)) \in Nat
  BY <1>4, FS_CardinalityType
<1> QED BY <1>4, <1>5 DEF Made

LEMMA ToldAll == ASSUME PatchTypeOK, AllTold PROVE DecisionsTellStages
<1>1. \A p \in DOMAIN patches : p \in Nat
  BY DEF PatchTypeOK
<1> QED BY <1>1 DEF AllTold, Told, Made, ListedAt, OwedBy, DecisionsTellStages

(* A step that decides nothing.                                            *)
LEMMA NothingDecided ==
  ASSUME AllTold, UNCHANGED <<decisions, owed>>,
         DOMAIN patches \subseteq DOMAIN patches',
         \A p \in DOMAIN patches : patches'[p].stage \in Decision \/ patches[p].stage \in Decision
                                  => patches'[p].stage = patches[p].stage,
         \A p \in DOMAIN patches' \ DOMAIN patches : patches'[p].stage \notin Decision,
         \A p \in DOMAIN patches : (\A t \in Ticker : ~ Holds(t, p)) => patches'[p].verdicts = patches[p].verdicts,
         \A t \in Ticker, p \in DOMAIN patches : Holds(t, p)' => Holds(t, p)
  PROVE  AllTold'
<1> SUFFICES ASSUME NEW p \in Nat, NEW d \in Decision PROVE Told(p, d)'
  BY DEF AllTold
<1>1. Made(p, d)' = Made(p, d)
  BY DEF Made, ListedAt, OwedBy
<1>2. Told(p, d)
  BY DEF AllTold
<1>3. p \in DOMAIN patches' /\ patches'[p].stage = d => p \in DOMAIN patches /\ patches[p].stage = d
  OBVIOUS
<1>4. Made(p, d) = 1 => p \in DOMAIN patches /\ patches[p].stage \in Decision /\ patches'[p].stage = patches[p].stage
  BY <1>2 DEF Told, Decision
<1>5. Made(p, d) = 1 /\ d = "APPROVED" => patches'[p].verdicts = 5 /\ \A t \in Ticker : ~ Holds(t, p)'
  BY <1>2 DEF Told
<1> QED BY <1>1, <1>2, <1>3, <1>4, <1>5 DEF Told

(* What a caller decides is one decision more of its kind, of its patch.   *)
LEMMA DecidedMade ==
  ASSUME PatchAssumption, PatchTypeOK, NEW a \in Actor, owed[a] = Nothing,
         NEW q \in Nat, NEW d \in Decision, Decided(a, q, d)
  PROVE  /\ owed' \in [Actor -> Owing] /\ UNCHANGED decisions
         /\ Made(q, d)' = Made(q, d) + 1
         /\ \A p \in Nat, e \in Decision : p # q \/ e # d => Made(p, e)' = Made(p, e)
<1>1. /\ owed \in [Actor -> Owing] /\ decisions' = decisions
      /\ owed' = [owed EXCEPT ![a] = Entry(q, d)] /\ Entry(q, d) \in Owing
  BY DEF PatchTypeOK, Decided, Owing, Entry
<1>2. \A p, e : e \in Decision => Entry(p, e) # Nothing
  BY DEF Entry, Nothing, Decision
<1>3. OwedBy(q, d)' = OwedBy(q, d) \cup {a} /\ a \notin OwedBy(q, d)
  BY <1>1, <1>2 DEF OwedBy
<1>4. Cardinality(OwedBy(q, d)') = Cardinality(OwedBy(q, d)) + 1
  BY <1>3, MadeTypes, FS_AddElement
<1>5. \A p, e : Entry(p, e) = Entry(q, d) => p = q /\ e = d
  BY DEF Entry
<1>6. ASSUME NEW p \in Nat, NEW e \in Decision, p # q \/ e # d PROVE Made(p, e)' = Made(p, e)
  <2>1. OwedBy(p, e)' = OwedBy(p, e)
    BY <1>1, <1>2, <1>5, <1>6 DEF OwedBy
  <2> QED BY <1>1, <2>1 DEF Made, ListedAt
<1>7. ListedAt(q, d)' = ListedAt(q, d)
  BY <1>1 DEF ListedAt
<1>8. Made(q, d)' = Made(q, d) + 1
  BY <1>4, <1>7, MadeTypes DEF Made
<1> QED BY <1>1, <1>6, <1>8

(* What was owed and is listed is as many decisions as before.             *)
LEMMA ListedMade ==
  ASSUME PatchAssumption, PatchTypeOK, NEW a \in Actor, Listed(a)
  PROVE  /\ owed' \in [Actor -> Owing] /\ decisions' \in Seq([patch : Nat, decision : Decision])
         /\ \A p \in Nat, e \in Decision : Made(p, e)' = Made(p, e)
<1> DEFINE n == Len(decisions) + 1
<1>1. /\ owed \in [Actor -> Owing] /\ decisions \in Seq([patch : Nat, decision : Decision])
      /\ owed[a] \in [patch : Nat, decision : Decision]
      /\ owed' = [owed EXCEPT ![a] = Nothing] /\ decisions' = Append(decisions, owed[a])
  BY DEF PatchTypeOK, Listed, Owing
<1>2. /\ decisions' \in Seq([patch : Nat, decision : Decision])
      /\ DOMAIN decisions' = DOMAIN decisions \cup {n} /\ n \notin DOMAIN decisions
      /\ decisions'[n] = owed[a] /\ \A i \in DOMAIN decisions : decisions'[i] = decisions[i]
  BY <1>1, SeqAppend
<1> HIDE DEF n
<1>3. owed' \in [Actor -> Owing]
  BY <1>1 DEF Owing
<1>4. ASSUME NEW p \in Nat, NEW e \in Decision PROVE Made(p, e)' = Made(p, e)
  <2>0. Entry(p, e) # Nothing
    BY DEF Entry, Nothing, Decision
  <2>1. CASE owed[a] = Entry(p, e)
    <3>1. OwedBy(p, e)' = OwedBy(p, e) \ {a} /\ a \in OwedBy(p, e)
      BY <1>1, <2>0, <2>1 DEF OwedBy
    <3>2. ListedAt(p, e)' = ListedAt(p, e) \cup {n} /\ n \notin ListedAt(p, e)
      BY <1>2, <2>1 DEF ListedAt
    <3>3. Cardinality(OwedBy(p, e)') = Cardinality(OwedBy(p, e)) - 1
      BY <3>1, MadeTypes, FS_RemoveElement
    <3>4. Cardinality(ListedAt(p, e)') = Cardinality(ListedAt(p, e)) + 1
      BY <3>2, MadeTypes, FS_AddElement
    <3> QED BY <3>3, <3>4, MadeTypes DEF Made
  <2>2. CASE owed[a] # Entry(p, e)
    <3>1. OwedBy(p, e)' = OwedBy(p, e)
      BY <1>1, <2>0, <2>2 DEF OwedBy
    <3>2. ListedAt(p, e)' = ListedAt(p, e)
      BY <1>2, <2>2 DEF ListedAt
    <3> QED BY <3>1, <3>2 DEF Made
  <2> QED BY <2>1, <2>2
<1> QED BY <1>2, <1>3, <1>4

(* A decision about a patch that was undecided, or approved.               *)
LEMMA DecidedTells ==
  ASSUME PatchAssumption, PatchTypeOK, AllTold, NEW a \in Actor, owed[a] = Nothing,
         NEW q \in DOMAIN patches, NEW d \in Decision, Decided(a, q, d),
         \/ patches[q].stage \notin Decision
         \/ patches[q].stage = "APPROVED" /\ d = "ROLLED_BACK",
         d = "APPROVED" => patches[q].verdicts = 5 /\ \A t \in Ticker : ~ Holds(t, q)',
         \A t \in Ticker, p \in DOMAIN patches : Holds(t, p)' => Holds(t, p)
  PROVE  /\ AllTold' /\ patches' \in Seq(Patch) /\ DOMAIN patches' = DOMAIN patches
         /\ patches'[q].stage = d /\ patches'[q].verdicts = patches[q].verdicts
         /\ \A p \in DOMAIN patches \ {q} : patches'[p] = patches[p]
         /\ owed' \in [Actor -> Owing] /\ UNCHANGED decisions
<1>1. patches \in Seq(Patch) /\ patches[q] \in Patch /\ q \in Nat /\ d \in PatchStage
  BY ChainFacts DEF PatchTypeOK
<1>2. /\ patches' \in Seq(Patch) /\ DOMAIN patches' = DOMAIN patches
      /\ patches'[q].stage = d /\ patches'[q].verdicts = patches[q].verdicts
      /\ \A p \in DOMAIN patches \ {q} : patches'[p] = patches[p]
  <2> DEFINE e == [patches[q] EXCEPT !.stage = d]
  <2>1. e \in Patch /\ e.stage = d /\ e.verdicts = patches[q].verdicts
    BY <1>1 DEF Patch
  <2>2. patches' = [patches EXCEPT ![q] = e]
    BY <1>1 DEF Decided
  <2> HIDE DEF e
  <2> QED BY <2>1, <2>2, PatchWritten
<1>3. /\ owed' \in [Actor -> Owing] /\ UNCHANGED decisions
      /\ Made(q, d)' = Made(q, d) + 1
      /\ \A p \in Nat, e \in Decision : p # q \/ e # d => Made(p, e)' = Made(p, e)
  BY <1>1, DecidedMade
<1>4. Made(q, d) = 0
  <2>1. Told(q, d) /\ Made(q, d) \in Nat
    BY <1>1, MadeTypes DEF AllTold
  <2>2. Made(q, d) # 1
    BY <2>1 DEF Told, Decision
  <2>3. Made(q, d) <= 1
    BY <2>1 DEF Told
  <2> QED BY <2>1, <2>2, <2>3
<1>5. ASSUME NEW p \in Nat, NEW e \in Decision PROVE Told(p, e)'
  <2>0. Told(p, e)
    BY DEF AllTold
  <2>1. CASE p # q
    <3>1. Made(p, e)' = Made(p, e)
      BY <1>3, <2>1
    <3>2. p \in DOMAIN patches => patches'[p] = patches[p]
      BY <1>2, <2>1
    <3> QED BY <1>2, <2>0, <3>1, <3>2 DEF Told
  <2>2. CASE p = q /\ e = d
    <3>1. Made(p, e)' = 1
      BY <1>3, <1>4, <2>2
    <3> QED BY <1>2, <2>2, <3>1 DEF Told
  <2>3. CASE p = q /\ e # d
    <3>1. Made(p, e)' = Made(p, e)
      BY <1>3, <2>3
    <3>2. Made(p, e) = 1 => e = "APPROVED" /\ d = "ROLLED_BACK"
      BY <2>0, <2>3 DEF Told, Decision
    <3>3. Made(p, e) = 1 => patches'[p].verdicts = 5 /\ \A t \in Ticker : ~ Holds(t, p)'
      BY <1>2, <2>0, <2>3, <3>2 DEF Told
    <3>4. Made(p, e) <= 1 /\ patches'[p].stage = d /\ p \in DOMAIN patches'
      BY <1>2, <2>0, <2>3 DEF Told
    <3> QED BY <2>3, <3>1, <3>2, <3>3, <3>4 DEF Told
  <2> QED BY <2>1, <2>2, <2>3
<1> QED BY <1>2, <1>3, <1>5 DEF AllTold

-----------------------------------------------------------------------------
(* The steps.                                                              *)

LEMMA ProposeDecisions ==
  ASSUME DecisionInv, NEW t \in Ticker, Propose(t)
  PROVE  DecisionInv'
<1>1. PICK q : q = Current(t)
  OBVIOUS
<1>2. /\ PatchTypeOK /\ q \in DOMAIN patches /\ Holds(t, q) /\ patches[q] \in Patch /\ Untouched(q)
      /\ ticks[t] \in Tick /\ ~ ticks[t].noted
  BY <1>1, CurrentIs DEF DecisionInv, Propose
<1>3. PICK e \in Patch : e.stage = "PROPOSED" /\ e.verdicts = 0 /\ patches' = [patches EXCEPT ![q] = e]
  <2> DEFINE e == [patches[q] EXCEPT !.stage = "PROPOSED"]
  <2>1. "PROPOSED" \in PatchStage
    BY ChainFacts
  <2>2. e \in Patch /\ e.stage = "PROPOSED" /\ e.verdicts = 0
    BY <1>2, <2>1 DEF Patch, Untouched
  <2>3. patches' = [patches EXCEPT ![q] = e]
    BY <1>1, <1>2 DEF Propose, PatchTypeOK
  <2> HIDE DEF e
  <2> QED BY <2>2, <2>3
<1>5. /\ patches' \in Seq(Patch) /\ DOMAIN patches' = DOMAIN patches /\ patches'[q] = e
      /\ \A p \in DOMAIN patches \ {q} : patches'[p] = patches[p]
  BY <1>2, <1>3, PatchWritten
<1>6. LineInv' /\ \A u \in Ticker, p \in DOMAIN patches : Holds(u, p)' => Holds(u, p)
  <2> DEFINE new == [ticks[t] EXCEPT !.run = 1]
  <2>1. 1 \in 1 .. 6 /\ 1 \in 0 .. 6 /\ 1 # 6 /\ 1 - 1 = 0
    OBVIOUS
  <2>2. OnTick(ticks[t], new, 1) /\ ~ new.noted
    <3>1. ticks[t] \in Tick /\ ~ ticks[t].noted /\ 1 \in 0 .. 6
      BY <1>2, <2>1
    <3>2. OnTick(ticks[t], new, 1) /\ new.noted = ticks[t].noted
      BY <3>1, Edits
    <3> QED BY <3>1, <3>2
  <2>3. Becomes(t, new) /\ Running(t) /\ UNCHANGED <<armed, decisions, owed, breach>> /\ LineInv
    BY DEF Propose, DecisionInv
  <2> HIDE DEF new
  <2>4. patches'[q].stage \in RunStage(1) /\ patches'[q].verdicts = Noted(new)
    BY <1>3, <1>5, <2>1, <2>2, ChainFacts DEF RunStage, Noted, OnTick
  <2> QED BY <1>1, <1>5, <2>1, <2>2, <2>3, <2>4, OnKeepsLine
<1>7. "named" \notin Decision /\ "PROPOSED" \notin Decision
  BY DEF Decision
<1>8. \A p \in DOMAIN patches : patches'[p].stage \in Decision \/ patches[p].stage \in Decision
                                  => patches'[p].stage = patches[p].stage
  BY <1>2, <1>3, <1>5, <1>7 DEF Untouched
<1>9. AllTold'
  BY <1>2, <1>5, <1>6, <1>8, NothingDecided DEF DecisionInv, Propose
<1> QED BY <1>6, <1>9 DEF DecisionInv

(* The steps that end a tick by an exception and write nothing.            *)
LEMMA RaiseDecisions ==
  ASSUME DecisionInv, NEW t \in Ticker, TickRaises(t), UNCHANGED <<armed, patches, decisions, owed, breach>>
  PROVE  DecisionInv'
<1>1. PatchTypeOK'
  <2>1. PatchTypeOK /\ Idle \in Tick
    BY TickTypes DEF DecisionInv, LineInv
  <2>2. ticks' \in [Ticker -> Tick]
    BY <2>1, TickTypes DEF TickRaises
  <2> QED BY <2>1, <2>2 DEF PatchTypeOK, Tick
<1>2. LineInv'
  BY <1>1, RaiseKeepsLine DEF DecisionInv
<1>3. ticks'[t] = Idle /\ \A u \in Ticker \ {t} : ticks'[u] = ticks[u]
  BY DEF DecisionInv, LineInv, PatchTypeOK, TickRaises, Becomes
<1>4. \A u \in Ticker, p \in DOMAIN patches : Holds(u, p)' => Holds(u, p)
  BY <1>3 DEF Holds, Idle
<1>5. AllTold'
  BY <1>4, NothingDecided DEF DecisionInv
<1> QED BY <1>2, <1>5 DEF DecisionInv

(* A verdict is recorded of the patch that runs.                           *)
LEMMA RecordsDecisions ==
  ASSUME DecisionInv, NEW t \in Ticker, StageRecords(t)
  PROVE  DecisionInv'
<1>1. PICK q : q = Current(t)
  OBVIOUS
<1>2. PICK r \in 1 .. 5 : r = ticks[t].run /\ r # 0 /\ r # 6 /\ r \in 1 .. 6
  BY DEF StageRecords, AtStage
<1>3. /\ PatchTypeOK /\ q \in DOMAIN patches /\ Holds(t, q) /\ patches[q] \in Patch
      /\ patches[q].verdicts = r - 1 /\ patches[q].stage \in RunStage(r) /\ ticks[t] \in Tick
      /\ Running(t) /\ LineInv
  <2>1. Running(t) /\ LineInv /\ ticks[t].run # 0 /\ ~ ticks[t].noted
    BY <1>2 DEF StageRecords, AtStage, DecisionInv
  <2> QED BY <1>1, <1>2, <2>1, CurrentIs DEF Noted
<1>4. PICK e \in Patch : e.stage = patches[q].stage /\ e.verdicts = r /\ patches' = [patches EXCEPT ![q] = e]
  <2> DEFINE e == [patches[q] EXCEPT !.verdicts = @ + 1]
  <2>1. patches[q].verdicts + 1 = r /\ r \in 0 .. 5
    BY <1>3
  <2>2. e \in Patch /\ e.stage = patches[q].stage /\ e.verdicts = r
    BY <1>3, <2>1 DEF Patch
  <2>3. patches' = [patches EXCEPT ![q] = e]
    BY <1>1, <1>3 DEF StageRecords, PatchTypeOK
  <2> HIDE DEF e
  <2> QED BY <2>2, <2>3
<1>5. /\ patches' \in Seq(Patch) /\ DOMAIN patches' = DOMAIN patches /\ patches'[q] = e
      /\ \A p \in DOMAIN patches \ {q} : patches'[p] = patches[p]
  BY <1>3, <1>4, PatchWritten
<1>6. LineInv' /\ \A u \in Ticker, p \in DOMAIN patches : Holds(u, p)' => Holds(u, p)
  <2> DEFINE new == [ticks[t] EXCEPT !.noted = TRUE]
  <2>1. OnTick(ticks[t], new, r) /\ new.noted
    BY <1>2, <1>3, Edits
  <2>2. Becomes(t, new) /\ UNCHANGED <<armed, decisions, owed, breach>>
    BY DEF StageRecords
  <2> HIDE DEF new
  <2>3. patches'[q].stage \in RunStage(r) /\ patches'[q].verdicts = Noted(new)
    BY <1>3, <1>4, <1>5, <2>1 DEF Noted, OnTick
  <2> QED BY <1>1, <1>2, <1>3, <1>5, <2>1, <2>2, <2>3, OnKeepsLine
<1>7. \A p \in DOMAIN patches : patches'[p].stage = patches[p].stage
  BY <1>4, <1>5
<1>8. AllTold'
  BY <1>3, <1>5, <1>6, <1>7, NothingDecided DEF DecisionInv, StageRecords
<1> QED BY <1>6, <1>8 DEF DecisionInv

(* The patch that runs advances, unless a reviewer was there first.        *)
LEMMA AdvancesDecisions ==
  ASSUME DecisionInv, NEW t \in Ticker, StageAdvances(t)
  PROVE  DecisionInv'
<1>1. PICK q : q = Current(t)
  OBVIOUS
<1>2. /\ PatchTypeOK /\ q \in DOMAIN patches /\ Holds(t, q) /\ patches[q] \in Patch
      /\ ticks[t] \in Tick /\ Running(t) /\ LineInv /\ ticks[t].noted /\ ticks[t].run \in 0 .. 6
      /\ (ticks[t].run \in {0, 6} => ~ ticks[t].noted)
      /\ (ticks[t].run # 0 => /\ patches[q].verdicts = Noted(ticks[t])
                              /\ patches[q].stage \in RunStage(ticks[t].run))
  BY <1>1, CurrentIs, TickTypes DEF StageAdvances, DecisionInv, LineInv
<1>3. PICK r \in 1 .. 5 : r = ticks[t].run /\ r # 0
  BY <1>2
<1>4. PICK s \in 1 .. 6 : s = r + 1 /\ s - 1 = r /\ s \in 0 .. 6
  OBVIOUS
<1>5. patches[q].verdicts = r /\ patches[q].stage \in RunStage(r)
  BY <1>2, <1>3 DEF Noted
<1> DEFINE next == Chain[s]
<1>6. next \in PatchStage /\ next \notin Decision /\ next = Chain[ticks[t].run + 1]
  BY <1>3, <1>4, ChainFacts
<1> HIDE DEF next
<1>7. UNCHANGED <<armed, decisions, owed, breach>>
  BY DEF StageAdvances
<1>8. CASE Legal(q, next)
  <2>1. patches[q].stage = Chain[r] /\ Chain[r] \notin Decision
    <3>1. r \in 1 .. 6
      OBVIOUS
    <3> QED BY <1>5, <1>8, <3>1, LegalFacts, ChainFacts
  <2>2. PICK e \in Patch : e.stage = next /\ e.verdicts = r /\ patches' = [patches EXCEPT ![q] = e]
    <3> DEFINE e == [patches[q] EXCEPT !.stage = next]
    <3>1. e \in Patch /\ e.stage = next /\ e.verdicts = r
      BY <1>2, <1>5, <1>6 DEF Patch
    <3>2. patches' = [patches EXCEPT ![q] = e]
      BY <1>1, <1>2, <1>6, <1>8 DEF StageAdvances, PatchTypeOK
    <3> HIDE DEF e
    <3> QED BY <3>1, <3>2
  <2>3. /\ patches' \in Seq(Patch) /\ DOMAIN patches' = DOMAIN patches /\ patches'[q] = e
        /\ \A p \in DOMAIN patches \ {q} : patches'[p] = patches[p]
    BY <1>2, <2>2, PatchWritten
  <2>4. LineInv' /\ \A u \in Ticker, p \in DOMAIN patches : Holds(u, p)' => Holds(u, p)
    <3> DEFINE new == [ticks[t] EXCEPT !.run = s, !.noted = FALSE]
    <3>1. OnTick(ticks[t], new, s) /\ ~ new.noted
      BY <1>2, <1>4, Edits
    <3>2. Becomes(t, new)
      <4>1. Becomes(t, [ticks[t] EXCEPT !.run = ticks[t].run + 1, !.noted = FALSE])
        BY <1>1, <1>6, <1>8 DEF StageAdvances
      <4> QED BY <1>3, <1>4, <4>1
    <3> HIDE DEF new
    <3>3. patches'[q].stage \in RunStage(s) /\ patches'[q].verdicts = Noted(new)
      BY <1>4, <2>2, <2>3, <3>1 DEF Noted, OnTick, RunStage, next
    <3> QED BY <1>1, <1>2, <1>7, <2>3, <3>1, <3>2, <3>3, OnKeepsLine
  <2>5. \A p \in DOMAIN patches : patches'[p].stage \in Decision \/ patches[p].stage \in Decision
                                  => patches'[p].stage = patches[p].stage
    BY <1>6, <2>1, <2>2, <2>3
  <2>6. AllTold'
    BY <1>2, <1>7, <2>3, <2>4, <2>5, NothingDecided DEF DecisionInv
  <2> QED BY <2>4, <2>6 DEF DecisionInv
<1>9. CASE ~ Legal(q, next)
  <2>1. TickRaises(t) /\ UNCHANGED patches
    BY <1>1, <1>6, <1>9 DEF StageAdvances
  <2> QED BY <1>7, <2>1, RaiseDecisions
<1> QED BY <1>8, <1>9

(* The run's own decisions, with which it ends.                            *)
LEMMA EndDecisions ==
  ASSUME PatchAssumption, DecisionInv, NEW t \in Ticker, Running(t), NEW d \in Decision,
         Decided(t, Current(t), d), RunEnds(t), UNCHANGED <<armed, breach>>,
         patches[Current(t)].stage \notin Decision,
         d = "APPROVED" => patches[Current(t)].verdicts = 5
  PROVE  DecisionInv'
<1>1. PICK q : q = Current(t)
  OBVIOUS
<1>2. PatchTypeOK /\ q \in DOMAIN patches /\ ticks[t] \in Tick /\ LineInv /\ ticks[t].out \in Seq(Nat)
      /\ ticks[t].out # <<>> /\ AllTold /\ t \in Actor /\ owed[t] = Nothing
  BY <1>1, CurrentIs DEF DecisionInv, Running, Actor
<1>3. Decided(t, q, d) /\ patches[q].stage \notin Decision /\ (d = "APPROVED" => patches[q].verdicts = 5)
  BY <1>1
<1>4. /\ patches' \in Seq(Patch) /\ DOMAIN patches' = DOMAIN patches
      /\ \A p \in DOMAIN patches \ {q} : patches'[p] = patches[p]
  <2> DEFINE e == [patches[q] EXCEPT !.stage = d]
  <2>0. d \in PatchStage /\ patches[q] \in Patch
    BY <1>2, ChainFacts DEF PatchTypeOK
  <2>1. e \in Patch
    BY <2>0 DEF Patch
  <2>2. patches' = [patches EXCEPT ![q] = e]
    BY <1>2, <1>3 DEF Decided, PatchTypeOK
  <2> HIDE DEF e
  <2> QED BY <1>2, <2>1, <2>2, PatchWritten
<1>5. ticks' \in [Ticker -> Tick]
  <2>1. PICK rest \in Seq(Nat) : rest = Tail(ticks[t].out)
    BY <1>2, SeqTail
  <2>2. Becomes(t, WithLine(ticks[t], rest)) /\ WithLine(ticks[t], rest) \in Tick
    BY <1>2, <2>1, Edits DEF RunEnds, WithLine
  <2> QED BY <1>2, <2>2, TickTypes
<1>6. owed' \in [Actor -> Owing] /\ UNCHANGED decisions
  BY <1>2, <1>3 DEF Decided, PatchTypeOK, Owing, Entry
<1>7. PatchTypeOK'
  BY <1>2, <1>4, <1>5, <1>6 DEF PatchTypeOK, Tick, Owing
<1>8. LineInv' /\ ~ Holds(t, q)' /\ Holds(t, q)
      /\ \A u \in Ticker, p \in DOMAIN patches : Holds(u, p)' => Holds(u, p)
  BY <1>1, <1>2, <1>4, <1>7, EndsKeepsLine
<1>9. \A u \in Ticker : ~ Holds(u, q)'
  BY <1>2, <1>8 DEF LineInv
<1>10. AllTold'
  BY <1>2, <1>3, <1>8, <1>9, DecidedTells
<1> QED BY <1>8, <1>10 DEF DecisionInv

(* Somebody else's decision: the run of the patch goes on without knowing. *)
LEMMA ReviewDecisions ==
  ASSUME PatchAssumption, DecisionInv, NEW r \in Reviewer, NEW q, NEW d, Review(r, q, d)
  PROVE  DecisionInv'
<1>1. /\ PatchTypeOK /\ LineInv /\ q \in DOMAIN patches /\ patches[q].stage # "named"
      /\ d \in {"REJECTED", "ROLLED_BACK"} /\ d \in Decision /\ Legal(q, d) /\ Decided(r, q, d)
      /\ UNCHANGED <<armed, ticks, breach>> /\ AllTold /\ r \in Actor /\ owed[r] = Nothing
  BY DEF Review, DecisionInv, LineInv, Decision, Actor
<1>2. \A p : \A t \in Ticker : Holds(t, p)' = Holds(t, p)
  BY <1>1 DEF Holds
<1>3. /\ patches[q].stage \in Decision => patches[q].stage = "APPROVED" /\ d = "ROLLED_BACK"
      /\ d # "APPROVED"
  <2>1. 1 \in 1 .. 6
    OBVIOUS
  <2> QED BY <1>1, <2>1, LegalFacts
<1>4. /\ AllTold' /\ patches' \in Seq(Patch) /\ DOMAIN patches' = DOMAIN patches
      /\ patches'[q].stage = d /\ patches'[q].verdicts = patches[q].verdicts
      /\ \A p \in DOMAIN patches \ {q} : patches'[p] = patches[p]
      /\ owed' \in [Actor -> Owing] /\ UNCHANGED decisions
  BY <1>1, <1>2, <1>3, DecidedTells
<1>5. PatchTypeOK'
  BY <1>1, <1>4 DEF PatchTypeOK, Owing
<1>6. ASSUME NEW t \in Ticker PROVE OutOK(t)'
  <2>1. OutOK(t) /\ ticks' = ticks /\ (ticks[t].run # 0 => 1 \in DOMAIN ticks[t].out)
    BY <1>1, TickTypes DEF LineInv, OutOK
  <2>2. \A i \in DOMAIN ticks[t].out : Untouched(ticks[t].out[i]) => ticks[t].out[i] # q
    BY <1>1 DEF Untouched
  <2>3. \A i \in DOMAIN ticks[t].out : (i # 1 \/ ticks[t].run = 0) =>
          patches'[ticks[t].out[i]].stage = "named" /\ patches'[ticks[t].out[i]].verdicts = 0
    BY <1>4, <2>1, <2>2 DEF OutOK, Untouched
  <2>4. ticks[t].run # 0 => /\ patches'[ticks[t].out[1]].verdicts = Noted(ticks[t])
                           /\ patches'[ticks[t].out[1]].stage \in RunStage(ticks[t].run)
    BY <1>1, <1>4, <2>1 DEF OutOK, RunStage
  <2> QED BY <1>4, <2>1, <2>3, <2>4 DEF OutOK, Untouched, Noted
<1>7. LineInv'
  BY <1>1, <1>2, <1>4, <1>5, <1>6 DEF LineInv
<1> QED BY <1>4, <1>7 DEF DecisionInv

(* The list gets what it is owed.                                          *)
LEMMA ListedDecisions ==
  ASSUME PatchAssumption, DecisionInv, NEW a \in Actor, Listed(a)
  PROVE  DecisionInv'
<1>1. PatchTypeOK /\ LineInv /\ AllTold /\ UNCHANGED <<armed, patches, ticks, breach>>
  BY DEF DecisionInv, LineInv, Listed
<1>2. /\ owed' \in [Actor -> Owing] /\ decisions' \in Seq([patch : Nat, decision : Decision])
      /\ \A p \in Nat, e \in Decision : Made(p, e)' = Made(p, e)
  BY <1>1, ListedMade
<1>3. PatchTypeOK'
  BY <1>1, <1>2 DEF PatchTypeOK, Owing
<1>4. \A p : \A u \in Ticker : Holds(u, p)' = Holds(u, p)
  BY <1>1 DEF Holds
<1>5. \A u \in Ticker : OutOK(u)' = OutOK(u)
  BY <1>1 DEF OutOK, Untouched, Noted
<1>6. LineInv'
  BY <1>1, <1>3, <1>4, <1>5 DEF LineInv
<1>7. ASSUME NEW p \in Nat, NEW d \in Decision PROVE Told(p, d)'
  <2>1. Told(p, d) /\ Made(p, d)' = Made(p, d) /\ patches' = patches
    BY <1>1, <1>2 DEF AllTold
  <2> QED BY <1>4, <2>1 DEF Told
<1> QED BY <1>6, <1>7 DEF DecisionInv, AllTold

LEMMA DecisionInit == ASSUME PatchAssumption, PatchInit PROVE DecisionInv
<1>1. Idle \in Tick /\ Idle.out = <<>> /\ Idle.run = 0 /\ ~ Idle.noted
  BY DEF Idle, Tick
<1>2. \A t \in Ticker : ticks[t] = Idle
  BY DEF PatchInit
<1>3. PatchTypeOK
  BY <1>1 DEF PatchInit, PatchTypeOK, Tick
<1>4. \A t \in Ticker : OutOK(t) /\ \A p : ~ Holds(t, p)
  BY <1>1, <1>2 DEF OutOK, Holds
<1>5. ASSUME NEW p \in Nat, NEW d \in Decision PROVE Told(p, d)
  <2>1. Entry(p, d) # Nothing
    BY DEF Entry, Nothing, Decision
  <2>2. ListedAt(p, d) = {} /\ OwedBy(p, d) = {}
    BY <2>1 DEF PatchInit, ListedAt, OwedBy
  <2>3. Made(p, d) = 0
    BY <2>2, FS_EmptySet DEF Made
  <2>4. DOMAIN patches = {}
    BY DEF PatchInit
  <2> QED BY <2>3, <2>4 DEF Told
<1> QED BY <1>3, <1>4, <1>5 DEF DecisionInv, LineInv, AllTold

LEMMA DecisionInductive ==
  ASSUME PatchAssumption, DecisionInv, [PatchNext]_patchVars
  PROVE  DecisionInv'
<1>0. LineInv /\ PatchTypeOK /\ AllTold
  BY DEF DecisionInv, LineInv
<1>1. ASSUME NEW t \in Ticker,
             \/ PatchTick(t)
             \/ \E s \in Strategy : Evaluate(t, s) \/ TooFew(t, s)
             \/ \E k \in Key : Recovered(t, k) \/ Below(t, k)
      PROVE  DecisionInv'
  <2>1. LineInv' /\ UNCHANGED <<patches, decisions, owed>> /\ \A u \in Ticker : ticks'[u].out = ticks[u].out
    BY <1>0, <1>1, ProposerLine
  <2>2. \A u \in Ticker, p \in DOMAIN patches : Holds(u, p)' => Holds(u, p)
    BY <2>1 DEF Holds
  <2>3. AllTold'
    BY <1>0, <2>1, <2>2, NothingDecided
  <2> QED BY <2>1, <2>3 DEF DecisionInv
<1>2. ASSUME NEW t \in Ticker, Arm(t) PROVE DecisionInv'
  <2>1. /\ LineInv' /\ DOMAIN patches \subseteq DOMAIN patches' /\ UNCHANGED <<decisions, owed>>
        /\ \A p \in DOMAIN patches : patches'[p] = patches[p]
        /\ \A p \in DOMAIN patches' \ DOMAIN patches : patches'[p].stage = "named"
        /\ \A u \in Ticker, p \in DOMAIN patches : Holds(u, p)' => Holds(u, p)
    BY <1>0, <1>2, ArmLine
  <2>2. "named" \notin Decision
    BY DEF Decision
  <2>3. AllTold'
    BY <1>0, <2>1, <2>2, NothingDecided
  <2> QED BY <2>1, <2>3 DEF DecisionInv
<1>3. ASSUME NEW t \in Ticker, Propose(t) PROVE DecisionInv'
  BY <1>3, ProposeDecisions
<1>4. ASSUME NEW t \in Ticker, EvidenceRaises(t) \/ StageRaises(t) PROVE DecisionInv'
  BY <1>4, RaiseDecisions DEF EvidenceRaises, StageRaises
<1>5. ASSUME NEW t \in Ticker, StageRecords(t) \/ StageAdvances(t) PROVE DecisionInv'
  BY <1>5, RecordsDecisions, AdvancesDecisions
<1>6. ASSUME NEW t \in Ticker, StageFails(t) PROVE DecisionInv'
  <2>1. CASE Legal(Current(t), "REJECTED")
    <3>1. PICK q : q = Current(t)
      OBVIOUS
    <3>2. patches[q].stage \notin Decision
      <4>1. 1 \in 1 .. 6 /\ "REJECTED" # "ROLLED_BACK"
        OBVIOUS
      <4> QED BY <2>1, <3>1, <4>1, LegalFacts
    <3>3. "REJECTED" \in Decision /\ "REJECTED" # "APPROVED" /\ Running(t)
          /\ Decided(t, Current(t), "REJECTED") /\ RunEnds(t) /\ UNCHANGED <<armed, breach>>
      BY <1>6, <2>1 DEF StageFails, AtStage, Decision
    <3> QED BY <3>1, <3>2, <3>3, EndDecisions
  <2>2. CASE ~ Legal(Current(t), "REJECTED")
    BY <1>6, <2>2, RaiseDecisions DEF StageFails
  <2> QED BY <2>1, <2>2
<1>7. ASSUME NEW t \in Ticker, Approve(t) PROVE DecisionInv'
  <2>1. CASE patches[Current(t)].stage = "CANARY" /\ ~ Gated
    <3>1. PICK q : q = Current(t)
      OBVIOUS
    <3>2. Running(t) /\ ticks[t].run = 6 /\ Decided(t, Current(t), "APPROVED") /\ RunEnds(t)
          /\ UNCHANGED <<armed, breach>> /\ "APPROVED" \in Decision /\ patches[Current(t)].stage \notin Decision
      BY <1>7, <2>1 DEF Approve, Decision
    <3>3. patches[q].verdicts = 5
      BY <1>0, <3>1, <3>2, CurrentIs DEF Noted
    <3> QED BY <3>1, <3>2, <3>3, EndDecisions
  <2>2. CASE ~ (patches[Current(t)].stage = "CANARY" /\ ~ Gated)
    BY <1>7, <2>2, RaiseDecisions DEF Approve
  <2> QED BY <2>1, <2>2
<1>8. ASSUME NEW r \in Reviewer, NEW p, NEW decision, Review(r, p, decision) PROVE DecisionInv'
  BY <1>8, ReviewDecisions
<1>9. ASSUME NEW a \in Actor, Listed(a) PROVE DecisionInv'
  BY <1>9, ListedDecisions
<1>10. CASE UNCHANGED patchVars
  <2>1. \A p : \A u \in Ticker : Holds(u, p)' = Holds(u, p)
    BY <1>10 DEF patchVars, Holds
  <2>2. \A u \in Ticker : OutOK(u)' = OutOK(u)
    BY <1>10 DEF patchVars, OutOK, Untouched, Noted
  <2>3. LineInv'
    BY <1>0, <1>10, <2>1, <2>2 DEF LineInv, PatchTypeOK, patchVars
  <2>4. AllTold'
    BY <1>0, <1>10, <2>1, NothingDecided DEF patchVars
  <2> QED BY <2>3, <2>4 DEF DecisionInv
<1> QED BY <1>1, <1>2, <1>3, <1>4, <1>5, <1>6, <1>7, <1>8, <1>9, <1>10 DEF PatchNext

(* Types: every patch and every tick is always what the code's classes say. *)
THEOREM PatchTypeCorrect == PatchSpec => []PatchTypeOK
<1>1. DecisionInv => PatchTypeOK
  BY DEF DecisionInv, LineInv
<1>2. DecisionInv /\ [PatchNext]_patchVars => DecisionInv'
  BY PatchAssumption, DecisionInductive
<1>3. PatchInit => DecisionInv
  BY PatchAssumption, DecisionInit
<1> QED BY <1>1, <1>2, <1>3, PTL DEF PatchSpec

(* GOV-G18: the bridge decides nothing twice, and what it has decided, or  *)
(* is about to list, is what became of the patch, however its callers race. *)
THEOREM DecisionsTell == PatchSpec => []DecisionsTellStages
<1>1. DecisionInv => DecisionsTellStages
  BY ToldAll DEF DecisionInv, LineInv
<1>2. DecisionInv /\ [PatchNext]_patchVars => DecisionInv'
  BY PatchAssumption, DecisionInductive
<1>3. PatchInit => DecisionInv
  BY PatchAssumption, DecisionInit
<1> QED BY <1>1, <1>2, <1>3, PTL DEF PatchSpec
=============================================================================
