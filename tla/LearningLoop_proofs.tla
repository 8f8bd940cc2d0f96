------------------------- MODULE LearningLoop_proofs -------------------------
(***************************************************************************)
(* Proofs about LearningLoop, for any number of threads in any             *)
(* interleaving: type correctness (with it the parameter stays in its      *)
(* bounds), that updates start from values told, that outcomes get lost in *)
(* the two races only, and that only ticks that overlap count one twice.   *)
(***************************************************************************)
EXTENDS LearningLoop, SequenceTheorems, TLAPS

(* A sequence of outcomes that grew, and what is left of it.               *)
LEMMA GrownIsSeq ==
  ASSUME NEW s \in Seq(Outcome), NEW o \in Outcome
  PROVE  /\ Append(s, o) \in Seq(Outcome) /\ Append(s, o) # <<>>
         /\ Tail(Append(s, o)) \in Seq(Outcome)
<1>1. Append(s, o) \in Seq(Outcome) /\ Append(s, o) # <<>>
  BY AppendProperties
<1> QED BY <1>1, HeadTailProperties

LEMMA AdjustedInBounds ==
  ASSUME NEW v \in Parameter, NEW a \in Adjusted(v) PROVE a \in Parameter
BY LearningAssumption DEF Parameter, Adjusted, Clamp

LEMMA CountedGrows ==
  ASSUME NEW times \in [Outcome -> 0 .. 2], NEW o \in Outcome
  PROVE  /\ Counted(times, o) \in [Outcome -> 0 .. 2]
         /\ Counted(times, o)[o] > 0
         /\ times[o] = 0 => Counted(times, o)[o] = 1
         /\ \A x \in Outcome : /\ times[x] > 0 => Counted(times, o)[x] > 0
                               /\ x # o => Counted(times, o)[x] = times[x]
BY DEF Counted

-----------------------------------------------------------------------------
(* Type correctness.                                                       *)

LEMMA NoJobTypes == NoJob \in Locals
BY LearningAssumption DEF NoJob, Locals, Parameter

(* What a tick does keeps every variable in its type.                      *)
LEMMA TickTypes ==
  ASSUME LearnTypeOK, NEW w \in Thread, LoopTick(w) PROVE LearnTypeOK'
<1> USE DEF LearnTypeOK, Goto, Place, learner, counts, news
<1>1. CASE DrainCopy(w)
  <2> DEFINE mine == [job[w] EXCEPT !.drained = queue, !.left = queue]
  <2>1. mine \in Locals
    BY DEF Locals
  <2>2. job' = [job EXCEPT ![w] = mine]
    BY <1>1 DEF DrainCopy
  <2> HIDE DEF mine
  <2>3. job' \in [Thread -> Locals]
    BY <2>1, <2>2
  <2> DEFINE twice == {o \in Elements(queue) : \E v \in Thread :
                        place[v] = "clear" /\ o \in Elements(job[v].drained)}
  <2>4. twice \subseteq Outcome /\ shared' = shared \cup twice
    BY <1>1 DEF DrainCopy, Elements
  <2> HIDE DEF twice
  <2>5. shared' \subseteq Outcome
    BY <2>4
  <2>6. place' \in [Thread -> Place]
    BY <1>1 DEF DrainCopy
  <2> QED BY <1>1, <2>3, <2>5, <2>6 DEF DrainCopy
<1>2. CASE DrainClear(w)
  <2>1. place' \in [Thread -> Place]
    BY <1>2 DEF DrainClear, AfterDrain
  <2> QED BY <1>2, <2>1 DEF DrainClear
<1>3. CASE Submit(w)
  <2>1. job[w].left \in Seq(Outcome) /\ job[w].left # <<>>
    BY <1>3 DEF Submit, Locals
  <2>2. Head(job[w].left) \in Outcome /\ Tail(job[w].left) \in Seq(Outcome)
    BY <2>1, HeadTailProperties
  <2> DEFINE grown == Append(samples, Head(job[w].left))
  <2>3. grown \in Seq(Outcome) /\ Tail(grown) \in Seq(Outcome)
    BY <2>2, GrownIsSeq
  <2>4. samples' = IF Len(grown) > MaxSamples THEN Tail(grown) ELSE grown
    BY <1>3 DEF Submit
  <2> HIDE DEF grown
  <2>5. samples' \in Seq(Outcome)
    BY <2>3, <2>4
  <2>6. job' \in [Thread -> Locals]
    BY <1>3, <2>2 DEF Submit, Locals
  <2> QED BY <1>3, <2>5, <2>6 DEF Submit
<1>4. CASE EndSubmit(w)
  <2>1. job' \in [Thread -> Locals]
    BY <1>4 DEF EndSubmit, Locals
  <2> QED BY <1>4, <2>1 DEF EndSubmit
<1>5. CASE Fold(w)
  <2> DEFINE mine == [job[w] EXCEPT !.nth = @ + 1]
  <2>1. mine \in Locals
    <3>1. job[w] \in Locals /\ job[w].nth + 1 \in Nat
      BY DEF Locals
    <3> QED BY <3>1 DEF Locals
  <2>2. job' = [job EXCEPT ![w] = mine]
    BY <1>5 DEF Fold
  <2> HIDE DEF mine
  <2>3. job' \in [Thread -> Locals]
    BY <2>1, <2>2
  <2> DEFINE o == samples[job[w].nth]
  <2>4. learned' = Counted(learned, o) /\ shared' \in {shared, shared \cup {o}}
    BY <1>5 DEF Fold
  <2>5. o \in Outcome
    BY <1>5 DEF Fold
  <2> HIDE DEF o
  <2>6. learned' \in [Outcome -> 0 .. 2]
    BY <2>4, <2>5, CountedGrows
  <2> QED BY <1>5, <2>3, <2>4, <2>5, <2>6 DEF Fold
<1>6. CASE EndFold(w)
  <2>1. job' \in [Thread -> Locals]
    BY <1>6 DEF EndFold, Locals
  <2> QED BY <1>6, <2>1 DEF EndFold
<1>7. CASE Wipe(w)
  BY <1>7 DEF Wipe
<1>8. CASE Propose(w)
  <2>1. PICK v \in Adjusted(value) : job' = [job EXCEPT ![w].next = v]
    BY <1>8 DEF Propose
  <2>2. v \in Parameter
    BY AdjustedInBounds
  <2>3. job' \in [Thread -> Locals]
    BY <2>1, <2>2 DEF Locals
  <2> QED BY <1>8, <2>3 DEF Propose
<1>9. CASE Assign(w)
  BY <1>9, LearningAssumption DEF Assign, Locals, Parameter
<1>10. CASE Read(w)
  BY <1>10 DEF Read, Locals
<1>11. CASE Diff(w)
  BY <1>11 DEF Diff, Locals
<1>12. CASE Keep(w)
  BY <1>12, LearningAssumption DEF Keep, Locals, Parameter
<1>13. CASE Observe(w) \/ ObserveRaises(w)
  <2>1. job[w].left \in Seq(Outcome) /\ job[w].left # <<>>
    BY <1>13 DEF Observe, ObserveRaises, Locals
  <2>2. Head(job[w].left) \in Outcome /\ Tail(job[w].left) \in Seq(Outcome)
    BY <2>1, HeadTailProperties
  <2> DEFINE mine == [job[w] EXCEPT !.left = Tail(@)]
  <2>6. mine \in Locals
    BY <2>2 DEF Locals
  <2>7. job' = [job EXCEPT ![w] = mine] \/ job' = [job EXCEPT ![w] = NoJob]
    BY <1>13 DEF Observe, ObserveRaises
  <2> HIDE DEF mine
  <2>3. job' \in [Thread -> Locals]
    BY <2>6, <2>7, NoJobTypes
  <2>4. Counted(observed, Head(job[w].left)) \in [Outcome -> 0 .. 2]
    BY <2>2, CountedGrows
  <2>5. raced' \subseteq Outcome
    BY <1>13, <2>1 DEF Observe, ObserveRaises, Elements
  <2> QED BY <1>13, <2>3, <2>4, <2>5 DEF Observe, ObserveRaises
<1>14. CASE Answer(w)
  BY <1>14, NoJobTypes DEF Answer
<1> QED BY <1>1, <1>2, <1>3, <1>4, <1>5, <1>6, <1>7, <1>8, <1>9, <1>10, <1>11,
           <1>12, <1>13, <1>14 DEF LoopTick

LEMMA InitTypes == LearnInit => LearnTypeOK
<1> SUFFICES ASSUME LearnInit PROVE LearnTypeOK
  OBVIOUS
<1>1. value \in Parameter /\ previous \in Parameter \cup {NoSnapshot}
  BY LearningAssumption DEF LearnInit, Parameter
<1>2. place \in [Thread -> Place] /\ job \in [Thread -> Locals]
  BY NoJobTypes DEF LearnInit, Place
<1>3. queue \in Seq(Outcome) /\ samples \in Seq(Outcome)
  BY DEF LearnInit
<1>4. learned \in [Outcome -> 0 .. 2] /\ observed \in [Outcome -> 0 .. 2] /\ ticks \in Nat
  BY DEF LearnInit
<1>5. /\ recorded \subseteq Outcome /\ raced \subseteq Outcome /\ shared \subseteq Outcome
      /\ told \subseteq Parameter /\ unfounded \in BOOLEAN
  BY DEF LearnInit
<1> QED BY <1>1, <1>2, <1>3, <1>4, <1>5 DEF LearnTypeOK

LEMMA NextTypes == LearnTypeOK /\ [LearnNext]_learnVars => LearnTypeOK'
<1> SUFFICES ASSUME LearnTypeOK, [LearnNext]_learnVars PROVE LearnTypeOK'
  OBVIOUS
<1>1. CASE \E o \in Outcome : Record(o)
  BY <1>1, GrownIsSeq DEF Record, LearnTypeOK, learner, news
<1>2. CASE \E w \in Thread : PostTick(w)
  <2>1. PICK w \in Thread : PostTick(w)
    BY <1>2
  <2>2. place' \in [Thread -> Place] /\ job' \in [Thread -> Locals]
    BY <2>1 DEF PostTick, Goto, LearnTypeOK, Place, Locals
  <2> QED BY <2>1, <2>2 DEF PostTick, LearnTypeOK, learner, news
<1>3. CASE \E w \in Thread : LoopTick(w)
  BY <1>3, TickTypes
<1>4. CASE UNCHANGED learnVars
  BY <1>4 DEF LearnTypeOK, learnVars, learner, counts, news
<1> QED BY <1>1, <1>2, <1>3, <1>4 DEF LearnNext

(* However the requests of any number of threads interleave, every         *)
(* variable has its type: the parameter stays in its bounds (slow_loop.py, *)
(* the final clamp) although ticks race.                                   *)
THEOREM LearningTypeCorrect == LearnSpec => []LearnTypeOK
<1>1. LearnInit => LearnTypeOK BY InitTypes
<1>2. LearnTypeOK /\ [LearnNext]_learnVars => LearnTypeOK' BY NextTypes
<1> QED BY <1>1, <1>2, PTL DEF LearnSpec

-----------------------------------------------------------------------------
(* Updates.                                                                *)

(* The snapshot kept was told, and so is one about to be kept.             *)
ToldInv ==
  /\ ~unfounded
  /\ previous # NoSnapshot => previous \in told
  /\ \A w \in Thread : place[w] = "keep" => job[w].snapshot \in told

(* A tick touches no other thread.                                         *)
LEMMA TickIsLocal ==
  ASSUME LearnTypeOK, NEW w \in Thread, LoopTick(w), NEW v \in Thread, v # w
  PROVE  place'[v] = place[v] /\ job'[v] = job[v]
BY DEF LearnTypeOK, LoopTick, Goto, DrainCopy, DrainClear, Submit, EndSubmit, Fold,
       EndFold, Wipe, Propose, Assign, Read, Diff, Keep, Observe, ObserveRaises, Answer

LEMMA TickTold ==
  ASSUME LearnTypeOK, ToldInv, NEW w \in Thread, LoopTick(w) PROVE ToldInv'
<1>0. \A v \in Thread \ {w} : place'[v] = place[v] /\ job'[v] = job[v]
  BY TickIsLocal
<1>1. CASE Diff(w)
  <2>1. /\ place' = [place EXCEPT ![w] = "keep"] /\ job' = job /\ previous' = previous
        /\ place \in [Thread -> Place]
    BY <1>1 DEF Diff, Goto, LearnTypeOK
  <2>2. told \subseteq told' /\ job[w].snapshot \in told'
    BY <1>1 DEF Diff, ToldInv
  <2>3. ~unfounded'
    BY <1>1 DEF Diff, ToldInv
  <2> QED BY <2>1, <2>2, <2>3 DEF ToldInv
<1>2. CASE Keep(w)
  <2>1. /\ place[w] = "keep" /\ place'[w] = "observe" /\ previous' = job[w].snapshot
        /\ told' = told /\ unfounded' = unfounded
    BY <1>2 DEF Keep, Goto, LearnTypeOK, news
  <2> QED BY <1>0, <2>1 DEF ToldInv
<1>3. CASE ~(Diff(w) \/ Keep(w))
  <2>1. place'[w] # "keep" /\ told' = told /\ unfounded' = unfounded /\ previous' = previous
    BY <1>3 DEF LoopTick, Goto, LearnTypeOK, DrainCopy, DrainClear, AfterDrain, Submit,
                EndSubmit, Fold, EndFold, Wipe, Propose, Assign, Read, Observe,
                ObserveRaises, Answer, news
  <2> QED BY <1>0, <2>1 DEF ToldInv
<1> QED BY <1>1, <1>2, <1>3

LEMMA NextTold == ASSUME LearnTypeOK, ToldInv, [LearnNext]_learnVars PROVE ToldInv'
<1>1. CASE \E o \in Outcome : Record(o)
  BY <1>1 DEF Record, ToldInv, news
<1>2. CASE \E w \in Thread : PostTick(w)
  <2>1. PICK w \in Thread : PostTick(w)
    BY <1>2
  <2>2. \A v \in Thread : place'[v] = "keep" => place[v] = "keep" /\ job'[v] = job[v]
    BY <2>1 DEF PostTick, Goto, LearnTypeOK
  <2> QED BY <2>1, <2>2 DEF PostTick, ToldInv, news
<1>3. CASE \E w \in Thread : LoopTick(w)
  BY <1>3, TickTold
<1>4. CASE UNCHANGED learnVars
  BY <1>4 DEF ToldInv, learnVars, news
<1> QED BY <1>1, <1>2, <1>3, <1>4 DEF LearnNext

(* Nobody is told a change that starts from a value never told, however    *)
(* ticks overlap (closed_loop.py tick: diff, emit, keep).                  *)
THEOREM UpdatesStartFromTold == LearnSpec => []UpdatesFromTold
<1>1. LearnInit => ToldInv
  BY DEF LearnInit, ToldInv
<1>2. LearnTypeOK /\ ToldInv /\ [LearnNext]_learnVars => ToldInv'
  BY NextTold
<1>3. ToldInv => UpdatesFromTold
  BY DEF ToldInv, UpdatesFromTold
<1> QED BY <1>1, <1>2, <1>3, LearningTypeCorrect, PTL DEF LearnSpec

-----------------------------------------------------------------------------
(* Sequences of outcomes.                                                  *)

LEMMA ElementsEmpty == Elements(<<>>) = {}
BY DEF Elements

LEMMA ElementsSplit ==
  ASSUME NEW s \in Seq(Outcome), s # <<>>, NEW o \in Elements(s)
  PROVE  o = Head(s) \/ o \in Elements(Tail(s))
<1>1. PICK i \in 1 .. Len(s) : o = s[i]
  BY DEF Elements
<1>2. CASE i = 1
  BY <1>1, <1>2
<1>3. CASE i # 1
  <2>1. i - 1 \in 1 .. Len(Tail(s)) /\ Tail(s)[i - 1] = s[i]
    BY <1>1, <1>3
  <2>2. i - 1 \in DOMAIN Tail(s)
    BY <2>1, HeadTailProperties
  <2> QED BY <1>1, <2>1, <2>2 DEF Elements
<1> QED BY <1>2, <1>3

LEMMA ElementsAppend ==
  ASSUME NEW s \in Seq(Outcome), NEW o \in Outcome
  PROVE  Elements(Append(s, o)) = Elements(s) \cup {o}
<1> DEFINE u == Append(s, o)
<1>1. /\ u \in Seq(Outcome) /\ Len(u) = Len(s) + 1 /\ u[Len(s) + 1] = o
      /\ \A i \in 1 .. Len(s) : u[i] = s[i]
  BY AppendProperties
<1>2. DOMAIN s = 1 .. Len(s) /\ DOMAIN u = 1 .. Len(s) + 1 /\ Len(s) \in Nat
  BY <1>1
<1> HIDE DEF u
<1>3. Elements(u) = Elements(s) \cup {o}
  BY <1>1, <1>2 DEF Elements
<1> QED BY <1>3 DEF u

-----------------------------------------------------------------------------
(* No outcome is lost but in the two races.                                *)

(* What a tick has in hand, by the statement it stands at.                 *)
Handed(w) ==
  /\ place[w] \in {"idle", "copy"} => job[w].drained = <<>>
  /\ place[w] \notin {"submit", "observe"} => job[w].left = job[w].drained
  /\ place[w] = "clear" => \A o \in Elements(queue) :
                             o \in raced \/ o \in Elements(job[w].drained)
  /\ place[w] = "observe" => \A o \in Elements(job[w].drained) :
                               o \in Elements(job[w].left) \/ observed[o] > 0

KeptInv == /\ \A w \in Thread : Handed(w)
           /\ \A o \in recorded \ raced : Kept(o)

LEMMA InitKept == LearnInit => KeptInv
BY ElementsEmpty DEF LearnInit, KeptInv, Handed, NoJob

(* A record made while a tick is between its copy and its clear is raced.  *)
LEMMA RecordKeeps ==
  ASSUME LearnTypeOK, KeptInv, NEW o \in Outcome, Record(o) PROVE KeptInv'
<1>1. /\ Elements(queue') = Elements(queue) \cup {o} /\ raced \subseteq raced'
      /\ recorded' = recorded \cup {o}
      /\ UNCHANGED <<place, job, observed>>
      /\ (\E w \in Thread : place[w] = "clear") => o \in raced'
  BY ElementsAppend DEF Record, LearnTypeOK
<1>2. ASSUME NEW w \in Thread PROVE Handed(w)'
  BY <1>1 DEF KeptInv, Handed
<1>3. ASSUME NEW x \in recorded' \ raced' PROVE Kept(x)'
  BY <1>1 DEF KeptInv, Kept
<1> QED BY <1>2, <1>3 DEF KeptInv

(* A tick that leaves the queue, the statistics and its hands alone.       *)
LEMMA StillKept ==
  ASSUME LearnTypeOK, KeptInv, NEW w \in Thread,
         UNCHANGED <<queue, recorded, raced, observed>>,
         job'[w].drained = job[w].drained,
         \A v \in Thread \ {w} : place'[v] = place[v] /\ job'[v] = job[v],
         Handed(w)'
  PROVE  KeptInv'
<1>1. ASSUME NEW v \in Thread PROVE Handed(v)'
  BY DEF KeptInv, Handed
<1>2. ASSUME NEW o \in recorded' \ raced' PROVE Kept(o)'
  BY DEF KeptInv, Kept
<1> QED BY <1>1, <1>2 DEF KeptInv

LEMMA ObserveKeeps ==
  ASSUME LearnTypeOK, KeptInv, NEW w \in Thread, Observe(w) \/ ObserveRaises(w)
  PROVE  KeptInv'
<1> DEFINE o == Head(job[w].left)
<1>1. /\ job[w].left \in Seq(Outcome) /\ job[w].left # <<>> /\ place[w] = "observe"
      /\ job \in [Thread -> Locals] /\ place \in [Thread -> Place]
      /\ observed \in [Outcome -> 0 .. 2]
  BY DEF Observe, ObserveRaises, LearnTypeOK, Locals
<1>2. o \in Outcome
  BY <1>1, HeadTailProperties
<1>3. observed' = Counted(observed, o) /\ UNCHANGED <<queue, recorded>> /\ raced \subseteq raced'
  BY DEF Observe, ObserveRaises
<1>4. observed'[o] > 0 /\ \A x \in Outcome : observed[x] > 0 => observed'[x] > 0
  BY <1>1, <1>2, <1>3, CountedGrows
<1>5. \A x \in Elements(job[w].left) : x = o \/ x \in Elements(Tail(job[w].left))
  BY <1>1, ElementsSplit
<1>6. \A v \in Thread \ {w} : place'[v] = place[v] /\ job'[v] = job[v]
  BY <1>1 DEF Observe, ObserveRaises
<1>7. \A v \in Thread : Elements(job[v].drained) \subseteq Outcome
  BY <1>1 DEF Locals, Elements
<1>8. recorded \subseteq Outcome
  BY DEF LearnTypeOK
<1> HIDE DEF o
<1>9. ASSUME NEW v \in Thread \ {w} PROVE Handed(v)'
  BY <1>3, <1>4, <1>6, <1>7 DEF KeptInv, Handed
<1>10. CASE Observe(w)
  <2>1. /\ place'[w] = "observe" /\ job'[w].drained = job[w].drained
        /\ job'[w].left = Tail(job[w].left) /\ raced' = raced
    BY <1>1, <1>10 DEF Observe, Locals
  <2>2. Handed(w)'
    BY <1>1, <1>4, <1>5, <1>7, <2>1 DEF KeptInv, Handed
  <2>3. ASSUME NEW x \in recorded' \ raced' PROVE Kept(x)'
    BY <1>3, <1>4, <1>6, <1>8, <2>1 DEF KeptInv, Kept
  <2> QED BY <1>9, <2>2, <2>3 DEF KeptInv
<1>11. CASE ObserveRaises(w)
  <2>1. /\ place'[w] = "idle" /\ job'[w] = NoJob
        /\ raced' = raced \cup Elements(job[w].left)
    BY <1>1, <1>11 DEF ObserveRaises
  <2>2. Handed(w)'
    BY <2>1 DEF Handed, NoJob
  <2>3. ASSUME NEW x \in recorded' \ raced' PROVE Kept(x)'
    <3>1. x \in recorded \ raced /\ x \notin Elements(job[w].left) /\ x \in Outcome
      BY <1>3, <1>8, <2>1
    <3>2. CASE x \in Elements(job[w].drained)
      BY <1>1, <1>4, <3>1, <3>2 DEF KeptInv, Handed, Kept
    <3>3. CASE x \notin Elements(job[w].drained)
      BY <1>3, <1>4, <1>6, <3>1, <3>3 DEF KeptInv, Kept
    <3> QED BY <3>2, <3>3
  <2> QED BY <1>9, <2>2, <2>3 DEF KeptInv
<1> QED BY <1>10, <1>11

LEMMA TickKeeps ==
  ASSUME LearnTypeOK, KeptInv, NEW w \in Thread, LoopTick(w) PROVE KeptInv'
<1>0. /\ place \in [Thread -> Place] /\ job \in [Thread -> Locals] /\ Handed(w)
      /\ \A v \in Thread \ {w} : place'[v] = place[v] /\ job'[v] = job[v]
  BY TickIsLocal DEF LearnTypeOK, KeptInv
<1>1. CASE DrainCopy(w)
  <2>1. /\ place[w] = "copy" /\ place'[w] = "clear"
        /\ job'[w].drained = queue /\ job'[w].left = queue
        /\ UNCHANGED <<queue, recorded, raced, observed>>
    BY <1>0, <1>1 DEF DrainCopy, Goto, Locals
  <2>2. ASSUME NEW v \in Thread PROVE Handed(v)'
    BY <1>0, <2>1 DEF KeptInv, Handed
  <2>3. Elements(job[w].drained) = {}
    BY <1>0, <2>1, ElementsEmpty DEF Handed
  <2>4. ASSUME NEW o \in recorded' \ raced' PROVE Kept(o)'
    BY <1>0, <2>1, <2>3 DEF KeptInv, Kept
  <2> QED BY <2>2, <2>4 DEF KeptInv
<1>2. CASE DrainClear(w)
  <2>1. /\ place[w] = "clear" /\ place'[w] \in {"submit", "observe"} /\ job' = job
        /\ queue' = <<>> /\ UNCHANGED <<recorded, raced, observed>>
    BY <1>0, <1>2 DEF DrainClear, Goto, AfterDrain, counts
  <2>2. Elements(queue') = {}
    BY <2>1, ElementsEmpty
  <2>3. ASSUME NEW v \in Thread PROVE Handed(v)'
    BY <1>0, <2>1, <2>2 DEF KeptInv, Handed
  <2>4. ASSUME NEW o \in recorded' \ raced' PROVE Kept(o)'
    BY <1>0, <2>1, <2>2 DEF KeptInv, Kept, Handed
  <2> QED BY <2>3, <2>4 DEF KeptInv
<1>3. CASE Submit(w)
  <2>1. /\ place[w] = "submit" /\ place'[w] = "submit"
        /\ job'[w].drained = job[w].drained /\ UNCHANGED <<queue, recorded, raced, observed>>
    BY <1>0, <1>3 DEF Submit, Locals, counts
  <2> QED BY <1>0, <2>1, StillKept DEF Handed
<1>4. CASE EndSubmit(w)
  <2>1. /\ place'[w] \in {"read", "fold"}
        /\ job'[w].drained = job[w].drained /\ job'[w].left = job[w].drained
        /\ UNCHANGED <<queue, recorded, raced, observed>>
    BY <1>0, <1>4 DEF EndSubmit, Goto, Locals, counts
  <2> QED BY <1>0, <2>1, StillKept DEF Handed
<1>5. CASE Fold(w) \/ EndFold(w) \/ Wipe(w) \/ Propose(w) \/ Assign(w) \/ Read(w) \/ Diff(w)
  <2>1. /\ place[w] \in {"fold", "wipe", "propose", "assign", "read", "diff"}
        /\ place'[w] \in {"fold", "wipe", "propose", "assign", "read", "diff", "keep"}
        /\ UNCHANGED <<queue, recorded, raced, observed>>
    BY <1>0, <1>5 DEF Fold, EndFold, Wipe, Propose, Assign, Read, Diff, Goto, counts
  <2>2. job'[w].drained = job[w].drained /\ job'[w].left = job[w].left
    BY <1>0, <1>5 DEF Fold, EndFold, Wipe, Propose, Assign, Read, Diff, Locals
  <2> QED BY <1>0, <2>1, <2>2, StillKept DEF Handed
<1>6. CASE Keep(w)
  <2>1. /\ place[w] = "keep" /\ place'[w] = "observe"
        /\ job'[w].drained = job[w].drained /\ job'[w].left = job[w].left
        /\ UNCHANGED <<queue, recorded, raced, observed>>
    BY <1>0, <1>6 DEF Keep, Goto, Locals, counts
  <2> QED BY <1>0, <2>1, StillKept DEF Handed
<1>7. CASE Observe(w) \/ ObserveRaises(w)
  BY <1>7, ObserveKeeps
<1>8. CASE Answer(w)
  <2>1. /\ place[w] = "observe" /\ place'[w] = "idle" /\ job[w].left = <<>>
        /\ job'[w] = NoJob /\ UNCHANGED <<queue, recorded, raced, observed>>
    BY <1>0, <1>8 DEF Answer, Goto, counts
  <2>2. \A o \in Elements(job[w].drained) : observed[o] > 0
    BY <1>0, <2>1, ElementsEmpty DEF Handed
  <2>3. ASSUME NEW v \in Thread PROVE Handed(v)'
    BY <1>0, <2>1 DEF KeptInv, Handed, NoJob
  <2>4. ASSUME NEW o \in recorded' \ raced' PROVE Kept(o)'
    BY <1>0, <2>1, <2>2 DEF KeptInv, Kept
  <2> QED BY <2>3, <2>4 DEF KeptInv
<1> QED BY <1>1, <1>2, <1>3, <1>4, <1>5, <1>6, <1>7, <1>8 DEF LoopTick

LEMMA NextKept == ASSUME LearnTypeOK, KeptInv, [LearnNext]_learnVars PROVE KeptInv'
<1>1. CASE \E o \in Outcome : Record(o)
  BY <1>1, RecordKeeps
<1>2. CASE \E w \in Thread : PostTick(w)
  <2>1. PICK w \in Thread : PostTick(w)
    BY <1>2
  <2>2. /\ place[w] = "idle" /\ place'[w] = "copy"
        /\ job'[w].drained = job[w].drained /\ job'[w].left = job[w].left
        /\ \A v \in Thread \ {w} : place'[v] = place[v] /\ job'[v] = job[v]
        /\ UNCHANGED <<queue, recorded, raced, observed>>
    BY <2>1 DEF PostTick, Goto, LearnTypeOK, Locals
  <2> QED BY <2>2, StillKept DEF KeptInv, Handed
<1>3. CASE \E w \in Thread : LoopTick(w)
  BY <1>3, TickKeeps
<1>4. CASE UNCHANGED learnVars
  BY <1>4 DEF KeptInv, Handed, Kept, learnVars, counts
<1> QED BY <1>1, <1>2, <1>3, <1>4 DEF LearnNext

(* An outcome is lost only when it is recorded between a tick's copy of    *)
(* the queue and its clear, or in the hands of a tick that sums up its     *)
(* statistics while another tick adds to them (feedback.py drain,          *)
(* patch_outcome_feedback.py observe), frozen or not.                      *)
THEOREM OutcomesLostInRacesOnly == LearnSpec => []OutcomesKept
<1>1. LearnTypeOK /\ KeptInv /\ [LearnNext]_learnVars => KeptInv'
  BY NextKept
<1>2. KeptInv => OutcomesKept
  BY DEF KeptInv, OutcomesKept
<1> QED BY <1>1, <1>2, InitKept, LearningTypeCorrect, PTL DEF LearnSpec

-----------------------------------------------------------------------------
(* No outcome is counted twice but by ticks that overlap.                  *)

Distinct(s) == \A i, j \in DOMAIN s : s[i] = s[j] => i = j

LEMMA AppendDistinct ==
  ASSUME NEW s \in Seq(Outcome), Distinct(s), NEW o \in Outcome, o \notin Elements(s)
  PROVE  Distinct(Append(s, o))
<1> DEFINE u == Append(s, o)
<1>1. /\ u \in Seq(Outcome) /\ Len(u) = Len(s) + 1 /\ u[Len(s) + 1] = o
      /\ \A i \in 1 .. Len(s) : u[i] = s[i]
  BY AppendProperties
<1>2. DOMAIN s = 1 .. Len(s) /\ DOMAIN u = 1 .. Len(s) + 1 /\ Len(s) \in Nat
  BY <1>1
<1> HIDE DEF u
<1>3. Distinct(u)
  BY <1>1, <1>2 DEF Distinct, Elements
<1> QED BY <1>3 DEF u

LEMMA TailIndex ==
  ASSUME NEW s \in Seq(Outcome), s # <<>>
  PROVE  /\ Tail(s) \in Seq(Outcome) /\ 1 \in DOMAIN s /\ Head(s) = s[1]
         /\ \A i \in DOMAIN Tail(s) :
              i \in Nat \ {0} /\ i + 1 \in DOMAIN s /\ Tail(s)[i] = s[i + 1]
<1> DEFINE t == Tail(s)
<1>1. /\ t \in Seq(Outcome) /\ Len(t) = Len(s) - 1 /\ Len(s) \in Nat \ {0}
      /\ \A i \in 1 .. Len(t) : t[i] = s[i + 1]
      /\ Head(s) = s[1]
  BY HeadTailProperties
<1>2. DOMAIN s = 1 .. Len(s) /\ DOMAIN t = 1 .. Len(t)
  BY <1>1
<1> HIDE DEF t
<1>3. /\ 1 \in DOMAIN s
      /\ \A i \in DOMAIN t : i \in Nat \ {0} /\ i + 1 \in DOMAIN s /\ t[i] = s[i + 1]
  BY <1>1, <1>2
<1> QED BY <1>1, <1>3 DEF t

LEMMA TailDistinct ==
  ASSUME NEW s \in Seq(Outcome), s # <<>>, Distinct(s)
  PROVE  /\ Distinct(Tail(s)) /\ Head(s) \in Elements(s)
         /\ Elements(Tail(s)) \subseteq Elements(s) \ {Head(s)}
<1> DEFINE t == Tail(s)
<1>1. /\ 1 \in DOMAIN s /\ Head(s) = s[1]
      /\ \A i \in DOMAIN t : i \in Nat \ {0} /\ i + 1 \in DOMAIN s /\ t[i] = s[i + 1]
  BY TailIndex
<1> HIDE DEF t
<1>2. Distinct(t)
  <2> SUFFICES ASSUME NEW i \in DOMAIN t, NEW j \in DOMAIN t, t[i] = t[j] PROVE i = j
    BY DEF Distinct
  <2>1. i + 1 = j + 1 /\ i \in Nat /\ j \in Nat
    BY <1>1 DEF Distinct
  <2> QED BY <2>1
<1>3. \A i \in DOMAIN t : i + 1 # 1
  BY <1>1
<1>4. Elements(t) \subseteq Elements(s) \ {Head(s)}
  BY <1>1, <1>3 DEF Distinct, Elements
<1> QED BY <1>1, <1>2, <1>4 DEF Elements, t

(* Where an outcome may occur, while nobody shares it.                     *)
Placed ==
  /\ Distinct(queue)
  /\ Elements(queue) \subseteq recorded /\ Elements(samples) \subseteq recorded
  /\ \A w \in Thread : /\ Distinct(job[w].drained) /\ Distinct(job[w].left)
                        /\ Elements(job[w].drained) \subseteq recorded
                        /\ Elements(job[w].left) \subseteq Elements(job[w].drained)

Unlearned(o) == learned[o] = 0 /\ o \notin Elements(samples)

InOneHand(o) == \A v, w \in Thread :
  o \in Elements(job[v].drained) /\ o \in Elements(job[w].drained) => v = w

Untaken(o) == o \in Elements(queue) =>
  /\ Unlearned(o) /\ observed[o] = 0
  /\ \A w \in Thread : o \in Elements(job[w].drained) => place[w] = "clear"

HeldNew(o, w) == o \in Elements(job[w].drained) =>
  /\ place[w] = "clear" => Unlearned(o)
  /\ place[w] = "submit" /\ o \in Elements(job[w].left) => Unlearned(o)
  /\ place[w] # "observe" \/ o \in Elements(job[w].left) => observed[o] = 0

(* A thread whose fold is past the sample and whose wipe is still to come. *)
Past(w, i) == place[w] = "wipe" \/ (place[w] = "fold" /\ i < job[w].nth)

Sampled(o) == \A i \in DOMAIN samples : samples[i] = o =>
  /\ \A j \in DOMAIN samples : samples[j] = o => i = j
  /\ learned[o] = 0 \/ \E w \in Thread : Past(w, i)

AtMostOnce(o) ==
  /\ learned[o] <= 1 /\ observed[o] <= 1
  /\ o \notin recorded => learned[o] = 0 /\ observed[o] = 0

Single(o) == /\ InOneHand(o) /\ Untaken(o) /\ Sampled(o) /\ AtMostOnce(o)
             /\ \A w \in Thread : HeldNew(o, w)

OnceInv == Placed /\ \A o \in Outcome \ shared : Single(o)

LEMMA InitOnce == LearnInit => OnceInv
<1> SUFFICES ASSUME LearnInit PROVE OnceInv
  OBVIOUS
<1>1. \A w \in Thread : job[w].drained = <<>> /\ job[w].left = <<>>
  BY DEF LearnInit, NoJob
<1>2. queue = <<>> /\ samples = <<>> /\ \A o \in Outcome : learned[o] = 0 /\ observed[o] = 0
  BY DEF LearnInit
<1>3. Distinct(<<>>) /\ Elements(<<>>) = {}
  BY DEF Distinct, Elements
<1>4. Placed
  BY <1>1, <1>2, <1>3 DEF Placed
<1>5. \A o \in Outcome : Single(o)
  BY <1>1, <1>2, <1>3 DEF Single, InOneHand, Untaken, Sampled, AtMostOnce, HeldNew
<1> QED BY <1>4, <1>5 DEF OnceInv

LEMMA RecordOnce ==
  ASSUME LearnTypeOK, OnceInv, NEW x \in Outcome, Record(x) PROVE OnceInv'
<1>1. /\ x \notin recorded /\ queue' = Append(queue, x) /\ queue \in Seq(Outcome)
      /\ recorded' = recorded \cup {x}
      /\ UNCHANGED <<samples, place, job, learned, observed, shared>>
  BY DEF Record, LearnTypeOK, learner
<1>2. Elements(queue') = Elements(queue) \cup {x}
  BY <1>1, ElementsAppend
<1>3. Distinct(queue')
  BY <1>1, AppendDistinct DEF OnceInv, Placed
<1>4. Placed'
  BY <1>1, <1>2, <1>3 DEF OnceInv, Placed
<1>5. /\ x \notin Elements(samples)
      /\ \A w \in Thread : x \notin Elements(job[w].drained)
  BY <1>1 DEF OnceInv, Placed
<1>6. ASSUME NEW o \in Outcome \ shared PROVE Single(o)'
  <2>1. Single(o) /\ InOneHand(o)' /\ Sampled(o)' /\ \A w \in Thread : HeldNew(o, w)'
    BY <1>1 DEF OnceInv, Single, InOneHand, Sampled, Past, HeldNew, Unlearned
  <2>2. AtMostOnce(o)'
    BY <1>1, <2>1 DEF Single, AtMostOnce
  <2>3. Untaken(o)'
    BY <1>1, <1>2, <1>5, <2>1 DEF Single, Untaken, AtMostOnce, Unlearned
  <2> QED BY <2>1, <2>2, <2>3 DEF Single
<1> QED BY <1>1, <1>4, <1>6 DEF OnceInv

(* A step of w that counts nothing and takes nothing.                      *)
LEMMA StillSingle ==
  ASSUME OnceInv, NEW w \in Thread, NEW o \in Outcome \ shared,
         UNCHANGED <<queue, samples, recorded, learned, observed>>,
         \A v \in Thread \ {w} : place'[v] = place[v] /\ job'[v] = job[v],
         Elements(job'[w].drained) \subseteq Elements(job[w].drained),
         place[w] # "clear", HeldNew(o, w)',
         \A i \in DOMAIN samples : Past(w, i) => Past(w, i)'
  PROVE  Single(o)'
<1>0. Single(o)
  BY DEF OnceInv
<1>1. InOneHand(o)'
  BY <1>0 DEF Single, InOneHand
<1>2. Untaken(o)'
  <2> SUFFICES ASSUME o \in Elements(queue)
               PROVE  /\ Unlearned(o)' /\ observed'[o] = 0
                      /\ \A v \in Thread : o \in Elements(job'[v].drained)
                                          => place'[v] = "clear"
    BY DEF Untaken
  <2>1. /\ Unlearned(o) /\ observed[o] = 0
        /\ \A v \in Thread : o \in Elements(job[v].drained) => place[v] = "clear"
    BY <1>0 DEF Single, Untaken
  <2>2. o \notin Elements(job'[w].drained)
    BY <2>1
  <2> QED BY <2>1, <2>2 DEF Unlearned
<1>3. ASSUME NEW v \in Thread PROVE HeldNew(o, v)'
  BY <1>0 DEF Single, HeldNew, Unlearned
<1>4. \A v \in Thread, i \in DOMAIN samples : Past(v, i) => Past(v, i)'
  BY DEF Past
<1>5. Sampled(o)'
  BY <1>0, <1>4 DEF Single, Sampled
<1>6. AtMostOnce(o)'
  BY <1>0 DEF Single, AtMostOnce
<1> QED BY <1>1, <1>2, <1>3, <1>5, <1>6 DEF Single

LEMMA CopyOnce ==
  ASSUME LearnTypeOK, KeptInv, OnceInv, NEW w \in Thread, DrainCopy(w) PROVE OnceInv'
<1>1. /\ place[w] = "copy" /\ place' = [place EXCEPT ![w] = "clear"]
      /\ place \in [Thread -> Place] /\ job \in [Thread -> Locals]
      /\ UNCHANGED <<queue, samples, recorded, learned, observed>>
  BY DEF DrainCopy, Goto, LearnTypeOK, learner
<1>2. /\ job'[w].drained = queue /\ job'[w].left = queue
      /\ \A v \in Thread \ {w} : job'[v] = job[v] /\ place'[v] = place[v]
      /\ place'[w] = "clear"
  BY <1>1 DEF DrainCopy, Locals
<1>3. shared \subseteq shared'
  BY DEF DrainCopy
<1>4. Placed'
  BY <1>1, <1>2 DEF OnceInv, Placed
<1>5. ASSUME NEW o \in Outcome \ shared' PROVE Single(o)'
  <2>1. Single(o)
    BY <1>3 DEF OnceInv
  <2>2. o \in Elements(queue) => \A v \in Thread \ {w} : o \notin Elements(job[v].drained)
    BY <2>1 DEF Single, Untaken, DrainCopy
  <2>3. InOneHand(o)'
    BY <1>2, <2>1, <2>2 DEF Single, InOneHand
  <2>4. Untaken(o)'
    BY <1>1, <1>2, <2>1, <2>2 DEF Single, Untaken, Unlearned
  <2>5. ASSUME NEW v \in Thread PROVE HeldNew(o, v)'
    BY <1>1, <1>2, <2>1 DEF Single, HeldNew, Untaken, Unlearned
  <2>6. Sampled(o)'
    <3>1. ASSUME NEW v \in Thread, NEW i \in DOMAIN samples, Past(v, i) PROVE Past(v, i)'
      BY <1>1, <1>2, <3>1 DEF Past
    <3> QED BY <1>1, <2>1, <3>1 DEF Single, Sampled
  <2>7. AtMostOnce(o)'
    BY <1>1, <2>1 DEF Single, AtMostOnce
  <2> QED BY <2>3, <2>4, <2>5, <2>6, <2>7 DEF Single
<1> QED BY <1>4, <1>5 DEF OnceInv

LEMMA ClearOnce ==
  ASSUME LearnTypeOK, KeptInv, OnceInv, NEW w \in Thread, DrainClear(w) PROVE OnceInv'
<1>1. /\ place[w] = "clear" /\ place'[w] \in {"submit", "observe"} /\ queue' = <<>>
      /\ \A v \in Thread \ {w} : place'[v] = place[v]
      /\ UNCHANGED <<samples, job, recorded, learned, observed, shared>>
  BY DEF DrainClear, Goto, AfterDrain, LearnTypeOK, learner, counts
<1>2. Distinct(<<>>) /\ Elements(<<>>) = {}
  BY DEF Distinct, Elements
<1>3. Placed'
  BY <1>1, <1>2 DEF OnceInv, Placed
<1>4. ASSUME NEW o \in Outcome \ shared' PROVE Single(o)'
  <2>1. Single(o)
    BY <1>1 DEF OnceInv
  <2>2. InOneHand(o)' /\ Untaken(o)' /\ AtMostOnce(o)'
    BY <1>1, <1>2, <2>1 DEF Single, InOneHand, Untaken, AtMostOnce
  <2>3. ASSUME NEW v \in Thread PROVE HeldNew(o, v)'
    BY <1>1, <2>1 DEF Single, HeldNew, Unlearned
  <2>4. Sampled(o)'
    <3>1. ASSUME NEW v \in Thread, NEW i \in DOMAIN samples, Past(v, i) PROVE Past(v, i)'
      BY <1>1, <3>1 DEF Past
    <3> QED BY <1>1, <2>1, <3>1 DEF Single, Sampled
  <2> QED BY <2>2, <2>3, <2>4 DEF Single
<1> QED BY <1>1, <1>3, <1>4 DEF OnceInv

(* The samples after a submission: the new one last, the others where they *)
(* were or one further to the front.                                       *)
LEMMA SubmitIndex ==
  ASSUME LearnTypeOK, NEW w \in Thread, Submit(w)
  PROVE  /\ \A i \in DOMAIN samples' : i \in Nat
         /\ \E d \in {0, 1} : \A i \in DOMAIN samples' :
              \/ i = Len(samples') /\ samples'[i] = Head(job[w].left)
              \/ i + d \in DOMAIN samples /\ samples'[i] = samples[i + d]
<1> DEFINE o == Head(job[w].left)
           grown == Append(samples, o)
<1>1. /\ job[w].left \in Seq(Outcome) /\ job[w].left # <<>> /\ samples \in Seq(Outcome)
  BY DEF Submit, LearnTypeOK, Locals
<1>2. o \in Outcome
  BY <1>1, HeadTailProperties
<1>3. samples' = IF Len(grown) > MaxSamples THEN Tail(grown) ELSE grown
  BY DEF Submit
<1>4. /\ grown \in Seq(Outcome) /\ grown # <<>> /\ grown[Len(samples) + 1] = o
      /\ Len(grown) = Len(samples) + 1 /\ Len(samples) \in Nat
      /\ \A i \in 1 .. Len(samples) : grown[i] = samples[i]
  BY <1>1, <1>2, AppendProperties
<1> HIDE DEF grown
<1>5. DOMAIN samples = 1 .. Len(samples) /\ DOMAIN grown = 1 .. Len(samples) + 1
  BY <1>1, <1>4
<1>6. CASE samples' = grown
  <2>1. ASSUME NEW i \in DOMAIN samples'
        PROVE  /\ i \in Nat
               /\ \/ i = Len(samples') /\ samples'[i] = o
                  \/ i + 0 \in DOMAIN samples /\ samples'[i] = samples[i + 0]
    BY <1>4, <1>5, <1>6
  <2> QED BY <2>1
<1>7. CASE samples' = Tail(grown)
  <2>1. Len(Tail(grown)) = Len(samples)
    BY <1>4, HeadTailProperties
  <2>2. \A i \in DOMAIN samples' :
          i \in Nat \ {0} /\ i + 1 \in DOMAIN grown /\ samples'[i] = grown[i + 1]
    BY <1>4, <1>7, TailIndex
  <2>3. ASSUME NEW i \in DOMAIN samples'
        PROVE  /\ i \in Nat
               /\ \/ i = Len(samples') /\ samples'[i] = o
                  \/ i + 1 \in DOMAIN samples /\ samples'[i] = samples[i + 1]
    BY <1>4, <1>5, <1>7, <2>1, <2>2
  <2> QED BY <2>3
<1> QED BY <1>3, <1>6, <1>7

LEMMA SubmitOnce ==
  ASSUME LearnTypeOK, KeptInv, OnceInv, NEW w \in Thread, Submit(w) PROVE OnceInv'
<1> DEFINE x == Head(job[w].left)
<1>1. /\ job[w].left \in Seq(Outcome) /\ job[w].left # <<>> /\ place[w] = "submit"
      /\ job \in [Thread -> Locals] /\ samples \in Seq(Outcome) /\ place' = place
      /\ UNCHANGED <<queue, recorded, learned, observed, shared>>
  BY DEF Submit, LearnTypeOK, Locals, counts
<1>2. /\ job'[w].left = Tail(job[w].left) /\ job'[w].drained = job[w].drained
      /\ job'[w].nth = job[w].nth
      /\ \A v \in Thread \ {w} : job'[v] = job[v]
  BY <1>1 DEF Submit, Locals
<1>3. /\ x \in Elements(job[w].left) /\ x \in Elements(job[w].drained) /\ x \in recorded
      /\ Distinct(Tail(job[w].left))
      /\ Elements(Tail(job[w].left)) \subseteq Elements(job[w].left) \ {x}
  BY <1>1, TailDistinct DEF OnceInv, Placed
<1>4. PICK d \in {0, 1} : \A i \in DOMAIN samples' :
              \/ i = Len(samples') /\ samples'[i] = x
              \/ i + d \in DOMAIN samples /\ samples'[i] = samples[i + d]
  BY SubmitIndex
<1>5. \A i \in DOMAIN samples' : i \in Nat
  BY SubmitIndex
<1> HIDE DEF x
<1>6. Elements(samples') \subseteq Elements(samples) \cup {x}
  BY <1>4 DEF Elements
<1>7. Placed'
  BY <1>1, <1>2, <1>3, <1>6 DEF OnceInv, Placed
<1>8. ASSUME NEW o \in Outcome \ shared' PROVE Single(o)'
  <2>0. Single(o)
    BY <1>1 DEF OnceInv
  <2>1. InOneHand(o)' /\ AtMostOnce(o)'
    BY <1>1, <1>2, <2>0 DEF Single, InOneHand, AtMostOnce
  <2>2. o = x => Unlearned(o) /\ o \notin Elements(queue)
    BY <1>1, <1>3, <2>0 DEF Single, HeldNew, Untaken
  <2>3. o # x /\ Unlearned(o) => Unlearned(o)'
    BY <1>1, <1>6 DEF Unlearned
  <2>4. Untaken(o)'
    BY <1>1, <1>2, <2>0, <2>2, <2>3 DEF Single, Untaken
  <2>5. ASSUME NEW v \in Thread PROVE HeldNew(o, v)'
    <3>1. CASE v = w
      BY <1>1, <1>2, <1>3, <2>0, <2>3, <3>1 DEF Single, HeldNew
    <3>2. CASE v # w /\ o = x
      BY <1>2, <1>3, <2>0, <3>2 DEF Single, InOneHand, HeldNew
    <3>3. CASE v # w /\ o # x
      BY <1>1, <1>2, <2>0, <2>3, <3>3 DEF Single, HeldNew
    <3> QED BY <3>1, <3>2, <3>3
  <2>6. Sampled(o)'
    <3> SUFFICES ASSUME NEW i \in DOMAIN samples', samples'[i] = o
                 PROVE  /\ \A j \in DOMAIN samples' : samples'[j] = o => i = j
                        /\ learned'[o] = 0 \/ \E v \in Thread : Past(v, i)'
      BY DEF Sampled
    <3>1. CASE o = x
      <4>1. \A k \in DOMAIN samples : samples[k] # o
        BY <2>2, <3>1 DEF Unlearned, Elements
      <4>2. learned[o] = 0
        BY <2>2, <3>1 DEF Unlearned
      <4>3. \A j \in DOMAIN samples' : samples'[j] = o => j = Len(samples')
        BY <1>4, <4>1
      <4> QED BY <1>1, <4>2, <4>3
    <3>2. CASE o # x
      <4>1. i + d \in DOMAIN samples /\ samples[i + d] = o
        BY <1>4, <3>2
      <4>2. ASSUME NEW j \in DOMAIN samples', samples'[j] = o PROVE i = j
        <5>1. j + d \in DOMAIN samples /\ samples[j + d] = o
          BY <1>4, <3>2, <4>2
        <5>2. i + d = j + d
          BY <2>0, <4>1, <5>1 DEF Single, Sampled
        <5> QED BY <1>5, <5>2
      <4>3. learned[o] = 0 \/ \E v \in Thread : Past(v, i + d)
        BY <2>0, <4>1 DEF Single, Sampled
      <4>4. ASSUME NEW v \in Thread, Past(v, i + d) PROVE Past(v, i)'
        <5>1. job'[v].nth = job[v].nth /\ job[v].nth \in Nat /\ i \in Nat
          BY <1>1, <1>2, <1>5 DEF Locals
        <5> QED BY <1>1, <4>4, <5>1 DEF Past
      <4> QED BY <1>1, <4>2, <4>3, <4>4
    <3> QED BY <3>1, <3>2
  <2> QED BY <2>1, <2>4, <2>5, <2>6 DEF Single
<1> QED BY <1>1, <1>7, <1>8 DEF OnceInv

LEMMA FoldOnce ==
  ASSUME LearnTypeOK, KeptInv, OnceInv, NEW w \in Thread, Fold(w) PROVE OnceInv'
<1>0. PICK n \in Nat : n = job[w].nth
  BY DEF LearnTypeOK, Locals
<1> DEFINE x == samples[n]
<1>1. /\ place[w] = "fold" /\ n \in DOMAIN samples
      /\ place \in [Thread -> Place] /\ job \in [Thread -> Locals]
      /\ learned \in [Outcome -> 0 .. 2] /\ samples \in Seq(Outcome)
      /\ UNCHANGED <<queue, samples, place, recorded, observed>>
  BY <1>0 DEF Fold, LearnTypeOK, learner
<1>2. /\ job'[w].left = job[w].left /\ job'[w].drained = job[w].drained
      /\ job'[w].nth = n + 1
      /\ \A v \in Thread \ {w} : job'[v] = job[v]
  BY <1>0, <1>1 DEF Fold, Locals
<1>3. /\ learned' = Counted(learned, x)
      /\ shared' = IF \E v \in Thread \ {w} : place[v] \in {"fold", "wipe"}
                   THEN shared \cup {x} ELSE shared
  BY <1>0 DEF Fold
<1>4. x \in Outcome /\ x \in Elements(samples) /\ x \in recorded
  BY <1>1 DEF Elements, OnceInv, Placed
<1> HIDE DEF x
<1>5. Placed'
  BY <1>1, <1>2 DEF OnceInv, Placed
<1>6. \A o \in Outcome : o # x => learned'[o] = learned[o]
  BY <1>1, <1>3, <1>4, CountedGrows
<1>7. ASSUME NEW o \in Outcome \ shared' PROVE Single(o)'
  <2>0. Single(o)
    BY <1>3 DEF OnceInv
  <2>1. InOneHand(o)'
    BY <1>2, <2>0 DEF Single, InOneHand
  <2>2. Unlearned(o) => Unlearned(o)'
    BY <1>1, <1>4, <1>6 DEF Unlearned
  <2>3. Untaken(o)'
    BY <1>1, <1>2, <2>0, <2>2 DEF Single, Untaken
  <2>4. ASSUME NEW v \in Thread PROVE HeldNew(o, v)'
    BY <1>1, <1>2, <2>0, <2>2 DEF Single, HeldNew
  <2>5. ASSUME NEW v \in Thread, NEW i \in DOMAIN samples, Past(v, i) PROVE Past(v, i)'
    <3>1. i \in Nat
      BY <1>1
    <3> QED BY <1>0, <1>1, <1>2, <2>5, <3>1 DEF Past
  <2>6. CASE o # x
    <3>1. Sampled(o)' /\ AtMostOnce(o)'
      BY <1>1, <1>6, <2>0, <2>5, <2>6 DEF Single, Sampled, AtMostOnce
    <3> QED BY <2>1, <2>3, <2>4, <3>1 DEF Single
  <2>7. CASE o = x
    <3>1. \A v \in Thread \ {w} : place[v] \notin {"fold", "wipe"}
      BY <1>3, <2>7
    <3>2. /\ \A j \in DOMAIN samples : samples[j] = o => n = j
          /\ learned[o] = 0 \/ \E v \in Thread : Past(v, n)
      BY <1>1, <2>0, <2>7 DEF Single, Sampled, x
    <3>3. ~ \E v \in Thread : Past(v, n)
      BY <1>0, <1>1, <3>1 DEF Past
    <3>4. learned'[o] = 1
      BY <1>1, <1>3, <1>4, <2>7, <3>2, <3>3, CountedGrows
    <3>5. Past(w, n)'
      BY <1>1, <1>2 DEF Past
    <3>6. Sampled(o)'
      BY <1>1, <3>2, <3>5 DEF Sampled
    <3>7. AtMostOnce(o)'
      BY <1>1, <1>4, <2>0, <2>7, <3>4 DEF Single, AtMostOnce
    <3> QED BY <2>1, <2>3, <2>4, <3>6, <3>7 DEF Single
  <2> QED BY <2>6, <2>7
<1> QED BY <1>5, <1>7 DEF OnceInv

LEMMA ObserveOnce ==
  ASSUME LearnTypeOK, KeptInv, OnceInv, NEW w \in Thread, Observe(w) \/ ObserveRaises(w)
  PROVE  OnceInv'
<1> DEFINE x == Head(job[w].left)
<1>1. /\ job[w].left \in Seq(Outcome) /\ job[w].left # <<>> /\ place[w] = "observe"
      /\ job \in [Thread -> Locals] /\ place \in [Thread -> Place]
      /\ observed \in [Outcome -> 0 .. 2]
      /\ UNCHANGED <<queue, samples, recorded, learned, shared>>
  BY DEF Observe, ObserveRaises, LearnTypeOK, Locals, learner
<1>2. \/ /\ job'[w].left = Tail(job[w].left) /\ job'[w].drained = job[w].drained
         /\ place'[w] = "observe"
      \/ job'[w].left = <<>> /\ job'[w].drained = <<>> /\ place'[w] = "idle"
  <2>1. CASE Observe(w)
    BY <1>1, <2>1 DEF Observe, Locals
  <2>2. CASE ObserveRaises(w)
    <3>1. job'[w] = NoJob /\ place'[w] = "idle"
      BY <1>1, <2>2 DEF ObserveRaises
    <3> QED BY <3>1 DEF NoJob
  <2> QED BY <2>1, <2>2
<1>3. \A v \in Thread \ {w} : job'[v] = job[v] /\ place'[v] = place[v]
  BY <1>1 DEF Observe, ObserveRaises
<1>4. /\ x \in Elements(job[w].left) /\ x \in Elements(job[w].drained) /\ x \in recorded
      /\ Distinct(Tail(job[w].left)) /\ x \in Outcome
      /\ Elements(Tail(job[w].left)) \subseteq Elements(job[w].left) \ {x}
  BY <1>1, TailDistinct, HeadTailProperties DEF OnceInv, Placed
<1>5. observed' = Counted(observed, x)
  BY DEF Observe, ObserveRaises
<1> HIDE DEF x
<1>6. /\ \A o \in Outcome : o # x => observed'[o] = observed[o]
      /\ observed[x] = 0 => observed'[x] = 1
  BY <1>1, <1>4, <1>5, CountedGrows
<1>7. Distinct(<<>>) /\ Elements(<<>>) = {}
  BY DEF Distinct, Elements
<1>8. /\ Distinct(job'[w].left) /\ Distinct(job'[w].drained)
      /\ Elements(job'[w].left) \subseteq Elements(job[w].left) \ {x}
      /\ Elements(job'[w].left) \subseteq Elements(job'[w].drained)
      /\ Elements(job'[w].drained) \subseteq Elements(job[w].drained)
  BY <1>2, <1>4, <1>7 DEF OnceInv, Placed
<1>9. Placed'
  BY <1>1, <1>3, <1>8 DEF OnceInv, Placed
<1>10. ASSUME NEW o \in Outcome \ shared' PROVE Single(o)'
  <2>0. Single(o)
    BY <1>1 DEF OnceInv
  <2>1. InOneHand(o)'
    BY <1>3, <1>8, <2>0 DEF Single, InOneHand
  <2>2. o = x => o \notin Elements(queue) /\ observed'[o] = 1
    BY <1>1, <1>4, <1>6, <2>0 DEF Single, Untaken, HeldNew
  <2>3. AtMostOnce(o)'
    BY <1>1, <1>4, <1>6, <2>0, <2>2 DEF Single, AtMostOnce
  <2>4. Untaken(o)'
    <3>1. o # x => observed'[o] = observed[o]
      BY <1>6
    <3>2. o \in Elements(queue) => o \notin Elements(job'[w].drained)
      BY <1>1, <1>8, <2>0 DEF Single, Untaken
    <3> QED BY <1>1, <1>3, <2>0, <2>2, <3>1, <3>2 DEF Single, Untaken, Unlearned
  <2>5. ASSUME NEW v \in Thread PROVE HeldNew(o, v)'
    <3>1. CASE v = w
      BY <1>1, <1>2, <1>6, <1>7, <1>8, <2>0, <3>1 DEF Single, HeldNew, Unlearned
    <3>2. CASE v # w /\ o = x
      BY <1>3, <1>4, <2>0, <3>2 DEF Single, InOneHand, HeldNew
    <3>3. CASE v # w /\ o # x
      BY <1>1, <1>3, <1>6, <2>0, <3>3 DEF Single, HeldNew, Unlearned
    <3> QED BY <3>1, <3>2, <3>3
  <2>6. Sampled(o)'
    <3>1. ASSUME NEW v \in Thread, NEW i \in DOMAIN samples, Past(v, i) PROVE Past(v, i)'
      BY <1>1, <1>3, <3>1 DEF Past
    <3> QED BY <1>1, <2>0, <3>1 DEF Single, Sampled
  <2> QED BY <2>1, <2>3, <2>4, <2>5, <2>6 DEF Single
<1> QED BY <1>1, <1>9, <1>10 DEF OnceInv

LEMMA TickOnce ==
  ASSUME LearnTypeOK, KeptInv, OnceInv, NEW w \in Thread, LoopTick(w) PROVE OnceInv'
<1>0. /\ place \in [Thread -> Place] /\ job \in [Thread -> Locals] /\ Handed(w)
      /\ \A v \in Thread \ {w} : place'[v] = place[v] /\ job'[v] = job[v]
  BY TickIsLocal DEF LearnTypeOK, KeptInv
<1>1. ASSUME UNCHANGED <<queue, samples, recorded, learned, observed, shared>>,
             job'[w].drained = job[w].drained, job'[w].left = job[w].drained,
             place[w] # "clear", \A o \in Outcome \ shared : HeldNew(o, w)',
             \A i \in DOMAIN samples : Past(w, i) => Past(w, i)'
      PROVE  OnceInv'
  <2>1. Placed'
    BY <1>0, <1>1 DEF OnceInv, Placed
  <2>2. \A o \in Outcome \ shared : Single(o)'
    BY <1>0, <1>1, StillSingle
  <2> QED BY <1>1, <2>1, <2>2 DEF OnceInv
<1>2. CASE EndSubmit(w)
  <2>1. /\ place[w] = "submit" /\ place'[w] \in {"read", "fold"}
        /\ job'[w].drained = job[w].drained /\ job'[w].left = job[w].drained
        /\ UNCHANGED <<queue, samples, recorded, learned, observed, shared>>
    BY <1>0, <1>2 DEF EndSubmit, Goto, Locals, counts, learner
  <2>2. \A o \in Outcome \ shared : HeldNew(o, w)'
    BY <2>1 DEF OnceInv, Single, HeldNew
  <2> QED BY <1>1, <2>1, <2>2 DEF Past
<1>3. CASE EndFold(w) \/ Propose(w) \/ Assign(w) \/ Read(w) \/ Diff(w)
  <2>1. /\ place[w] \in {"fold", "propose", "assign", "read", "diff"}
        /\ place'[w] \in {"wipe", "assign", "read", "diff", "keep"}
        /\ place[w] = "fold" => place'[w] = "wipe"
        /\ UNCHANGED <<queue, samples, recorded, learned, observed, shared>>
    BY <1>0, <1>3 DEF EndFold, Propose, Assign, Read, Diff, Goto, counts, learner
  <2>2. job'[w].drained = job[w].drained /\ job'[w].left = job[w].left
    BY <1>0, <1>3 DEF EndFold, Propose, Assign, Read, Diff, Locals
  <2>3. job[w].left = job[w].drained
    BY <1>0, <2>1 DEF Handed
  <2>4. \A o \in Outcome \ shared : HeldNew(o, w)'
    BY <2>1, <2>2 DEF OnceInv, Single, HeldNew
  <2> QED BY <1>1, <2>1, <2>2, <2>3, <2>4 DEF Past
<1>4. CASE Keep(w)
  <2>1. /\ place[w] = "keep" /\ place'[w] = "observe"
        /\ job'[w].drained = job[w].drained /\ job'[w].left = job[w].left
        /\ UNCHANGED <<queue, samples, recorded, learned, observed, shared>>
    BY <1>0, <1>4 DEF Keep, Goto, Locals, counts, learner
  <2>2. job[w].left = job[w].drained
    BY <1>0, <2>1 DEF Handed
  <2>3. \A o \in Outcome \ shared : HeldNew(o, w)'
    BY <2>1 DEF OnceInv, Single, HeldNew
  <2> QED BY <1>1, <2>1, <2>2, <2>3 DEF Past
<1>5. CASE Answer(w)
  <2>1. /\ place[w] = "observe" /\ place'[w] = "idle" /\ job[w].left = <<>>
        /\ job'[w] = NoJob /\ UNCHANGED <<queue, samples, recorded, learned, observed, shared>>
    BY <1>0, <1>5 DEF Answer, Goto, counts, learner
  <2>2. job'[w].drained = <<>> /\ job'[w].left = <<>> /\ Elements(<<>>) = {} /\ Distinct(<<>>)
    BY <2>1 DEF NoJob, Elements, Distinct
  <2>3. Placed'
    BY <1>0, <2>1, <2>2 DEF OnceInv, Placed
  <2>4. ASSUME NEW o \in Outcome \ shared PROVE Single(o)'
    <3>1. HeldNew(o, w)'
      BY <2>2 DEF HeldNew
    <3>2. \A i \in DOMAIN samples : Past(w, i) => Past(w, i)'
      BY <2>1 DEF Past
    <3> QED BY <1>0, <2>1, <2>2, <3>1, <3>2, StillSingle
  <2> QED BY <2>1, <2>3, <2>4 DEF OnceInv
<1>6. CASE Wipe(w)
  <2>1. /\ place[w] = "wipe" /\ place'[w] = "propose" /\ samples' = <<>> /\ job' = job
        /\ UNCHANGED <<queue, recorded, learned, observed, shared>>
    BY <1>0, <1>6 DEF Wipe, Goto, counts
  <2>2. Elements(<<>>) = {}
    BY DEF Elements
  <2>3. Placed'
    BY <2>1, <2>2 DEF OnceInv, Placed
  <2>4. ASSUME NEW o \in Outcome \ shared PROVE Single(o)'
    <3>1. Single(o) /\ (Unlearned(o) => Unlearned(o)')
      BY <2>1, <2>2 DEF OnceInv, Unlearned
    <3>2. InOneHand(o)' /\ AtMostOnce(o)' /\ Sampled(o)'
      BY <2>1, <3>1 DEF Single, InOneHand, AtMostOnce, Sampled
    <3>3. Untaken(o)'
      BY <1>0, <2>1, <3>1 DEF Single, Untaken
    <3>4. ASSUME NEW v \in Thread PROVE HeldNew(o, v)'
      BY <1>0, <2>1, <3>1 DEF Single, HeldNew
    <3> QED BY <3>2, <3>3, <3>4 DEF Single
  <2> QED BY <2>1, <2>3, <2>4 DEF OnceInv
<1>7. CASE DrainCopy(w)
  BY <1>7, CopyOnce
<1>8. CASE DrainClear(w)
  BY <1>8, ClearOnce
<1>9. CASE Submit(w)
  BY <1>9, SubmitOnce
<1>10. CASE Fold(w)
  BY <1>10, FoldOnce
<1>11. CASE Observe(w) \/ ObserveRaises(w)
  BY <1>11, ObserveOnce
<1> QED BY <1>2, <1>3, <1>4, <1>5, <1>6, <1>7, <1>8, <1>9, <1>10, <1>11 DEF LoopTick

LEMMA NextOnce ==
  ASSUME LearnTypeOK, KeptInv, OnceInv, [LearnNext]_learnVars PROVE OnceInv'
<1>1. CASE \E o \in Outcome : Record(o)
  BY <1>1, RecordOnce
<1>2. CASE \E w \in Thread : PostTick(w)
  <2>1. PICK w \in Thread : PostTick(w)
    BY <1>2
  <2>2. /\ place[w] = "idle" /\ place'[w] = "copy"
        /\ job'[w].drained = job[w].drained /\ job'[w].left = job[w].left
        /\ \A v \in Thread \ {w} : place'[v] = place[v] /\ job'[v] = job[v]
        /\ UNCHANGED <<queue, samples, recorded, learned, observed, shared>>
    BY <2>1 DEF PostTick, Goto, LearnTypeOK, Locals, learner
  <2>3. Placed'
    BY <2>2 DEF OnceInv, Placed
  <2>4. ASSUME NEW o \in Outcome \ shared PROVE Single(o)'
    <3>1. HeldNew(o, w)'
      BY <2>2 DEF OnceInv, Single, HeldNew, Unlearned
    <3>2. \A i \in DOMAIN samples : Past(w, i) => Past(w, i)'
      BY <2>2 DEF Past
    <3> QED BY <2>2, <3>1, <3>2, StillSingle
  <2> QED BY <2>2, <2>3, <2>4 DEF OnceInv
<1>3. CASE \E w \in Thread : LoopTick(w)
  BY <1>3, TickOnce
<1>4. CASE UNCHANGED learnVars
  <2>1. UNCHANGED <<queue, samples, recorded, learned, observed, shared, place, job>>
    BY <1>4 DEF learnVars, learner, counts
  <2> QED BY <2>1 DEF OnceInv, Placed, Single, InOneHand, Untaken, Sampled, AtMostOnce,
                      HeldNew, Past, Unlearned
<1> QED BY <1>1, <1>2, <1>3, <1>4 DEF LearnNext

(* No trade is learned from twice or counted twice, but for one that two   *)
(* ticks had in hand at once: not by the samples that survive a tick or    *)
(* are trimmed under an iterator, nor by the queue between its copy and    *)
(* its clear (feedback.py drain, slow_loop.py tick).                       *)
THEOREM OutcomesCountOnce == LearnSpec => []OutcomesOnce
<1>1. LearnTypeOK /\ KeptInv /\ OnceInv /\ [LearnNext]_learnVars => OnceInv'
  BY NextOnce
<1>2. LearnTypeOK /\ KeptInv /\ [LearnNext]_learnVars => KeptInv'
  BY NextKept
<1>3. OnceInv => OutcomesOnce
  BY DEF OnceInv, Single, AtMostOnce, OutcomesOnce
<1> QED BY <1>1, <1>2, <1>3, InitKept, InitOnce, LearningTypeCorrect, PTL DEF LearnSpec
=============================================================================
