----------------------------- MODULE LearningLoop -----------------------------
(***************************************************************************)
(* The closed learning loop (P0-A, closed_loop.py) as the harness drives   *)
(* it: requests run on a pool of threads, feeds on threads of their own;   *)
(* what they execute is recorded in the FeedbackCollector under STATE.lock,*)
(* and POST /api/tick then ticks the loop AFTER it has released the lock.  *)
(* A tick takes the freeze policy, drains the collector, and when unfrozen *)
(* hands the outcomes to the SlowLoopLearner, whose parameter moves, and   *)
(* emits the difference to the snapshot before.  Frozen or not, the        *)
(* outcomes then go to PatchOutcomeFeedback.  None of these objects has a  *)
(* lock of its own, so ticks overlap each other and the recording.         *)
(*                                                                         *)
(* Floats are abstracted to integers, the reward average to the step it    *)
(* chooses.  One tracked parameter, as ui/server.py configures.  The       *)
(* operator may flip the two switches of the policy at any moment, so a    *)
(* tick meets either answer.                                               *)
(***************************************************************************)
EXTENDS Integers, Sequences, FiniteSets

CONSTANTS
  Thread,      \* the threads that serve POST /api/tick
  Outcome,     \* the terminal execution events, told apart
  NoSnapshot,  \* Python's None
  Lo, Hi,      \* ParameterBounds of the tracked parameter ...
  Step,        \* ... and the cap on one adjustment
  Initial,     \* ... and its first value
  MaxSamples,  \* max_samples_per_param
  MaxTicks     \* bound on the ticks of one process

ASSUME LearningAssumption ==
  /\ Lo \in Int /\ Hi \in Int /\ Initial \in Lo .. Hi
  /\ Step \in Nat \ {0} /\ MaxSamples \in Nat \ {0} /\ MaxTicks \in Nat

ASSUME NoSnapshotAssumption == NoSnapshot \notin Int

-----------------------------------------------------------------------------

VARIABLES
  queue,       \* FeedbackCollector._queue
  samples,     \* the learner's pending samples, by outcome
  value,       \* the learner's parameter
  previous,    \* ClosedLearningLoop._previous_snapshot
  place,       \* the statement each thread's tick stands at
  job,         \* the locals of that tick
  ticks,       \* history: the number of ticks begun
  recorded,    \* history: the outcomes recorded
  raced,       \* history: those recorded while a tick was between its copy and
               \* its clear of the queue, and those in the hands of a tick
               \* whose statistics another tick changed while it summed them
  learned,     \* history: how often the learner folded an outcome, up to twice
  observed,    \* history: how often PatchOutcomeFeedback got it, up to twice
  shared,      \* history: the outcomes two ticks had in hand at once, of the
               \* queue before its clear or of the samples before theirs
  told,        \* history: the values told by an UPDATE_PROPOSED, and those of
               \* the first snapshots, of which none is told
  unfounded    \* history: has an update started from a value never told?

learner == <<samples, value>>
counts  == <<ticks, recorded, raced, learned, observed, shared>>
news    == <<told, unfounded>>
learnVars == <<queue, learner, previous, place, job, counts, news>>

Place == {"idle", "copy", "clear", "submit", "fold", "wipe", "propose", "assign",
          "read", "diff", "keep", "observe"}

Parameter == Lo .. Hi

\* The locals of a tick; left holds the drained outcomes a loop has not reached,
\* nth is where the iterator over the pending samples stands.
Locals == [open : BOOLEAN, drained : Seq(Outcome), left : Seq(Outcome), nth : Nat,
           next : Parameter, snapshot : Parameter]

NoJob == [open |-> FALSE, drained |-> <<>>, left |-> <<>>, nth |-> 0,
          next |-> Initial, snapshot |-> Initial]

LearnTypeOK ==
  /\ queue \in Seq(Outcome) /\ samples \in Seq(Outcome)
  /\ value \in Parameter /\ previous \in Parameter \cup {NoSnapshot}
  /\ place \in [Thread -> Place] /\ job \in [Thread -> Locals]
  /\ recorded \subseteq Outcome /\ raced \subseteq Outcome /\ shared \subseteq Outcome
  /\ learned \in [Outcome -> 0 .. 2] /\ observed \in [Outcome -> 0 .. 2]
  /\ ticks \in Nat /\ told \subseteq Parameter /\ unfounded \in BOOLEAN

LearnInit ==
  /\ queue = <<>> /\ samples = <<>> /\ value = Initial /\ previous = NoSnapshot
  /\ place = [w \in Thread |-> "idle"]
  /\ job = [w \in Thread |-> NoJob]
  /\ recorded = {} /\ raced = {} /\ shared = {}
  /\ learned = [o \in Outcome |-> 0] /\ observed = [o \in Outcome |-> 0]
  /\ ticks = 0 /\ told = {} /\ unfounded = FALSE

-----------------------------------------------------------------------------
(* Requests.                                                               *)

\* FeedbackCollector.record of a terminal status, wherever a signal is executed
\* under STATE.lock: POST /api/signal, the feeds, the locked half of a tick.
Record(o) ==
  /\ o \notin recorded
  /\ queue' = Append(queue, o)
  /\ recorded' = recorded \cup {o}
  /\ raced' = IF \E w \in Thread : place[w] = "clear" THEN raced \cup {o} ELSE raced
  /\ UNCHANGED <<learner, previous, place, job, ticks, learned, observed, shared, news>>

Goto(w, from, to) == place[w] = from /\ place' = [place EXCEPT ![w] = to]

\* POST /api/tick, once STATE.lock is released: _live_freeze_policy.
PostTick(w) ==
  /\ ticks < MaxTicks /\ ticks' = ticks + 1
  /\ Goto(w, "idle", "copy")
  /\ \E open \in BOOLEAN : job' = [job EXCEPT ![w].open = open]
  /\ UNCHANGED <<queue, learner, previous, recorded, raced, learned, observed, shared, news>>

-----------------------------------------------------------------------------
(* ClosedLearningLoop.tick.                                                *)

Elements(s) == {s[i] : i \in DOMAIN s}

\* The histories tell never, once and more.
Counted(times, o) == [times EXCEPT ![o] = IF @ = 2 THEN 2 ELSE @ + 1]

\* drain: tuple(self._queue) ...
DrainCopy(w) ==
  /\ Goto(w, "copy", "clear")
  /\ job' = [job EXCEPT ![w].drained = queue, ![w].left = queue]
  /\ shared' = shared \cup {o \in Elements(queue) :
                             \E v \in Thread : /\ place[v] = "clear"
                                               /\ o \in Elements(job[v].drained)}
  /\ UNCHANGED <<queue, learner, previous, ticks, recorded, raced, learned, observed, news>>

AfterDrain(w) == IF job[w].open THEN "submit" ELSE "observe"

\* Mutant: only the oldest outcome is taken off.
MutClearOne(w) ==
  /\ Goto(w, "clear", AfterDrain(w))
  /\ LET taken == IF queue = <<>> THEN <<>> ELSE <<Head(queue)>>
     IN /\ queue' = IF queue = <<>> THEN <<>> ELSE Tail(queue)
        /\ job' = [job EXCEPT ![w].drained = taken, ![w].left = taken]
  /\ UNCHANGED <<learner, previous, counts, news>>

\* ... and self._queue.clear().
DrainClear(w) ==
  /\ Goto(w, "clear", AfterDrain(w))
  /\ queue' = <<>>
  /\ UNCHANGED <<learner, previous, job, counts, news>>

\* SlowLoopLearner.submit: the oldest pending sample goes when there are too many.
Submit(w) ==
  /\ place[w] = "submit" /\ job[w].left # <<>>
  /\ LET grown == Append(samples, Head(job[w].left))
     IN samples' = IF Len(grown) > MaxSamples THEN Tail(grown) ELSE grown
  /\ job' = [job EXCEPT ![w].left = Tail(@)]
  /\ UNCHANGED <<queue, value, previous, place, counts, news>>

\* SlowLoopLearner.tick: a parameter without pending samples is skipped, else
\* the iterator begins.
EndSubmit(w) ==
  /\ job[w].left = <<>>
  /\ Goto(w, "submit", IF samples = <<>> THEN "read" ELSE "fold")
  /\ job' = [job EXCEPT ![w].left = job[w].drained, ![w].nth = 1]
  /\ UNCHANGED <<queue, learner, previous, counts, news>>

\* A pending sample goes into the average.  The iterator is an index: it meets
\* what another tick appends, and skips one when another tick drops the oldest.
Fold(w) ==
  /\ place[w] = "fold" /\ job[w].nth \in DOMAIN samples
  /\ LET o == samples[job[w].nth]
     IN /\ learned' = Counted(learned, o)
        /\ shared' = IF \E v \in Thread \ {w} : place[v] \in {"fold", "wipe"}
                     THEN shared \cup {o} ELSE shared
  /\ job' = [job EXCEPT ![w].nth = @ + 1]
  /\ UNCHANGED <<queue, learner, previous, place, ticks, recorded, raced, observed, news>>

EndFold(w) ==
  /\ job[w].nth \notin DOMAIN samples
  /\ Goto(w, "fold", "wipe")
  /\ job' = [job EXCEPT ![w].nth = 0]
  /\ UNCHANGED <<queue, learner, previous, counts, news>>

\* Mutant: pending is not cleared.
MutWipeNone(w) ==
  /\ Goto(w, "wipe", "propose")
  /\ UNCHANGED <<queue, learner, previous, job, counts, news>>

\* st.pending.clear()
Wipe(w) ==
  /\ Goto(w, "wipe", "propose")
  /\ samples' = <<>>
  /\ UNCHANGED <<queue, value, previous, job, counts, news>>

Clamp(v) == IF v < Lo THEN Lo ELSE IF v > Hi THEN Hi ELSE v

\* What the average and the step allow, clamped to the bounds.
Adjusted(v) == {Clamp(v + d) : d \in -Step .. Step}

\* proposed = st.value + direction * magnitude ...
Propose(w) ==
  /\ Goto(w, "propose", "assign")
  /\ \E v \in Adjusted(value) : job' = [job EXCEPT ![w].next = v]
  /\ UNCHANGED <<queue, learner, previous, counts, news>>

\* ... st.value = max(lo, min(hi, proposed))
Assign(w) ==
  /\ Goto(w, "assign", "read")
  /\ value' = job[w].next
  /\ job' = [job EXCEPT ![w].next = Initial]
  /\ UNCHANGED <<queue, samples, previous, counts, news>>

\* The ParameterSnapshot.
Read(w) ==
  /\ Goto(w, "read", "diff")
  /\ job' = [job EXCEPT ![w].snapshot = value]
  /\ UNCHANGED <<queue, learner, previous, counts, news>>

\* make_diff_update_builder and emit_many: nothing without a previous snapshot,
\* and nothing when the value is still that one.
Diff(w) ==
  /\ Goto(w, "diff", "keep")
  /\ LET new == job[w].snapshot
         tells == previous \notin {NoSnapshot, new}
     IN /\ told' = IF tells \/ previous = NoSnapshot THEN told \cup {new} ELSE told
        /\ unfounded' = (unfounded \/ (tells /\ previous \notin told))
  /\ UNCHANGED <<queue, learner, previous, job, counts>>

\* Mutant: the parameter is kept as it is by now, not as it was told.
MutKeepLive(w) ==
  /\ Goto(w, "keep", "observe")
  /\ previous' = value
  /\ UNCHANGED <<queue, learner, job, counts, news>>

Keep(w) ==
  /\ Goto(w, "keep", "observe")
  /\ previous' = job[w].snapshot
  /\ job' = [job EXCEPT ![w].snapshot = Initial]
  /\ UNCHANGED <<queue, learner, counts, news>>

-----------------------------------------------------------------------------
(* What post_tick does with the result.                                    *)

\* Mutant: only an unfrozen tick's outcomes are handed on.
MutObserveUnfrozen(w) ==
  /\ place[w] = "observe" /\ job[w].left # <<>>
  /\ observed' = IF job[w].open THEN Counted(observed, Head(job[w].left))
                 ELSE observed
  /\ job' = [job EXCEPT ![w].left = Tail(@)]
  /\ UNCHANGED <<queue, learner, previous, place, ticks, recorded, raced, learned, shared, news>>

\* PatchOutcomeFeedback.observe, for each drained outcome.
Observe(w) ==
  /\ place[w] = "observe" /\ job[w].left # <<>>
  /\ observed' = Counted(observed, Head(job[w].left))
  /\ job' = [job EXCEPT ![w].left = Tail(@)]
  /\ UNCHANGED <<queue, learner, previous, place, ticks, recorded, raced, learned, shared, news>>

\* The bucket is a deque: appended to by another tick while this one sums it
\* up, it raises, and the outcomes still in hand go no further.
ObserveRaises(w) ==
  /\ place[w] = "observe" /\ job[w].left # <<>>
  /\ \E v \in Thread \ {w} : place[v] = "observe"
  /\ observed' = Counted(observed, Head(job[w].left))
  /\ raced' = raced \cup Elements(job[w].left)
  /\ place' = [place EXCEPT ![w] = "idle"]
  /\ job' = [job EXCEPT ![w] = NoJob]
  /\ UNCHANGED <<queue, learner, previous, ticks, recorded, learned, shared, news>>

Answer(w) ==
  /\ job[w].left = <<>>
  /\ Goto(w, "observe", "idle")
  /\ job' = [job EXCEPT ![w] = NoJob]
  /\ UNCHANGED <<queue, learner, previous, counts, news>>

LoopTick(w) == \/ DrainCopy(w) \/ DrainClear(w)
               \/ Submit(w) \/ EndSubmit(w) \/ Fold(w) \/ EndFold(w) \/ Wipe(w)
               \/ Propose(w) \/ Assign(w) \/ Read(w) \/ Diff(w) \/ Keep(w)
               \/ Observe(w) \/ ObserveRaises(w) \/ Answer(w)

LearnNext == \/ \E o \in Outcome : Record(o)
             \/ \E w \in Thread : PostTick(w) \/ LoopTick(w)

LearnSpec == LearnInit /\ [][LearnNext]_learnVars

\* A request that has begun goes on.
LearnFairness == \A w \in Thread : WF_learnVars(LoopTick(w))

LearnFairSpec == LearnSpec /\ LearnFairness
-----------------------------------------------------------------------------
(* Properties.                                                             *)

Kept(o) == \/ o \in Elements(queue)
           \/ \E w \in Thread : o \in Elements(job[w].drained)
           \/ observed[o] > 0

\* Outcomes get lost in two moments only: between some tick's copy of the queue
\* and its clear (feedback.py, drain), and while two ticks hand theirs to the
\* statistics.  Recorded at any other time an outcome is waiting, in the hands of
\* a tick, or in the statistics, whatever ticks and records race and whichever
\* ticks are frozen.
OutcomesKept == \A o \in recorded \ raced : Kept(o)

\* execution_engine/engine.py:283, "every terminal ExecutionEvent must reach the
\* learning loop": none is lost.
OutcomesReach == \A o \in recorded : Kept(o)

\* Only ticks that overlap count a trade twice: two that copied it before either
\* cleared the queue, or two that were at the pending samples at once.  Else it
\* is learned from once and is once in the statistics, though samples outlive
\* the tick that submitted them and switches flip under way.
OutcomesOnce == \A o \in Outcome \ shared : learned[o] <= 1 /\ observed[o] <= 1

\* Nobody is told a change that starts from a value never told (or from what the
\* first snapshots held): however ticks read, replace and keep the previous
\* snapshot in between (closed_loop.py, tick: diff, emit, keep), though it may be
\* one that others have since replaced.
UpdatesFromTold == ~unfounded

\* The queue does not back up: what waits when a tick drains is observed or
\* meets the race above, whether or not the loop is frozen (closed_loop.py:10
\* "always, even when frozen").
DrainedIsObserved ==
  \A o \in Outcome :
    (o \in Elements(queue) /\ \E w \in Thread : place[w] = "copy")
      ~> observed[o] > 0 \/ o \in raced
=============================================================================
