---------------------------- MODULE PatchPipeline ----------------------------
(***************************************************************************)
(* The structural loop and the patch pipeline.  A tick (structural_loop.py)*)
(* asks the proposer (mutation_proposer.py) for patches of strategies that *)
(* fell below a threshold, and drives each of them (orchestrator.py)       *)
(* through the five stages by calls of the approval bridge                 *)
(* (patch_pipeline_bridge.py) on the state machine (pipeline.py).  A       *)
(* request ticks the loop after it has released STATE.lock                 *)
(* (ui/server.py), so ticks overlap: the proposer is modelled from one     *)
(* call that may switch threads to the next.  So are the calls of the      *)
(* bridge: a verdict is recorded, a stage is looked up and written (between *)
(* the two nothing is called), and a decision is listed, each in a step of *)
(* its own.  Reviewers stand for other callers of the bridge's reject and  *)
(* rollback, for patches they have got from the pipeline.  A frozen tick,  *)
(* and the proposals of one, are nothing here.                             *)
(***************************************************************************)
EXTENDS Sequences, Naturals, FiniteSets

CONSTANTS Strategy, Reason,  \* the proposer's keys are their pairs
          Ticker,            \* requests that tick the loop
          Reviewer,          \* other callers of the bridge
          MaxPatches,        \* bound on the proposals of a behaviour
          Gated              \* promotion gates configured on the bridge

ASSUME PatchAssumption == /\ IsFiniteSet(Ticker) /\ IsFiniteSet(Reviewer)
                          /\ Ticker \cap Reviewer = {}
                          /\ MaxPatches \in Nat /\ Gated \in BOOLEAN

VARIABLES armed,      \* keys with a proposal since their last recovery
          patches,    \* by number: the counter is the length
          decisions,  \* the bridge's list
          owed,       \* by caller: the decision it has made and not yet listed
          ticks,      \* what each ticker is doing
          breach      \* proposals of each key since it was last disarmed

patchVars == <<armed, patches, decisions, owed, ticks, breach>>

Key == Strategy \X Reason
Chain == <<"PROPOSED", "SANDBOX", "STATIC_ANALYSIS", "BACKTEST", "SHADOW", "CANARY">>
Decision == {"APPROVED", "REJECTED", "ROLLED_BACK"}
PatchStage == {Chain[i] : i \in DOMAIN Chain} \cup Decision

\* "named" is a patch id the pipeline does not hold yet.
Patch == [key : Key, stage : PatchStage \cup {"named"}, verdicts : 0 .. 5]

Actor == Ticker \cup Reviewer
Entry(p, decision) == [patch |-> p, decision |-> decision]
Nothing == Entry(0, "none")

\* A tick: strategies to come, keys of the present one still to be looked at,
\* the key found unarmed, proposals to run, the stage the first of them is in,
\* whether its next one's verdict is recorded.
Idle == [left |-> {}, look |-> {}, found |-> {}, out |-> <<>>, run |-> 0, noted |-> FALSE]

PatchTypeOK ==
  /\ armed \subseteq Key
  /\ patches \in Seq(Patch)
  /\ decisions \in Seq([patch : Nat, decision : Decision])
  /\ ticks \in [Ticker -> [left : SUBSET Strategy, look : SUBSET Key, found : SUBSET Key,
                           out : Seq(Nat), run : 0 .. 6, noted : BOOLEAN]]
  /\ owed \in [Actor -> [patch : Nat, decision : Decision] \cup {Nothing}]
  /\ breach \in [Key -> Nat]

PatchInit == /\ armed = {}
             /\ patches = <<>>
             /\ decisions = <<>>
             /\ owed = [a \in Actor |-> Nothing]
             /\ ticks = [t \in Ticker |-> Idle]
             /\ breach = [k \in Key |-> 0]

Becomes(t, tick) == ticks' = [ticks EXCEPT ![t] = tick]
KeysOf(s) == {s} \X Reason

-----------------------------------------------------------------------------
(* The proposer.                                                           *)

PatchTick(t) == /\ ticks[t] = Idle /\ owed[t] = Nothing
                /\ Becomes(t, [Idle EXCEPT !.left = Strategy])
                /\ UNCHANGED <<armed, patches, decisions, owed, breach>>

\* evaluate of the next strategy, whose proposals run before the one after it.
Evaluate(t, s) == /\ s \in ticks[t].left
                  /\ ticks[t].look = {} /\ ticks[t].found = {} /\ ticks[t].out = <<>>
                  /\ owed[t] = Nothing
                  /\ Becomes(t, [ticks[t] EXCEPT !.left = @ \ {s}, !.look = KeysOf(s)])
                  /\ UNCHANGED <<armed, patches, decisions, owed, breach>>

Disarm(t, keys) == /\ armed' = armed \ keys
                   /\ breach' = [k \in Key |-> IF k \in keys THEN 0 ELSE breach[k]]
                   /\ Becomes(t, [ticks[t] EXCEPT !.look = @ \ keys])
                   /\ UNCHANGED <<patches, decisions, owed>>

\* Fewer trades than min_trades: _clear.
TooFew(t, s) == ticks[t].look = KeysOf(s) /\ ticks[t].found = {} /\ ticks[t].out = <<>>
                /\ Disarm(t, KeysOf(s))

\* At or above the threshold.
Recovered(t, k) == k \in ticks[t].look /\ ticks[t].found = {} /\ Disarm(t, {k})

\* Mutant: one shot per strategy object, the armed keys are not looked at.
MutBelow(t, k) ==
  /\ k \in ticks[t].look /\ ticks[t].found = {}
  /\ Becomes(t, [ticks[t] EXCEPT !.look = @ \ {k}, !.found = {k}])
  /\ UNCHANGED <<armed, patches, decisions, owed, breach>>

\* Below the threshold: _maybe_emit up to the look at the armed keys.
Below(t, k) ==
  /\ k \in ticks[t].look /\ ticks[t].found = {}
  /\ Becomes(t, [ticks[t] EXCEPT !.look = @ \ {k}, !.found = {k} \ armed])
  /\ UNCHANGED <<armed, patches, decisions, owed, breach>>

\* The rest of it: from the arming to the id nothing is called.
Arm(t) == /\ Len(patches) < MaxPatches
          /\ \E k \in ticks[t].found :
               /\ armed' = armed \cup {k}
               /\ patches' = Append(patches, [key |-> k, stage |-> "named", verdicts |-> 0])
               /\ breach' = [breach EXCEPT ![k] = @ + 1]
          /\ Becomes(t, [ticks[t] EXCEPT !.found = {}, !.out = Append(@, Len(patches) + 1)])
          /\ UNCHANGED <<decisions, owed>>

-----------------------------------------------------------------------------
(* The pipeline and the bridge.                                            *)

\* The first of the proposals is run, no call of the bridge is under way.
Running(t) == /\ ticks[t].look = {} /\ ticks[t].found = {} /\ ticks[t].out # <<>>
              /\ owed[t] = Nothing
Current(t) == Head(ticks[t].out)

\* Mutant: transition does not look the pair up.
MutLegal(p, new) == TRUE

\* LEGAL_PATCH_TRANSITIONS.
Legal(p, new) ==
  LET stage == patches[p].stage
  IN \/ \E i \in 1 .. Len(Chain) : /\ stage = Chain[i]
                                   /\ new \in {Append(Chain, "APPROVED")[i + 1], "REJECTED"}
     \/ stage \in {"CANARY", "APPROVED"} /\ new = "ROLLED_BACK"

\* The orchestrator is done with a patch, or an exception ends the tick.
RunEnds(t) == Becomes(t, [ticks[t] EXCEPT !.out = Tail(@), !.run = 0, !.noted = FALSE])
TickRaises(t) == Becomes(t, Idle)

\* A decision of the bridge up to the transition; what is read of the patch
\* after it, and the list, come later.
Decided(a, p, decision) ==
  /\ patches' = [patches EXCEPT ![p].stage = decision]
  /\ owed' = [owed EXCEPT ![a] = Entry(p, decision)]
  /\ UNCHANGED decisions

\* The rest of the call.
Listed(a) == /\ owed[a] # Nothing
             /\ decisions' = Append(decisions, owed[a])
             /\ owed' = [owed EXCEPT ![a] = Nothing]
             /\ UNCHANGED <<armed, patches, ticks, breach>>

\* The evidence is built and receive_proposal registers the patch.
Propose(t) == /\ Running(t) /\ ticks[t].run = 0
              /\ patches' = [patches EXCEPT ![Current(t)].stage = "PROPOSED"]
              /\ Becomes(t, [ticks[t] EXCEPT !.run = 1])
              /\ UNCHANGED <<armed, decisions, owed, breach>>

\* The evidence builder raises, as the one of ui/server.py always does.
EvidenceRaises(t) == /\ Running(t) /\ ticks[t].run = 0
                     /\ TickRaises(t)
                     /\ UNCHANGED <<armed, patches, decisions, owed, breach>>

AtStage(t) == Running(t) /\ ticks[t].run \in 1 .. 5 /\ ~ ticks[t].noted

\* Mutant: advance takes the verdict and does not keep it.
MutStageRecords(t) ==
  /\ AtStage(t)
  /\ Becomes(t, [ticks[t] EXCEPT !.noted = TRUE])
  /\ UNCHANGED <<armed, patches, decisions, owed, breach>>

\* A stage passes: advance records its verdict, whatever became of the patch.
StageRecords(t) ==
  /\ AtStage(t)
  /\ patches' = [patches EXCEPT ![Current(t)].verdicts = @ + 1]
  /\ Becomes(t, [ticks[t] EXCEPT !.noted = TRUE])
  /\ UNCHANGED <<armed, decisions, owed, breach>>

\* The rest of advance: the transition, unless a reviewer has settled the patch.
StageAdvances(t) ==
  /\ Running(t) /\ ticks[t].noted
  /\ LET p == Current(t)
         new == Chain[ticks[t].run + 1]
     IN IF Legal(p, new)
        THEN /\ patches' = [patches EXCEPT ![p].stage = new]
             /\ Becomes(t, [ticks[t] EXCEPT !.run = @ + 1, !.noted = FALSE])
        ELSE TickRaises(t) /\ UNCHANGED patches
  /\ UNCHANGED <<armed, decisions, owed, breach>>

\* A stage fails: its verdict is not recorded, the patch is rejected.
StageFails(t) ==
  /\ AtStage(t)
  /\ IF Legal(Current(t), "REJECTED")
     THEN Decided(t, Current(t), "REJECTED") /\ RunEnds(t)
     ELSE TickRaises(t) /\ UNCHANGED <<patches, decisions, owed>>
  /\ UNCHANGED <<armed, breach>>

\* Shadow and canary refuse evidence that cannot be.
StageRaises(t) == /\ AtStage(t) /\ ticks[t].run \in {4, 5}
                  /\ TickRaises(t)
                  /\ UNCHANGED <<armed, patches, decisions, owed, breach>>

\* approve; the orchestrator has no metrics for it, so with gates it raises and
\* the patch stays in CANARY.
Approve(t) ==
  /\ Running(t) /\ ticks[t].run = 6
  /\ IF patches[Current(t)].stage = "CANARY" /\ ~Gated
     THEN Decided(t, Current(t), "APPROVED") /\ RunEnds(t)
     ELSE TickRaises(t) /\ UNCHANGED <<patches, decisions, owed>>
  /\ UNCHANGED <<armed, breach>>

\* reject and rollback called by somebody else.
Review(r, p, decision) ==
  /\ owed[r] = Nothing
  /\ p \in DOMAIN patches /\ patches[p].stage # "named"
  /\ decision \in {"REJECTED", "ROLLED_BACK"}
  /\ Legal(p, decision)
  /\ Decided(r, p, decision)
  /\ UNCHANGED <<armed, ticks, breach>>

PatchNext ==
  \/ \E t \in Ticker :
       \/ PatchTick(t) \/ Arm(t) \/ Propose(t) \/ EvidenceRaises(t)
       \/ StageRecords(t) \/ StageAdvances(t) \/ StageFails(t) \/ StageRaises(t) \/ Approve(t)
       \/ \E s \in Strategy : Evaluate(t, s) \/ TooFew(t, s)
       \/ \E k \in Key : Recovered(t, k) \/ Below(t, k)
  \/ \E r \in Reviewer, p \in 1 .. MaxPatches, decision \in Decision : Review(r, p, decision)
  \/ \E a \in Actor : Listed(a)

PatchSpec == PatchInit /\ [][PatchNext]_patchVars

-----------------------------------------------------------------------------
(* Properties.                                                             *)

\* mutation_proposer.py, "One-shot per (strategy_id, reason) episode": from one
\* recovery to the next a key is proposed once, but for ticks that looked at it
\* before the first of them armed it, which have one proposal each.
OncePerBreach == \A k \in Key : breach[k] <= Cardinality(Ticker)

\* GOV-G18, every terminal transition is the bridge's: it decides nothing twice,
\* what became of a patch is a decision that is listed or about to be, any other
\* one is an approval that was rolled back, and what was approved had passed all
\* five stages, whoever called the bridge and whichever run it interrupted.  (In
\* which order two decisions are listed is not said: a rollback may be faster
\* than the approval it follows.)
DecisionsTellStages ==
  \A p \in DOMAIN patches, decision \in Decision :
    LET stage == patches[p].stage
        listed == {i \in DOMAIN decisions : decisions[i] = Entry(p, decision)}
        coming == {a \in Actor : owed[a] = Entry(p, decision)}
        made == Cardinality(listed) + Cardinality(coming)
    IN /\ made <= 1
       /\ stage = decision => made = 1
       /\ made = 1 => \/ stage = decision
                      \/ decision = "APPROVED" /\ stage = "ROLLED_BACK"
       /\ made = 1 /\ decision = "APPROVED" => patches[p].verdicts = 5
=============================================================================
