# A verification model of DIX VISION v42.2

TLA+ modules for the parts of the program that decide: which mode the system is
in, whether an order goes out, what the authority ledger holds, what the closed
learning loop does with an outcome, what governance lets learning change, how a
patch and a chat proposal come to a decision, and around them the feeds, fills,
caps, order book, batching writer and message brokers.  TLC checks them on small instances
(`*.cfg`), TLAPS checks proofs about them (`*_proofs.tla`).  `PROJECT.json` maps
every definition to the lines it stands for.  Paths below are relative to `src/`.

    tlc -config ModeControl.cfg MCModeControl     # one run
    tlapm ModeControl_proofs.tla                  # one module's proofs

## 1. Inventory

The production entry point is `ui/server.py`: a FastAPI process with one `STATE`
object that owns every engine and one non-reentrant `STATE.lock`.  Sync routes
run on a thread pool, feeds and news on their own asyncio threads; almost all
of them take `STATE.lock` for the whole call.  The pipeline is market data ->
intelligence -> governance -> execution -> ledger -> learning -> evolution ->
governance (`docs/canonical_pipeline.md`).

| Part | State it keeps | Operations | Talks to |
|---|---|---|---|
| mode control plane (`governance_engine/control_plane/state_transition_manager.py`, `policy_engine.py`, `promotion_gates.py`, `operator_interface_bridge.py`, `drift_oracle.py`, `core/contracts/operator_consent.py`, `system/kill_switch.py`) | the mode; nonce ring; bound gates hash | `propose`, `submit` (mode, kill, unlock), `evaluate_and_downgrade`, `bind`, `check` | ledger rows before each change |
| authority ledger (`ledger_authority_writer.py`, `state/ledger/`) | SQLite table, one in-memory mirror per process | open and replay, `append`, `close`, `verify`, paged reads | every governance decision |
| hazard throttle (`system_engine/coupling/`) | bounded ring of observations | `observe`, `project` | fed by `record` and the news, read by `execute` |
| order path (`execution_engine/engine.py`, the fan-out of `ui/server.py`, `execution_engine/adapters/paper.py`) | marks, position, trading policy | tick, signal, `execute`, the operator's two switches | throttle, mode, ledger, collector |
| closed learning loop (`learning_engine/loops/closed_loop.py`, `intelligence_engine/learning/slow_loop.py`, `execution_engine/protections/feedback.py`) | queue, pending samples, parameter, last snapshot | `record`, `drain`, `tick`, `observe` | runs after `STATE.lock` is released |
| strategy registry and update loop (`governance_engine/strategy_registry.py`, `update_validator.py`, `update_applier.py`) | records by strategy | register, transition, apply update, replay | ledger first |
| patch pipeline (`evolution_engine/patch_pipeline/`, `loops/structural_loop.py`, `intelligence_loops/mutation_proposer.py`, `governance_engine/services/patch_pipeline_bridge.py`) | armed keys; stage, history and verdicts of each patch; decisions | tick, evaluate, propose, five stages, approve, reject, roll back | driven by requests after they released `STATE.lock` |
| chat approvals (`intelligence_engine/cognitive/approval_*.py`, `ui/cognitive_chat_runtime.py`, `ui/cognitive_routes.py`) | the queue of proposals | submit, approve, reject, rehydrate | ledger rows; an approved proposal is a signal of the order path |
| feed runners (`ui/feeds/`) | thread, loop, pump, stop flag | start, stop, connect, poll, deliver | sinks of the harness |
| daily caps, exposure book (`compliance_validator.py`, `exposure_store.py`, `risk_evaluator.py`) | two SQLite tables, caches | validate, reset, assess, apply | no caller in the harness |
| order lifecycle (`execution_engine/lifecycle/`) | order states, fills | open, register, apply, transition | its own package |
| level-two book (`execution_engine/market_data/orderbook.py`) | levels, last update id | snapshot, delta | its own package |
| asynchronous ledger writer (`state/ledger/async_writer.py`) | file, buffer | append, flush, close | not wired into the harness |
| in-memory brokers (`system_engine/streaming/`) | logs, cursors, pending, offsets | send, receive, acknowledge, commit, seek | not wired into the harness |
| policy hash anchor, source-trust promotions, snapshots, SCVS | bound hashes; an overlay; files | bind, promote | harness, or not wired |
| intelligence, sensory, simulation, evolution numerics, dashboards, tools | mostly none | pure or external | feed the parts above |

`PROJECT.json` lists all 36 components with what is and is not modelled.

What makes each correct, and what is hard about it:

- **Mode control.** Only an operator climbs, one step at a time and on his own
  consent; LOCKED wins and stays; ledger and memory tell the same story.  Hard:
  callers read the mode before they propose; `propose` appends up to three rows,
  each of which may raise; the nonce ring is bounded and in memory; a file is
  compared with its earlier hash; restarts.
- **Order path.** Nothing is filled past a blocking hazard, outside a dispatching
  mode, without an audited switch, or after trading was answered to be off.  Hard: hazards
  arise inside a batch, two clocks are compared, the ring evicts, appends raise and are
  swallowed, the switch is a flag, rows and a policy one after the other.
- **Ledger.** A verified append-only chain, no acknowledged row lost, no request
  twice.  Hard: several processes on one file, crashes between INSERT and mirror,
  power failure, damage, a writer and a second verifier that must agree.
- **Strategy registry.** Records are what the ledger says, the ledger holds legal
  histories, learning moves a parameter only inside the bounds of the strategy.  Hard:
  a ratified proposal is two rows, and the second may never be written; records are
  rebuilt from two kinds of rows; a restart may not rebuild them.
- **Learning loop.** Every outcome learned from and counted once, bounded steps, updates that
  continue what was told.  Hard: no lock, several threads in it at once, a freeze flag that
  changes.
- **Patch pipeline.** One proposal per breach, every decision the bridge's and in step
  with the stage.  Hard: ticks run outside `STATE.lock` and overlap, reviewers interrupt a
  run, a stage or the evidence raises half-way.
- **Chat approvals.** One verdict and one signal per proposal, the queue rebuilt from the
  ledger.  Hard: queue, row and signal are three steps, no lock spans them, any may be
  the last before a crash.
- **Feeds.** One pump at a time, and one that stop can reach.  Hard: starts and stops race
  with a thread that is coming up or going down, a join gives up after five seconds.
- **Fills, caps, book, writer, brokers.** Nothing counted twice or passed over when calls
  are repeated, reordered, late or cut short by an exception.

The hazards are listed one by one, at their lines, in `PROJECT.json`.

## 2. Modules

### ModeRules, ModeControl, ModeRatchet, MCModeControl

`ModeRules` holds the pure tables: legal edges, consent edges, gated targets, the
oracle's downgrade table, the two decisions of the policy engine.  It keeps two
traits of the code a reader may miss: `_chain_index` of LOCKED is -1, but the
policy engine compares enum ranks, in which LOCKED is 99; and the gates look at
the target of a move, not at its direction.

`ModeControl` is the concurrent machine.  `propose` holds the manager's own lock, so
it is one step; its callers read the mode, build a request and then propose, so
they are two steps with `pending[a]` between them.  `Serialised` says which
actors hold `STATE.lock` around both.  In production all do
(`ui/operator_routes.py:243`, `:268`, `:307`, `ui/dashboard_routes.py:199`, the
`_ingest_*_locked` sinks); the oracle has no production caller.

| Code | Here |
|---|---|
| `StateTransitionManager._mode`, `_seen_nonces`, `_bound_hash` | `mode`, `ring`, `bound` |
| rows MODE_TRANSITION, PROMOTION_GATES_BOUND, OPERATOR_CONSENT_ACCEPTED | `lastMove`, `lastBound`, `consents` |
| `docs/promotion_gates.yaml`, the decision-table hash, `wall_ns` | `gateFile`, `policy`, `now` |
| `submit` up to `propose` | `SubmitMode`, `SubmitKill`, `SubmitUnlock` |
| `evaluate_and_downgrade` up to `propose` | `ReadForDrift` |
| `propose` | `ProposeApproved`, `ProposeRejected`; an append that raises: `ProposeRaises` with `LoseConsentRow`, `LoseMoveRow`, `LoseBoundRow` |
| `_handle_hazard` with an emergency lock | `HazardLock` |
| process restart: mode and ring empty, bound hash lost or replayed | `Restart` |

Request times lie in `0 .. now`: a request was stamped when it was built.  Rows that
no decision reads back (rejections, audits) are left out.

`ModeRatchet` is the abstract promise: climb by one (operator), descend (operator),
downgrade (oracle), lock, release (unlock), boot.  `ModeControl` implements it with
`mover` mapped to the author of the last move.

### HazardThrottle, OrderPath, MCOrderPath

`HazardThrottle` is the pure part: rules by severity, windows (an observation
stamped in the future is active), the tightest active rule, the ring.
`OrderPath` runs batches under `STATE.lock`: `BeginTick` or `BeginSignal`, then for
each signal `RecordSignal`, `Execute`, `RecordResult`.  While a signal or a result is
recorded the sensors are polled, and `record` loops over what they raise: `PollSensors`
may come any number of times in between.  `Admitted` is the conjunction of
`execute`'s refusals in their order; `ExecuteRaises` is the approver or the
guard raising, which drops the rest of the batch.  `FlipTrading` and
`FlipDevelopment` follow the route: flag, row, row, policy, where either append may raise.
Two history variables say what the operator was told: `stopped`, from the answer that
trading is off (or a boot with it off) until he asks for it; `audited`, that trading was
allowed by the boot or by a row.  One symbol; a fill is one unit; `position` is bounded by
`MaxPosition`.  `ModeGiven` says whether callers pass `current_mode`: none does.

### AuthorityLedger, AppendOnlyLog, MCAuthorityLedger

An append is `Compute` (row from the mirror), `Insert` or `Raise`, `Mirror`; the
primary key refuses a taken number.  The hash of a row is the list of what was
hashed, so sha256 is taken to be collision free.  `Boot` replays and verifies;
`Crash` is `kill -9`; `PowerLoss` cuts the unsynced tail (`synchronous=NORMAL`);
`Damage` edits or removes rows while no process runs; `ReadPage` is the cursor of
`LedgerReader`; `OfflineVerify` is `integrity.verify_entries`.  `AppendOnlyLog` is the
promise: entries only at the end, none twice.

### LearningLoop

One thread's `tick` is fifteen steps, one for each read or write of an object that
other threads share (`DrainCopy` and `DrainClear` are the two statements of
`drain`, `Propose` and `Assign` the read and the write of the parameter).  Ticks of several
threads overlap, and `Record` may come at any point of them: outcomes are recorded under
`STATE.lock` (`ui/server.py:1198-1234`), the tick runs when its request has released it
(`:2294-2313`).  The pending samples are read by an iterator, which is an index: it meets
what another tick appends and skips one when another tick drops the oldest (`Fold`).
`ObserveRaises` is the statistics' deque changing under the tick that sums it up.
Floats are integers, the reward average is whatever step it can choose (`Adjusted`).  The
operator's two switches are the answer the tick meets (`open`).  An append to the samples
and the trim that follows it are one step: apart, the trim could raise only when more than
512 samples pend.  `raced` and `shared` remember which outcomes met one of the races that
the properties name.

### StrategyUpdates, MCStrategyUpdates

The ledger is here the list of the rows this part writes, and an append is one step
(`AuthorityLedger` takes it apart).  An append that raises leaves everything as it
was, so it is no action, except after UPDATE_RATIFIED: there `Apply` and
`ApplyRaises` are the two ends of `_handle_update_proposed`, with `ratified` the
proposal between them.  `Restart` at that point loses the proposal.

`Ready` lets one call in at a time.  The registry has no lock of its own: the harness
calls `GovernanceEngine.process` inside `STATE.lock` only (`ui/server.py:1163`, `:1193`,
`:1309`), and a host that wires the registry has to do the same.  The mutant of
`UpdatesWereRatified` is what happens otherwise.

| Code | Here |
|---|---|
| `StrategyRegistry._records` | `records`, `None` for a missing key |
| STRATEGY_LIFECYCLE, STRATEGY_PARAMETER_UPDATE, UPDATE_RATIFIED, UPDATE_REJECTED rows | `rows` |
| `register_draft`, `transition` | `RegisterDraft`, `Transition` |
| `UpdateValidator.validate` | `Ratifiable`, then `Ratify` or `Reject` |
| `UpdateApplier.apply`, `apply_parameter_update` | `Apply`, which asks `Tunable` again |
| `replay_from_ledger` | `Restart("replay")`, then `ReplayEntry` once for each row |
| the harness at `ui/server.py:569`: a new, empty registry | `Restart("empty")` |

A record keeps version, lifecycle, parameters, whitelist and bounds.  A bound is the
set of values it admits (`Value` if none is declared), so that the number parsing of
the validator is membership.  Timestamps, reasons, `composed_from` and `why` decide
nothing and are left out; an empty reason is one of the causes of `learning = FALSE`.
A row holds the record itself: the text form of `_serialize_strategy_record` gives
it back unless a name in a whitelist is empty or contains `\x1f`, which the model
excludes.  A row's step also moves `at`, the number of rows the process has replayed
or written; `base` and `forgotten` remember where processes came up empty.

### PatchPipeline

Two threads tick.  `Evaluate`, `TooFew`, `Recovered`, `Below`, `Arm` are the proposer, from one
call that may switch threads to the next: `_maybe_emit` looks at the armed keys and arms in
two steps, and from the arming to the patch id nothing is called.  `Propose`, `StageRecords`,
`StageAdvances`, `StageFails`, `StageRaises`, `Approve` are the orchestrator's run; what a
stage computes is its outcome.  A call of the bridge is several steps: `advance` records the
verdict and then moves the stage, and a decision is made with the transition (`Decided`, into
`owed`) and listed later (`Listed`), when others may have been listed.  In the
transition itself the check of the edge and the write are one step, for nothing is called
between them.  `EvidenceRaises` is the evidence builder, `Review` any other
caller of `reject` and `rollback`; the program has none besides the orchestrator today.
`final_stage` and the other read-backs are left out.  `breach` counts proposals of a key since it
was disarmed.

### ChatApprovals

Each step is one hold of the queue's lock, one append or one emission.  `Submit`, `LogPending`
are the turn, `Decide`, `LogDecision`, `Emit` the approval edge (`AutoWired`: the turn may go on and
approve by itself; the harness never wires that), `AppendRaises` and `EmitRaises` the
exceptions, `ChatRestart` a crash with `rehydrate_approval_queue_from_ledger`, which is `Projected`.

### FeedRunner

One module for the four runners, which are alike; `kind` is what their pumps are: a stream
(Binance, Pump.fun) or a poll (CoinDesk, Raydium).  `start` is one step under the runner's
lock; `stop` is `StopRead` (first lock), `StopSignal` (`call_soon_threadsafe`), `StopReturn` (join,
second lock); the worker publishes its pump, runs and clears up.  The five seconds of the
join are not counted: `StopReturn` may come at any time.  A frame is delivered by `Frame`, of which
nothing is assumed: the pumps await it without a timeout.

### OrderLifecycle, DailyCaps, MarketBook, AsyncLedger

Each is one object whose calls are one step (all but the first hold a lock, or have one
caller), and its environment: a venue that executes while a cancel travels and whose
reports come twice and out of order (`Execute`, `Apply`, `Transition`); a store whose reads and
writes raise (`ReadRaises`, `WriteRaises`, `CapsRestart`); a venue whose messages are the updates
`first .. final` of its own history, in any order, with gaps and repeats (`Trade`,
`ApplySnapshot`, `ApplyDelta`); a file system whose open, write or fsync raises or whose write is
short (`Raising`, `Short`).

### WorkQueue, PulsarBroker, JetStream, KafkaGroup

The three in-memory brokers with their consumers.  `WorkQueue` is what a shared subscription
promises; `PulsarBroker` implements it with `done` mapped to everything below the floor or
acknowledged.  One partition (Pulsar), one stream and one durable consumer (JetStream): the
others do not meet them.  `KafkaGroup` has no coordinator, because the code has none: `view`
is what a handle was told about the group.  `CommitOffsets` and `Seek` take any offsets a caller
names, for partitions that are not the handle's and past the end of the log too, as
`commit(offsets)` and `seek` do; `passed` remembers what was jumped over that way.  `JetStream` keeps the number of each publish next
to the seq the code gives it, since the two part.

### MCParts, MCPatchesAndDamage, MCLoopAndLedger

These nine parts share no variable with each other, so a behaviour of all of them is an
interleaving of behaviours of each, and every property speaks of one.  `MCParts` is their
sum: `part` is chosen at the start and only that part moves.  `MCPatchesAndDamage` and
`MCLoopAndLedger` do the same with two components each that share nothing.

## 3. Runs

| Run | Instance | Shows |
|---|---|---|
| mode_control | one request thread and the oracle under `STATE.lock`, gates wired, 2 nonces, ring of 1, 2 gate files, clock to 2, one restart | consents that back a move are fresh, at both edges of the window; nonce spacing; promotions under the file of the PAPER entry; refinement of `ModeRatchet` (LOCKED left by unlock only, the oracle only descends) |
| mode_faults | appends may raise, file may vanish, two policy tables, one restart | `LedgerAgrees`, `BoundIsAnchored`, `ConsentBacksMove` survive every partial `propose` |
| mode_kill | two request threads and the oracle, no `STATE.lock` | a kill let in locks the system (liveness) |
| orders | callers with and without a mode, appends that raise, LOW and CRITICAL, three hazards on a ring of two, trading off at boot | no fill inside the window of a blocking hazard while the ring has held all; observing only tightens; off stays off until the operator asks |
| loop_and_ledger | loop: two threads whose ticks overlap, three ticks, two outcomes, one sample kept, either answer of the switches; ledger: two processes, three requests, INSERTs that raise, crashes anywhere | outcomes are lost in two named races only and counted twice in two others only; updates start from told values; a frozen loop drains (liveness); chain, prefixes, durability, paging, refinement of `AppendOnlyLog` |
| patches_and_damage | patches: two ticks, one strategy, one reason, three patches, a reviewer; ledger: one process, INSERTs that raise, power failure, two edits, writers used after `close`, one request of three with a payload that is not text | a breach is proposed once for each racing tick at most; the bridge's decisions, listed or about to be, are what became of each patch; a boot accepts only rows really written, in their place; both verifiers agree, but for payloads that are not text |
| strategy_updates | two strategies, one parameter, two values, one declared bound, six rows, two restarts of either kind | records equal the replay of the rows; histories are legal; an update follows its verdict; parameters stay in bounds |
| parts | the nine parts one by one; see below | feeds: one pump, stoppable, and a told pump ends unless its stream is quiet for ever (liveness); chat: one verdict, one signal, a queue that a replay gives back; fills once; caps hold; the book is the venue's; rows reach the file in order; brokers: nothing passed by, nothing skipped but by callers who name an offset, shares partition, refinement of `WorkQueue` |
| order_ignores_mode | violation | fills in LOCKED |
| order_unaudited | violation | a trading flip whose row is never written, handed to the engine by the next development-mode flip, and a fill |
| outcomes_lost | violation | an outcome recorded between drain's copy and its clear |
| chat_overtaken | violation | a proposal decided before its PENDING row is decided again after a restart |

**Bounds.** They are CONSTANTS that appear in guards (`MaxTime`, `MaxConsents`,
`MaxBoots`, `MaxRows`, `MaxHazards`, `MaxSignals`, `MaxPosition`, `MaxEdits`) or in the size
of a set (outcomes, requests, nonces).  Each is the smallest that lets the case
happen: two nonces over a ring of one evict; two consents and one restart replay;
windows of 1 and 2 on a clock of 2 open and close; a ring of one overflows with two
hazards; two processes collide on one number and a third request follows; two
outcomes overflow `MaxSamples = 1`, and of three ticks two race and one comes after; a clock
of 2 passes a freshness window of 1 on both sides; three lifecycle rows, a verdict and its update are five
of six rows, and the sixth is a RETIRED, another DRAFT or another strategy's row.  The theorems below hold for all values.
In `parts`: two threads and two stops let a start overtake a timed-out join;
two proposals and two requests let a verdict overtake a turn; a target of 3 with fills of 1 to 3
at two times makes duplicates, overfills and reorderings; a cap of 2 with orders of 1 and 2 over two
days; two levels, four updates and snapshots of depth one; batches of two and four rows;
three entries for two consumers under all four subscription types; four publishes against a
retention of two; three partitions for two members, which leaves a remainder, and offsets named
up to one past the end.
`patches_and_damage` has three patches, one more than the racing ticks can propose of one breach.
`CHECK_DEADLOCK FALSE` is set in the `Mode*` configurations, `StrategyUpdates.cfg`, `Parts.cfg`,
`PatchesAndDamage.cfg`, `LoopAndLedger.cfg` and `OutcomesLost.cfg` only, where bounds such as
`MaxTime`, `MaxConsents`, `MaxRows` and `MaxBoots` can stop the model although
the program would go on.
Symmetry is used in runs without liveness or refinement of told-apart values.

**Fairness.** `ModeControl`: weak fairness of each thread's `Propose`, because a thread
that has read the mode holds no lock it could wait for except the manager's own,
and every holder of that leaves it.  `LearningLoop`: weak fairness of each thread's
`LoopTick`, because a request thread that runs is scheduled by the operating system and
the tick waits for no lock.  `FeedRunner`: weak fairness of a feed thread's steps and of the
callback that sets the stop flag, because the thread is scheduled, connecting, polling and
closing have timeouts and back-off is bounded.  Nothing is assumed of an open stream's next
frame, and pings are no frames: a pump that is told to stop in a stream that stays quiet never
looks at the flag, and `SignalledPumpsEnd` says that this is the only way for it not to end.
No fairness is assumed of operators, clients, hazards, the clock, crashes or restarts.

## 4. Theorems

All are proved for every value of the constants that satisfies the module's
ASSUMEs.  Where a theorem has an assumption it is named here.

*ModeControl_proofs.*  `TypeCorrect`.  `LedgerConsistent`: mode and bound hash agree
with the latest rows, appends that raise included (the flip and its row are in one
step, whatever else is lost).  `ConsentBacked`: strengthened with `LedgerAgrees` and
`mark <= Len(consents)`; the step case needs that a consent edge's move always
writes its consent row first.  `NoncesSpaced` (no append raises): the invariant
`RingIsTail` says that the ring is the nonces of the latest accepted consents of this
process, oldest first; a new consent whose nonce is not in the ring is then at
least a capacity away from its twin.  With appends that raise, a nonce can be spent
without a row and the two part.  `PromotedUnderAnchor` (gates wired, no append
raises, file never lost): `GatesHold` relates the bound hash to the file of the PAPER
entry.  `RequestsAreCurrent`, `SerialisedCallersBehave`, `ImplementsRatchet` (all
actors serialised) rest on `OneCallAtATime`: at most one request is pending, it was
built in the present mode and is of the shape its author builds.

*OrderPath_proofs.*  `IInv == TypeOK /\ RingIsHistory /\ SwitchesAgree`.  `RingIsHistory`
says that as long as no more hazards were raised than the ring can hold its entries are
exactly those observed; so a blocking hazard in its window is in `Throttle`.
`HazardsHaltFills` and `ObservingTightens` speak of that time only (after it they are
false: eviction).  `ObservingTightens` rests on the lemma `ThrottleMonotone`: more active
observations, tighter decision.  `OffStaysOff` is unconditional, from `SwitchesAgree`: while
`stopped` holds neither the engine's policy nor the flag allows trading, so that no later
flip of the other switch can publish it.

*AuthorityLedger_proofs.*  `ChainInv`: row i carries number i - 1, the chain verifies,
a mirror is a prefix of the table, and a computed row continues its process's
mirror (`StepsContinue`); an INSERT that gets past the primary key then extends the
whole table.  `RequestsApart` adds that a request is in at most one of: to do, in
progress, in the table.  `ChainAlwaysVerifies` and `MirrorsNeverDiverge` assume an unedited
file; `LedgerIsAppendOnly` (refinement) and `ReadersMissNothing` also that power does not
fail, `AckedNeverLost` also that writers stay open.  Three hold whatever is done to the file:
`LedgerTypeCorrect`; `BootsAreGenuine`, because a hash contains all the hashes before it, so a
table that verifies ends in one that some process wrote, with the rows it wrote (`GenuineInv`:
the hashes on disk were all written by an append, an append in progress has the hash of its row
behind its mirror, and the rows of a mirror chain to hashes that were written); and
`VerifiersAlwaysAgree`, where the two walks are compared at the first row on which they could
part (a least counterexample).  Any number of processes.

*LearningLoop_proofs*, for any number of threads, outcomes and ticks, at any interleaving.
`LearningTypeCorrect`: the clamp keeps the parameter in its bounds although ticks race on it.
`OutcomesLostInRacesOnly`: `KeptInv` says what a tick has in hand at each statement
(`Handed`), and that between its copy and its clear the queue holds nothing else than that and
what raced.  `OutcomesCountOnce`: `OnceInv` says, of an outcome that no two ticks shared,
that it is in one hand at most (`InOneHand`), that what waits is new (`Untaken`), that what
a tick holds counts for nothing before the statement that counts it (`HeldNew`), and that a
pending sample was folded only by a tick that has gone past it and is still to wipe
(`Sampled`).  `UpdatesStartFromTold`: what is kept as the previous snapshot, and what is
about to be, was told.

*StrategyUpdates_proofs*, with no assumption beyond the types of the constants.
`IInv` is `TypeOK`, `RecordsAreReplay`, `HistoriesContinue`, `UpdatesWereRatified`, what
`base` and `forgotten` mean (`Bases`), and that a proposal between its verdict and its
update is the last row and still fits its record (`RatifiedFits`): `Apply` asks for the
whitelist again but not for the bounds, and is right because nothing comes in between.
`AsOf` defines what rows say of a strategy with the latest row of each kind instead of
a loop; the lemmas `AsOfPrefix`, `AsOfLifecycle`, `AsOfUpdate`, `AsOfOther` say what a row
more does to it.  As the loop of `replay_from_ledger` is one step for each entry, the
induction over the ledger is the induction over steps.  That the latest row exists
(`LatestExists`) is the well-foundedness of the naturals.  `ParametersStayInBounds` needs
one thing more, `RowsInBounds`: what the rows say, at every length, keeps to the bounds
of a DRAFT.  Replay cannot hit a parameter update of an unknown strategy (a KeyError in
the code): by `HistoriesContinue` a lifecycle row comes first, and was replayed.
`UpdatesFollow` says that behind `base` every update row has a lifecycle row, so that an
unknown strategy has no row of either kind there, and `HistoriesContinue` can ask a DRAFT to be
behind all rows that were forgotten.  `LivesFollowOneAnother`: of two rows of a strategy the
later has the greater version and none comes behind its retirement, unless between the two a
process that came up empty drafted it anew (`Reborn`); where every process replays that never
happens.  `LifeAt` carries it on: no row of the present life has a greater version than the record
the rows make, and a retired record stays so.

*PatchPipeline_proofs*, for a finite set of ticks and any patches.  `EpisodeInv`: a key that is
not armed has no proposal in this episode yet, and proposals made plus ticks about to make one are
at most the ticks there are.  `DecisionsTell` is proved from
`DecisionInv`: `AllTold`, which is the property for each patch and decision, with the decisions
listed and those owed to the list counted together (`Made`), and with what was approved in no
tick's hands any more, so that its five verdicts stay; and `LineInv`, which says what a run has in
hand (`OutOK`: its proposals are all different, what is still to come is untouched, and the one that
runs has a verdict for each stage it passed, `Noted`) and that no patch is in the hands of two.  A
reviewer may settle a patch while it runs, also between its verdict and its transition, and the run
raises at its next edge; so `OutOK` lets the patch that runs be in the stage its verdicts say or
settled.

*PulsarBroker_proofs*: the refinement `SubscriptionIsAQueue`.  `PulsarInv` has four parts
(`Numbers`, `Offers`, `Holds`, `InOrder`) that tie the log's positions to what was offered and is
held.  `Produce` maps to `Send`, `Detach` and `Nack` to `GiveBack`, `Receive` to `Hand`, the
two acknowledgements to `Settle`, `Attach` to a stutter.  `OneHolderInOrder` states what two of
the parts say of every reachable state: one holder for a message, and delivery in order where
there is one consumer at a time.

*Parts_proofs*, of parts that stand alone.  What a theorem asks for beyond the types of the
constants is named with it; `PartsTypeCorrect` has their type invariants.
- Feeds: `OneStoppablePump` is inductive together with the types; that `NoWorker` is no worker
  is all it needs of the constants.
- Caps: `CapsAreKept` strengthens by `MemoryCovers`: the total in memory is never less than the
  file's total of its day.
- Chat: `ChatDecidesOnce` and `ChatReplays`, for any number of threads.  `VerdictStands`: while a
  thread carries a decision out, memory has a verdict.  `Settled` holds of each proposal that was
  not overtaken: pending means undecided on file, one thread at most carries a decision, and
  before its row there is none.  `Mirrored` adds that memory and file differ by what a thread is
  about to write.  What was overtaken stays so, which makes the exception inductive.
  `LoggedTurnsDecideOnce` is the claim that the violation run refutes, `DecidedOnce`, under the
  one order that makes it true: a turn that queued a proposal writes its PENDING row before
  anybody serves the proposal (`TurnLogsFirst`).  Then nobody serves it besides (`TurnsAlone`),
  and nothing is overtaken.
- Ledger writer: `RowsInOrder`.  Buffered rows are numbered on from the last one reported, so a
  batch, repeated or not, lands behind its predecessors (`BatchBehind`).  `RowsOnce` assumes that
  every write of rows is reported (`WritesReturn`: no fsync raises behind a write); then, until
  a write is short, the file is exactly the rows 0, 1, 2, ... that were reported.
- Streams: `NothingIsPassedBy` adds that the floor never passes `delivered`, that only wanted
  messages are pending and that a number is a place; that the walk of `ack` ends before a
  pending message (`RaisedExists`) is a least-element argument.  It needs a stream that drops
  nothing.  Two hold under any retention, where seqs repeat: `FloorNeverFalls`, from
  `FloorIsUnder` (every pending seq is above the floor, so a rewind goes to the floor at the
  furthest), and `AnsweredStaysAnswered`, as long as delivery is not taken back.
- Kafka: `CommitsFollowFetches`, inductive with the types, whatever offsets callers name.  `GroupsShareOut` is about the
  arithmetic of `assign_partitions`: in a finite set each rank below its size is exactly one
  element's (`Ranks`), the slices follow one another from the first partition to the last
  (`Slices`, from base * n + extra being the number of partitions), so a partition is in one slice
  (`AssignedOnce`).  `CommitsAreKept` rests on it: while all handles have the same view of the
  group and no caller names an offset, a partition has one handle, which reads on from what was committed.
- Order book: `BookMatchesVenue`.  The greatest update of a level within a delta is the greatest
  of the level's whole history up to it; that a greatest exists is well-foundedness.
  `WholeSnapshotsAreExact`, when a snapshot has room for all levels: nothing is cut off, and the
  book is the venue's exactly.
- Fills: `FillsAreCountedOnce`.  `filled` is a fold over the set of booked fills, and that one
  fill more adds its quantity must be proved for every finite set.  The lemmas do not use an
  induction theorem with an operator as parameter: `Adds` says that a function on the subsets of
  a set adds up one of them, the sizes for which such a function exists are a set of numbers with
  0 in it and closed under successor (`AllNumbers`, from well-foundedness), the function is
  unique (`OneAdder`), does not depend on which fill comes first (`AnyFirst`) and is the fold
  (`QtyIs`).  `BookInv` adds that a booked fill was remembered.  `FillsDriveLegalEdges` assumes
  that nobody cancels or fails the order (`LeftAlone`); a closed one is then full.

**Only model-checked.**  The liveness properties (`KillLocks`, `DrainedIsObserved`,
`SignalledPumpsEnd`): liveness and ENABLED are out of this prover's reach.  Every invariant and
every action property of a passing run is stated by a theorem.  The modules declare no RECURSIVE
operator.

## 5. Where the code and its documents part

Shown by the violation runs and quoted in `PROJECT.json`: `execute` is never told the
mode, so a kill does not stop fills by itself; the trading switch sets its flag before its row,
and an append that raises leaves a flag that the development switch publishes, so that orders are
filled which no row allows; `drain` copies and clears in two steps without a lock, and an outcome
recorded in between never reaches the learning loop; an operator's verdict can be written before
the PENDING row of its proposal, and after a restart the proposal is decided again (not if
the row comes first: `LoggedTurnsDecideOnce`).  Met
while modelling, with no run of their own:

*Modes, orders, ledger.*

- The nonce ring is in memory: after a restart inside the freshness window a consent
  envelope that was accepted is accepted again, where `operator_consent.py:12` promises
  "replay protection via a per-operator nonce window".  `NonceSpacing` speaks of one process.
- `drift_oracle.py:222` outside `STATE.lock`: the mode may drop between read and
  propose, and LIVE as the target of a downgrade from AUTO is then a step up from
  CANARY, against :12 "one-step *backward*".  `RatchetSpec` holds under the lock only.
- `GovernanceEngine` builds its manager without promotion gates (`engine.py:134`);
  `GatesWired` covers both.
- An edited gates file also refuses steps down into CANARY and LIVE, because `check`
  sees only the target (`promotion_gates.py:158`; the manager's header says "any
  backward step in the chain is permitted").
- Entering PAPER flips the mode before `bind`, which may raise.
- A full ring evicts the oldest hazard, a CRITICAL one in its window included.
- A trading flip to off whose second append raises leaves the engine trading although a row
  says off; the operator gets an error, not the answer (`OffHolds` begins with the answer).
- A ledger that lost its tail verifies at boot; an append after `close` is in memory
  only; a process behind another's rows cannot append until it restarts.
- `GovernanceEngine.process` puts a float, a bool and possibly None into the payload of
  every SIGNAL_AUDIT row (`governance_engine/engine.py:295`).  The writer hashes their
  text and its boot check accepts the row, `integrity.verify_entries` calls it
  BAD_ROW_SHAPE: one signal makes the offline verification of a healthy ledger fail, where
  `hash_chain.py` says that writer and verifier agree on every hash.  `NonText` marks such
  requests; `VerifiersAgree` holds with that exception and fails without it.
- The harness never replays the registry (`ui/server.py:569`).  After a restart every
  strategy is unknown; it can be registered again, RETIRED or not, with version 1, where
  `core/contracts/strategy_registry.py:88` has versions "monotonically increasing per
  strategy_id".  `HistoriesContinue` admits a second DRAFT exactly there, and nowhere else does
  a new life begin (`LivesFollowOneAnother`).  Nothing in
  production calls `register_draft` or `transition` either, so there the update handler
  rejects every proposal as UNKNOWN_STRATEGY.
- A ratified proposal whose second append raises stays ratified in the ledger and is not
  in force; nothing tries it again.
- Ticks of the closed loop that overlap count an outcome twice (two that copied the queue before
  either cleared it; two at the pending samples), let one of two adjustments be lost, and move
  the value by more than a step from one snapshot to the next; the chain of updates may fork, since
  two may start from one snapshot.  `OutcomesOnce` names the first two, the others no property
  forbids.  The statistics of `PatchOutcomeFeedback` raise when another tick appends to the deque
  they sum, and the outcomes still in hand are not observed.
- UPDATE_PROPOSED events of the closed loop are only counted in the HTTP answer,
  they do not reach governance.
- `policy_hash_anchor.verify_no_drift` has no production caller, and the hazard it
  would raise locks the system where the comment says it downgrades to SAFE.

*Structural loop.*

- "One-shot" (`mutation_proposer.py`): two ticks that look before the first of them arms both
  propose; `OncePerBreach` has the bound that does hold.
- The bridge's list can have a rollback before the approval it follows: the transition and the
  listing are two steps.
- The evidence builder of `ui/server.py:1030` makes a `BacktestSummary` with fields that
  class does not have, a TypeError, after the key was armed: the proposal is lost, the key stays
  armed until the strategy recovers, and every later proposal of the tick is dropped.
- A bridge with promotion gates wants metrics the orchestrator does not pass: its approve
  raises and the patch stays in CANARY.  Nothing resumes a patch whose run was cut off.

*Chat and feeds.*

- An append that raises after `decide` leaves the proposal decided in memory and PENDING in the
  ledger; an emitter that raises leaves an approved row without a signal.
- A `stop` that meets an open stream which has gone quiet sets a flag nobody looks at until the
  next frame; the join gives up after five seconds and the thread stays.
- A `stop` between the start of the thread and the moment it publishes its pump signals
  nothing and waits five seconds for a thread that runs on; a `start` during a stop that is
  still joining answers "running" and starts nothing.

*Parts the harness does not call.*

- `fill_handler.py` "only ever calls fsm.transition with legal edges": a fill that comes behind a
  cancel is booked, then the machine raises; delivered again it is dropped in silence.  Of
  an order nobody cancels or fails the claim holds (`FillsDriveLegalEdges`).  Two executions that agree in time, quantity and price are one.
- `compliance_validator.py` sets the day before it loads its totals: a load that raises leaves
  yesterday's totals, or none after a start, as today's, and the cap can be spent again.
  `CapsHold` excludes it (`unread`).  Without a file, orders that alternate between two days
  reset the cap each time.
- `async_writer.py`: a batch whose fsync failed is written twice (the only way to a second copy
  of a row: `RowsOnce`); the count of `os.write` is not
  looked at, so a short write loses rows that are reported as written; a second writer on the same
  file numbers from 0 again.
- `nats_bus.py:40` orders by "in-process publish counters (monotone integers)"; a seq is the
  length of the log plus one, so it repeats after retention dropped a message, and a message
  with a repeated one is never delivered.  A
  `nak` moves delivery back over answered messages, which are delivered again, and nothing else
  does that (`AnsweredStaysAnswered`); a `term` after it does not stop it.
- `pulsar_bus.py`: a consumer that closes leaves its unanswered messages pending for ever; a
  cumulative acknowledgement of a new primary settles what the old one still holds.
- `kafka_bus.py`: a handle with an old view of the group commits its own, older offset over
  a newer one; with one view nobody does (`CommitsAreKept`).  `commit(offsets)` and `seek` check
  neither the partition nor the end of the log: a group may skip, or be ahead of, what exists
  (`OnlyCallersSkip` says that nothing else makes it skip).

## 6. Not modelled, and the plan

Next, most important first:

1. The exposure book of `risk_evaluator.py`, beside `DailyCaps`: memory is changed before the
   write-through.
2. `PolicyAnchor` and source-trust promotions: what a restart can replay.  The policy files are
   bound at boot and never compared again.
3. Composition of `OrderPath` with `AuthorityLedger`: `record` swallows what governance
   raises, so a fill may have no audit row.
4. Circuit breaker, reconciliation and retry budget; none is wired into `execute`.
5. Snapshots of the event ledger, on top of `AsyncLedger`; the in-process event fabric and the
   Faust bus; the news fan-out.
6. A rules run that compares mode effects, limits and the calendar arithmetic of
   `day_iso_from_ns` with reference definitions.
7. Smaller hazards without a property: a table that lost its tail verifies; an edited gates file blocks the oracle's
   downgrade; an `append` after `close` is in memory only; a process whose mirror fell behind
   appends no more until it restarts; the patch aggregator iterates a deque another request
   appends to; the hazard ring is empty after a restart.

A new question of a component that is checked already joins the run that has its module.

Planned proofs: under which order of steps the divergences of section 5 in `OrderPath` and
`LearningLoop` go away (a row before the flag, a drain in one step), as was done for the chat, the
fills and the brokers.

Left out for good: numeric signal generation, statistical, LLM and reinforcement
wrappers, simulators, crawlers, clients of external stores and buses, dashboards,
lints and build scripts.  They are nine tenths of the source; they hold no protocol state, or
are I/O around a third-party library; what they deliver enters the models as a free choice of
inputs.
