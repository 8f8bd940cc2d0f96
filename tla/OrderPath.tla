------------------------------ MODULE OrderPath ------------------------------
(***************************************************************************)
(* From a market tick or a signal to the broker, and everything that may   *)
(* stand between them: the order fan-out of the harness (ui/server.py),    *)
(* ExecutionEngine.execute with its gates, the hazard throttle, the hazard *)
(* fan-in of `record', and the operator's two switches.                    *)
(*                                                                         *)
(* All of it runs under STATE.lock, so at most one batch of signals is in  *)
(* progress and the operator's requests come between batches.  A batch is  *)
(* several steps because the clock runs on and because the sensors polled  *)
(* by `record' raise hazards between two signals of the same batch.        *)
(*                                                                         *)
(* One traded symbol; a fill is one unit.  The mode machine is its legal   *)
(* edges only: ModeControl says when the operator may take one.            *)
(***************************************************************************)
EXTENDS HazardThrottle, ModeRules

CONSTANTS
  None,           \* no batch in progress
  ModeGiven,      \* does a caller pass current_mode to execute?  The answers met
  BootTrading,    \* DIXVISION_TRADING_ALLOWED
  BootDeveloping, \* DIXVISION_DEVELOPMENT_MODE
  Raised,         \* the severities the sensors and the news raise
  MaxSignals,     \* signals one tick can produce
  MaxHazards,     \* bound on the hazards of one process
  MaxPosition,    \* bound on the broker's position
  MaxTime         \* bound on the clock

ASSUME OrderPathAssumption ==
  /\ ModeGiven \subseteq BOOLEAN /\ BootTrading \in BOOLEAN /\ BootDeveloping \in BOOLEAN
  /\ Raised \subseteq Severity
  /\ MaxSignals \in Nat /\ MaxHazards \in Nat /\ MaxPosition \in Nat /\ MaxTime \in Nat
  /\ None \notin [left : Nat, stage : {"signal", "execute", "result"}, given : BOOLEAN]

\* The DevelopmentModePolicy held by the engine.
Policy == [trading : BOOLEAN, developing : BOOLEAN]

\* The signals of a tick that are left, the current one included, how far it is
\* (not recorded yet, recorded and not executed, executed), and whether the
\* caller passes current_mode.
Batch == [left : Nat \ {0}, stage : {"signal", "execute", "result"}, given : BOOLEAN]

VARIABLES
  mode,       \* StateTransitionManager._mode
  batch,      \* the batch whose thread holds STATE.lock
  ring,       \* HazardObserver._buffer
  marked,     \* ExecutionEngine._marks has a price for the symbol
  position,   \* PaperBroker._positions
  policy,     \* ExecutionEngine._development_mode_policy
  flags,      \* _State.trading_allowed and _State.development_mode_enabled
  now,        \* wall_ns()
  observed,   \* history: the hazards this process has observed
  raised,     \* history: their number
  stopped,    \* history: the operator was answered that trading is off, or it
              \* booted so, and has not asked for it since
  audited     \* history: trading was allowed by the boot or since by an
              \* OPERATOR_TRADING_ALLOWED_CHANGED row

decided == <<stopped, audited>>
vars == <<mode, batch, ring, marked, position, policy, flags, now,
          observed, raised, decided>>

TypeOK ==
  /\ mode \in SystemMode
  /\ batch \in Batch \cup {None}
  /\ ring \in Seq(Observation)
  /\ marked \in BOOLEAN
  /\ position \in Int
  /\ policy \in Policy /\ flags \in Policy
  /\ now \in Nat
  /\ observed \subseteq Observation
  /\ raised \in Nat
  /\ stopped \in BOOLEAN /\ audited \in BOOLEAN

Booted == /\ mode = "SAFE" /\ batch = None /\ ring = <<>> /\ marked = FALSE
          /\ policy = [trading |-> BootTrading, developing |-> BootDeveloping]
          /\ flags = policy
          /\ observed = {} /\ raised = 0
          /\ stopped = ~BootTrading /\ audited = BootTrading

Init == Booted /\ position = 0 /\ now = 0

Throttle == ComputeThrottle(ring, now)

\* effect_for(mode).executions_dispatch.
Dispatches(m) == m \notin {"LOCKED", "SAFE"}

-----------------------------------------------------------------------------
(* Hazards.                                                                *)

\* Mutant: governance first, so that an append that raises hides the hazard.
MutSenseAfterLedger(obs) ==
  /\ raised < MaxHazards
  /\ observed' = observed \cup {obs} /\ raised' = raised + 1
  /\ \/ /\ ring' = Observe(ring, obs)
        /\ mode' = IF Blocks(obs.severity) THEN "LOCKED" ELSE mode
     \/ UNCHANGED <<mode, ring>>

\* on_hazard, then GovernanceEngine.process: HIGH and CRITICAL lock the mode.
\* When the row cannot be written the exception is swallowed (or leaves the
\* news callback) after the ring has the hazard; the mode stays.
Sense(obs) ==
  /\ raised < MaxHazards
  /\ ring' = Observe(ring, obs)
  /\ observed' = observed \cup {obs} /\ raised' = raised + 1
  /\ \/ mode' = IF Blocks(obs.severity) THEN "LOCKED" ELSE mode
     \/ UNCHANGED mode

\* A sensor stamps its hazard with the ts_ns of the event it was polled with,
\* which a tick brings along: any time, the future included.
SomeHazard == [severity : Raised, ts : 0 .. MaxTime]

\* record polls the sensors on every event that is not a hazard, the rows that
\* the hazards bring about included: some raise one, some several, most none.
PollSensors ==
  /\ batch # None /\ batch.stage \in {"signal", "result"}
  /\ \E obs \in SomeHazard : Sense(obs)
  /\ UNCHANGED <<batch, marked, position, policy, flags, now, decided>>

\* _ingest_news_hazard_locked.
NewsHazard ==
  /\ batch = None
  /\ \E obs \in SomeHazard : Sense(obs)
  /\ UNCHANGED <<batch, marked, position, policy, flags, now, decided>>

-----------------------------------------------------------------------------
(* Batches.                                                                *)

Pending(n, given) ==
  IF n = 0 THEN None ELSE [left |-> n, stage |-> "signal", given |-> given]

\* post_tick and _ingest_market_tick_locked: the tick marks the symbol (unless
\* it carries no last price) and the enabled plugins answer with signals, none
\* when the learning gate is closed.
BeginTick ==
  /\ batch = None
  /\ marked' \in {marked, TRUE}
  /\ \E n \in 0 .. (IF policy.developing THEN MaxSignals ELSE 0), given \in ModeGiven :
       batch' = Pending(n, given)
  /\ UNCHANGED <<mode, ring, position, policy, flags, now, observed, raised, decided>>

\* post_signal, the TradingView webhook, the news and the approved chat
\* proposals: one signal, past the learning gate.
BeginSignal ==
  /\ batch = None
  /\ \E given \in ModeGiven : batch' = Pending(1, given)
  /\ UNCHANGED <<mode, ring, marked, position, policy, flags, now,
                 observed, raised, decided>>

\* What neither recording nor executing a signal changes.
Unexecuted == UNCHANGED <<mode, ring, marked, policy, flags, now, observed, raised, decided>>

RecordSignal ==
  /\ batch # None /\ batch.stage = "signal"
  /\ batch' = [batch EXCEPT !.stage = "execute"]
  /\ Unexecuted /\ UNCHANGED position

RecordResult ==
  /\ batch # None /\ batch.stage = "result"
  /\ batch' = Pending(batch.left - 1, batch.given)
  /\ Unexecuted /\ UNCHANGED position

\* PaperBroker.submit: a BUY or a SELL fills one unit; a HOLD and an order
\* whose max_fill_qty is zero are refused.
Submit == \/ position < MaxPosition /\ position' = position + 1
          \/ position > -MaxPosition /\ position' = position - 1
          \/ UNCHANGED position

\* execute, past the guard: the intent is stamped inside the batch, so the
\* throttle is projected at `now'; the baseline snapshot is never halted.
Admitted ==
  /\ policy.trading
  /\ ~Throttle.block
  /\ batch.given => Dispatches(mode)
  /\ marked

Execute ==
  /\ batch # None /\ batch.stage = "execute"
  /\ IF Admitted THEN Submit ELSE UNCHANGED position
  /\ batch' = [batch EXCEPT !.stage = "result"]
  /\ Unexecuted

\* The approver or the AuthorityGuard raises: the handler is left, and with it
\* the signals that were still to come.
ExecuteRaises ==
  /\ batch # None /\ batch.stage = "execute"
  /\ batch' = None
  /\ Unexecuted /\ UNCHANGED position

-----------------------------------------------------------------------------
(* The operator and the environment.                                       *)

ChangeMode ==
  /\ batch = None
  /\ mode' \in {m \in SystemMode : IsLegalEdge(mode, m)}
  /\ UNCHANGED <<batch, ring, marked, position, policy, flags, now,
                 observed, raised, decided>>

\* POST /api/operator/trading-allowed: the flag is assigned first, then come
\* the OPERATOR_TRADING_ALLOWED_CHANGED row, the POLICY_STATE row and the
\* engine's policy.  Either append may raise, and nothing after it is done.
FlipTrading ==
  /\ batch = None
  /\ \E enabled \in BOOLEAN :
       /\ flags' = [flags EXCEPT !.trading = enabled]
       /\ \/ /\ policy' = [trading |-> enabled, developing |-> flags.developing]
             /\ audited' = (audited \/ enabled) /\ stopped' = ~enabled
          \/ /\ UNCHANGED policy
             /\ audited' \in {audited, audited \/ enabled} /\ stopped' = (stopped /\ ~enabled)
  /\ UNCHANGED <<mode, batch, ring, marked, position, now, observed, raised>>

\* Mutant: the development-mode route opens trading as well.
MutFlipBoth ==
  /\ batch = None
  /\ \E enabled \in BOOLEAN :
       /\ flags' = [flags EXCEPT !.developing = enabled]
       /\ policy' = [trading |-> enabled, developing |-> enabled]
  /\ UNCHANGED <<mode, batch, ring, marked, position, now, observed, raised, decided>>

\* POST /api/operator/development-mode: the policy is rebuilt from the flags.
FlipDevelopment ==
  /\ batch = None
  /\ \E enabled \in BOOLEAN :
       /\ flags' = [flags EXCEPT !.developing = enabled]
       /\ \/ policy' = [trading |-> flags.trading, developing |-> enabled]
          \/ UNCHANGED policy
  /\ UNCHANGED <<mode, batch, ring, marked, position, now, observed, raised, decided>>

Tick == /\ now < MaxTime
        /\ now' = now + 1
        /\ UNCHANGED <<mode, batch, ring, marked, position, policy, flags,
                       observed, raised, decided>>

\* The process starts again.  The broker is rebuilt with it.
Restart ==
  /\ position' = 0
  /\ mode' = "SAFE" /\ batch' = None /\ ring' = <<>> /\ marked' = FALSE
  /\ policy' = [trading |-> BootTrading, developing |-> BootDeveloping]
  /\ flags' = policy'
  /\ observed' = {} /\ raised' = 0
  /\ stopped' = ~BootTrading /\ audited' = BootTrading
  /\ UNCHANGED now

Next ==
  \/ BeginTick \/ BeginSignal
  \/ RecordSignal \/ PollSensors \/ Execute \/ ExecuteRaises \/ RecordResult
  \/ NewsHazard
  \/ ChangeMode \/ FlipTrading \/ FlipDevelopment
  \/ Tick \/ Restart

Spec == Init /\ [][Next]_vars
-----------------------------------------------------------------------------
(* Properties.  A fill is the step of a batch that moves the position.     *)

Fills == batch' # None /\ position' # position

\* No order is filled while a HIGH or CRITICAL hazard this process has seen is
\* within its window, whether or not its row reached the ledger and whatever
\* was observed after it, until the ring overflows (SAFE-68, engine.py's gate).
FillsClearOfHazards ==
  [][Fills /\ raised <= Capacity
       => \A obs \in observed : Blocks(obs.severity) => ~IsActive(obs, now)]_vars

\* At one instant an observation only tightens the throttle, while nothing is
\* evicted (hazard_throttle.py:17 "A hazard can never *relax* an active throttle").
HazardNeverRelaxes ==
  [][raised' > raised /\ raised' <= Capacity /\ now' = now
       => AtLeastAsTight(Throttle', Throttle)]_vars

\* After a kill nothing is filled, whoever calls (kill_switch.py:5 "halts every
\* subsequent execute path").
KillHaltsFills == [][Fills => mode # "LOCKED"]_vars

\* Off means off: from the answer that trading is off (or a boot with it off)
\* until the operator asks for trading, nothing is filled, whatever else the
\* operator flips, whichever appends of the two routes raise and leave flag and
\* policy apart, and whatever is under way when he does.
OffHolds == [][Fills => ~stopped]_vars

\* development_mode.py:49 "nothing inside the runtime can flip those defaults
\* without operator audit": where trading is off by default, nothing is filled
\* before a row says that the operator allowed it.
FillsAreAudited == [][Fills => audited]_vars
=============================================================================
