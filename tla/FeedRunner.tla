----------------------------- MODULE FeedRunner -----------------------------
(***************************************************************************)
(* The runners of the four public feeds (ui/feeds/*runner.py): request     *)
(* threads start and stop a daemon thread that runs a pump in an asyncio   *)
(* loop of its own.  start is one step, it holds the runner's lock; stop   *)
(* takes the lock twice and signals and joins in between; the worker       *)
(* publishes and clears its loop and pump under the lock and is otherwise  *)
(* on its own.  A stream pump (Binance, Pump.fun) keeps a connection open  *)
(* and delivers frames, a polling pump (CoinDesk, Raydium) fetches and     *)
(* delivers what it got.                                                   *)
(***************************************************************************)
EXTENDS FiniteSets

CONSTANTS Worker,    \* thread objects
          Stopper,   \* request threads that call stop
          Kind,      \* pumps this runner may be built for
          NoWorker   \* Python's None

ASSUME FeedAssumption == /\ NoWorker \notin Worker
                         /\ Kind \subseteq {"stream", "poll"}

VARIABLES kind,      \* what the runner's pump is
          thread,    \* _thread
          pump,      \* _pump and _loop, set and cleared together: whose they are
          at,        \* where each worker is; "dead" is not is_alive()
          signal,    \* pump.stop of each: "none", "queued" in its loop, "set"
          stopping   \* the calls of stop in progress

feedVars == <<kind, thread, pump, at, signal, stopping>>

\* What stop read under its first lock, and whether it has signalled yet.
StopCall == [thread : Worker, pump : Worker \cup {NoWorker}, sent : BOOLEAN]

Suspended == {"open", "reading", "closing", "waiting"}   \* awaits of run
Running == Suspended \cup {"published"}

FeedTypeOK == /\ kind \in Kind
              /\ thread \in Worker \cup {NoWorker}
              /\ pump \in Worker \cup {NoWorker}
              /\ at \in [Worker -> Running \cup {"launched", "ended", "dead"}]
              /\ signal \in [Worker -> {"none", "queued", "set"}]
              /\ stopping \in [Stopper -> StopCall \cup {NoWorker}]

FeedInit == /\ kind \in Kind
            /\ thread = NoWorker
            /\ pump = NoWorker
            /\ at = [w \in Worker |-> "dead"]
            /\ signal = [w \in Worker |-> "none"]
            /\ stopping = [s \in Stopper |-> NoWorker]

Alive(w) == at[w] # "dead"

-----------------------------------------------------------------------------
(* The request threads.                                                    *)

\* Mutant: only a published pump counts as running.
MutHasWorker == pump # NoWorker

HasWorker == thread # NoWorker /\ Alive(thread)

\* A thread object nobody refers to any more stands for a new one.
Fresh(w) == /\ ~Alive(w)
            /\ thread # w
            /\ \A s \in Stopper : stopping[s] # NoWorker => stopping[s].thread # w

\* start: with a worker alive a no-op, else a new thread.  The wait for ready
\* that follows changes nothing.
StartFeed(w) == /\ ~HasWorker
                /\ Fresh(w)
                /\ thread' = w
                /\ at' = [at EXCEPT ![w] = "launched"]
                /\ signal' = [signal EXCEPT ![w] = "none"]
                /\ UNCHANGED <<kind, pump, stopping>>

\* stop up to the end of its first lock, past the early return.
StopRead(s) == /\ stopping[s] = NoWorker
               /\ HasWorker
               /\ stopping' = [stopping EXCEPT ![s] =
                                 [thread |-> thread, pump |-> pump, sent |-> FALSE]]
               /\ UNCHANGED <<kind, thread, pump, at, signal>>

\* call_soon_threadsafe; on a loop that is closed or no longer runs it does
\* nothing, the RuntimeError is swallowed.
StopSignal(s) ==
  /\ stopping[s] # NoWorker /\ ~stopping[s].sent
  /\ LET w == stopping[s].pump
     IN signal' = IF w # NoWorker /\ at[w] \in Running /\ signal[w] = "none"
                  THEN [signal EXCEPT ![w] = "queued"] ELSE signal
  /\ stopping' = [stopping EXCEPT ![s].sent = TRUE]
  /\ UNCHANGED <<kind, thread, pump, at>>

\* Mutant: a join that timed out clears the thread too.
MutStopReturn(s) == /\ stopping[s] # NoWorker /\ stopping[s].sent
                    /\ thread' = IF thread = stopping[s].thread THEN NoWorker ELSE thread
                    /\ stopping' = [stopping EXCEPT ![s] = NoWorker]
                    /\ UNCHANGED <<kind, pump, at, signal>>

\* The end of the join, because the worker is dead or because five seconds are
\* over, and the second lock.
StopReturn(s) ==
  /\ stopping[s] # NoWorker /\ stopping[s].sent
  /\ thread' = IF thread = stopping[s].thread /\ ~Alive(thread) THEN NoWorker ELSE thread
  /\ stopping' = [stopping EXCEPT ![s] = NoWorker]
  /\ UNCHANGED <<kind, pump, at, signal>>

-----------------------------------------------------------------------------
(* The worker.                                                             *)

Moves(w, from, to) == /\ at[w] \in from
                      /\ at' = [at EXCEPT ![w] = to]
                      /\ UNCHANGED <<kind, thread, pump, signal, stopping>>

\* The constructor raises: bad symbols, a bad interval.
ConstructFails(w) == Moves(w, {"launched"}, "ended")

Publish(w) == /\ at[w] = "launched"
              /\ at' = [at EXCEPT ![w] = "published"]
              /\ pump' = w
              /\ UNCHANGED <<kind, thread, signal, stopping>>

\* pump.stop runs as a callback, when the coroutine of run is suspended.
RunCallback(w) == /\ at[w] \in Running /\ signal[w] = "queued"
                  /\ signal' = [signal EXCEPT ![w] = "set"]
                  /\ UNCHANGED <<kind, thread, pump, at, stopping>>

Stopped(w) == signal[w] = "set"

\* The head of the loop, from the start of run or out of the wait.
LoopHead(w) == Moves(w, {"published", "waiting"}, IF Stopped(w) THEN "ended" ELSE "open")

\* A polling pump whose HTTP client cannot be made leaves run.
LoopCrash(w) == kind = "poll" /\ ~Stopped(w) /\ Moves(w, {"published", "waiting"}, "ended")

Connect(w) == kind = "stream" /\ Moves(w, {"open"}, "reading")

ConnectFails(w) == kind = "stream" /\ Moves(w, {"open"}, "closing")

\* A frame: handed to the sink unless the pump is stopped, which ends the
\* connection.
Frame(w) == Moves(w, {"reading"}, IF Stopped(w) THEN "closing" ELSE "reading")

Disconnect(w) == Moves(w, {"reading"}, "closing")

\* The answer to a poll, or its failure: everything in it is delivered, stopped
\* or not.
Polled(w) == kind = "poll" /\ Moves(w, {"open"}, "closing")

\* Mutant: it reconnects without a look at the flag.
MutClosed(w) == Moves(w, {"closing"}, "open")

Closed(w) == Moves(w, {"closing"}, IF Stopped(w) THEN "ended" ELSE "waiting")

\* The finally clause: the loop is closed, then under the lock both are cleared.
WorkerEnds(w) == /\ at[w] = "ended"
                 /\ at' = [at EXCEPT ![w] = "dead"]
                 /\ pump' = NoWorker
                 /\ UNCHANGED <<kind, thread, signal, stopping>>

Work(w) == \/ ConstructFails(w) \/ Publish(w) \/ LoopHead(w) \/ LoopCrash(w)
           \/ Connect(w) \/ ConnectFails(w) \/ Polled(w)
           \/ RunCallback(w) \/ Closed(w) \/ WorkerEnds(w)

FeedNext == \/ \E w \in Worker : StartFeed(w)
            \/ \E s \in Stopper : StopRead(s) \/ StopSignal(s) \/ StopReturn(s)
            \/ \E w \in Worker : Work(w) \/ Frame(w) \/ Disconnect(w)

FeedSpec == FeedInit /\ [][FeedNext]_feedVars

\* A daemon thread is scheduled, connecting, polling and closing have timeouts
\* and the back-off is bounded.  Nothing makes an open stream deliver: a pump
\* awaits the next frame without a timeout, and what keeps the connection
\* alive (pings) is not a frame.
FeedFairness == \A w \in Worker : WF_feedVars(Work(w)) /\ WF_feedVars(RunCallback(w))

-----------------------------------------------------------------------------
(* Properties.                                                             *)

\* What start guards against (ui/feeds/runner.py, its comment on a second
\* pump that feeds the sink twice): a thread that lives is the one stop would
\* join, and a pump that runs is the one stop would signal, whatever starts
\* and stops race with it and whether or not a join timed out.
PumpsAreStoppable ==
  \A w \in Worker : /\ Alive(w) => thread = w
                    /\ at[w] \in Running => pump = w

\* ui/feeds/binance_public_ws.py, stop, "signal the run loop to exit on its
\* next iteration": a pump that was told to stop leaves its loop and its thread
\* dies, wherever the signal met it (before it ran, connecting, delivering,
\* closing, backing off), unless it sits for ever in an open stream that has
\* gone quiet.
SignalledPumpsEnd ==
  \A w \in Worker :
    signal[w] # "none" /\ Alive(w) ~> (~Alive(w) \/ [](at[w] = "reading"))
=============================================================================
