---------------------------- MODULE ChatApprovals ----------------------------
(***************************************************************************)
(* Proposals of the chat and the operator's verdict on them: the queue     *)
(* (approval_queue.py), the edge that decides, logs and emits              *)
(* (approval_edge.py), the chat turn that queues and logs a proposal       *)
(* (ui/cognitive_chat_runtime.py) and the projection that rebuilds the     *)
(* queue from the ledger (approval_projection.py).  Neither the turn nor   *)
(* the two routes hold STATE.lock: each step below is one hold of the      *)
(* queue's own lock, one append or one emission, and requests interleave   *)
(* between them.                                                           *)
(***************************************************************************)
EXTENDS Sequences, FiniteSets, FiniteSetsExt

CONSTANTS Proposal,   \* request ids; uuid4, so none is drawn twice
          Request,    \* threads that serve a turn or a verdict
          AutoWired,  \* operator_attention and approval_edge handed to the runtime
          NoRequest   \* an idle thread

Serving == [id : Proposal, at : {"queued", "auto", "decided", "logged"}]

ASSUME ChatAssumption == NoRequest \notin Serving /\ AutoWired \in BOOLEAN

VARIABLES queue,      \* status of each proposal in memory
          approvals,  \* the ledger's rows of the three kinds
          serving,    \* what each thread is doing
          emitted,    \* how often each proposal's signal was emitted
          unlogged    \* proposals with an append that raised since the boot

chatVars == <<queue, approvals, serving, emitted, unlogged>>

Verdict == {"APPROVED", "REJECTED"}
Status == {"PENDING"} \cup Verdict
Row == [kind : Status, id : Proposal]

ChatTypeOK == /\ queue \in [Proposal -> Status \cup {"absent"}]
              /\ approvals \in Seq(Row)
              /\ serving \in [Request -> Serving \cup {NoRequest}]
              /\ emitted \in [Proposal -> Nat]
              /\ unlogged \subseteq Proposal

ChatInit == /\ queue = [p \in Proposal |-> "absent"]
            /\ approvals = <<>>
            /\ serving = [r \in Request |-> NoRequest]
            /\ emitted = [p \in Proposal |-> 0]
            /\ unlogged = {}

-----------------------------------------------------------------------------
(* The projection.                                                         *)

PendingRows(rows, p) == {i \in DOMAIN rows : rows[i] = [kind |-> "PENDING", id |-> p]}
DecisionRows(rows, p) == {i \in DOMAIN rows : rows[i].id = p /\ rows[i].kind \in Verdict}

\* What a replay makes of a proposal: nothing without a PENDING row, then the
\* first decision behind it.
Projected(rows, p) ==
  LET pending == PendingRows(rows, p)
      later == {j \in DecisionRows(rows, p) : pending # {} /\ j > Min(pending)}
  IN CASE pending = {} -> "absent"
       [] pending # {} /\ later = {} -> "PENDING"
       [] OTHER -> rows[Min(later)].kind

-----------------------------------------------------------------------------
(* The steps.                                                              *)

Serve(r, p, at) == serving' = [serving EXCEPT ![r] = [id |-> p, at |-> at]]
Done(r) == serving' = [serving EXCEPT ![r] = NoRequest]
At(r, at) == serving[r] # NoRequest /\ serving[r].at = at
Log(kind, p) == approvals' = Append(approvals, [kind |-> kind, id |-> p])

\* turn, its reply holds a proposal: the queue has it before the ledger does.
Submit(r, p) == /\ serving[r] = NoRequest
                /\ queue[p] = "absent" /\ \A i \in DOMAIN approvals : approvals[i].id # p
                /\ \A s \in Request : serving[s] # NoRequest => serving[s].id # p
                /\ p \notin unlogged
                /\ queue' = [queue EXCEPT ![p] = "PENDING"]
                /\ Serve(r, p, "queued")
                /\ UNCHANGED <<approvals, emitted, unlogged>>

\* The PENDING row.  per_trade_required is asked next; in AUTO without a hazard
\* the turn goes on to approve by itself.
LogPending(r) == /\ At(r, "queued")
                 /\ Log("PENDING", serving[r].id)
                 /\ \/ Done(r)
                    \/ AutoWired /\ Serve(r, serving[r].id, "auto")
                 /\ UNCHANGED <<queue, emitted, unlogged>>

\* A request of the operator, or the turn that goes on by itself.
MayDecide(r, p, verdict) ==
  \/ serving[r] = NoRequest
  \/ At(r, "auto") /\ serving[r].id = p /\ verdict = "APPROVED"

\* Mutant: decide does not look at the status.
MutDecide(r, p, verdict) ==
  /\ MayDecide(r, p, verdict)
  /\ queue[p] # "absent"
  /\ queue' = [queue EXCEPT ![p] = verdict]
  /\ Serve(r, p, "decided")
  /\ UNCHANGED <<approvals, emitted, unlogged>>

\* approve and reject up to queue.decide, for an operator or for the turn.  The
\* get before it looks at the same status, which only decide changes.
Decide(r, p, verdict) ==
  /\ MayDecide(r, p, verdict)
  /\ queue[p] = "PENDING"
  /\ queue' = [queue EXCEPT ![p] = verdict]
  /\ Serve(r, p, "decided")
  /\ UNCHANGED <<approvals, emitted, unlogged>>

\* Somebody decided before the turn did: it answers with an error.
AutoTooLate(r) == /\ At(r, "auto") /\ queue[serving[r].id] # "PENDING"
                  /\ Done(r)
                  /\ UNCHANGED <<queue, approvals, emitted, unlogged>>

\* Mutant: the signal goes out although its row could not be written.
MutAppendRaises(r) == /\ At(r, "decided")
                      /\ unlogged' = unlogged \cup {serving[r].id}
                      /\ Serve(r, serving[r].id, "logged")
                      /\ UNCHANGED <<queue, approvals, emitted>>

\* The decision row; its kind is the status decide has just set.
LogDecision(r) == /\ At(r, "decided")
                  /\ LET p == serving[r].id
                     IN /\ Log(queue[p], p)
                        /\ IF queue[p] = "APPROVED" THEN Serve(r, p, "logged") ELSE Done(r)
                  /\ UNCHANGED <<queue, emitted, unlogged>>

\* An append raises: the request ends with an error, the queue stays as it is.
AppendRaises(r) == /\ At(r, "queued") \/ At(r, "decided")
                   /\ unlogged' = unlogged \cup {serving[r].id}
                   /\ Done(r)
                   /\ UNCHANGED <<queue, approvals, emitted>>

Emit(r) == /\ At(r, "logged")
           /\ emitted' = [emitted EXCEPT ![serving[r].id] = @ + 1]
           /\ Done(r)
           /\ UNCHANGED <<queue, approvals, unlogged>>

\* The emitter raises before the signal reaches anybody: an approved row
\* without a signal.
EmitRaises(r) == /\ At(r, "logged")
                 /\ Done(r)
                 /\ UNCHANGED <<queue, approvals, emitted, unlogged>>

\* Mutant: the queue is not rebuilt.
MutChatRestart == /\ queue' = [p \in Proposal |-> "absent"]
                  /\ serving' = [r \in Request |-> NoRequest]
                  /\ unlogged' = {}
                  /\ UNCHANGED <<approvals, emitted>>

\* The process dies at any point; build_runtime rebuilds the queue.
ChatRestart == /\ queue' = [p \in Proposal |-> Projected(approvals, p)]
               /\ serving' = [r \in Request |-> NoRequest]
               /\ unlogged' = {}
               /\ UNCHANGED <<approvals, emitted>>

ChatNext ==
  \/ \E r \in Request, p \in Proposal :
       Submit(r, p) \/ \E verdict \in Verdict : Decide(r, p, verdict)
  \/ \E r \in Request : \/ LogPending(r) \/ AutoTooLate(r) \/ LogDecision(r)
                        \/ AppendRaises(r) \/ Emit(r) \/ EmitRaises(r)
  \/ ChatRestart

ChatSpec == ChatInit /\ [][ChatNext]_chatVars

-----------------------------------------------------------------------------
(* Properties.                                                             *)

\* An operator can decide while the turn has not written its row yet.
Overtaken(p) == \E i \in DecisionRows(approvals, p) : \E j \in PendingRows(approvals, p) : i < j

\* approval_edge.py, "Ledger first, bus second", and approval_queue.py, "the
\* transition is one-way": a proposal has one decision row at most and its
\* signal goes out once at most, and only behind an APPROVED row, through
\* racing operators, appends and emitters that raise, crashes and replays.  It
\* needs that the decision did not overtake the PENDING row.
DecisionsAreFinal ==
  \A p \in Proposal : ~Overtaken(p) =>
    /\ Cardinality(DecisionRows(approvals, p)) <= 1
    /\ emitted[p] <= Cardinality({i \in DecisionRows(approvals, p) : approvals[i].kind = "APPROVED"})

\* approval_projection.py:180 calls a second decision row "a chain anomaly (the
\* approval edge refuses double decides at write time)": the same without the
\* exception.
DecidedOnce == \A p \in Proposal : Cardinality(DecisionRows(approvals, p)) <= 1

\* cognitive_chat_runtime.py, "the in-memory queue is a projection over those
\* rows": with nobody at work on it, a proposal is in the queue what a replay
\* would make of it, unless an append of it raised or it was overtaken.
QueueIsProjection ==
  \A p \in Proposal :
    \/ queue[p] = Projected(approvals, p)
    \/ p \in unlogged \/ Overtaken(p)
    \/ \E r \in Request : serving[r] # NoRequest /\ serving[r].id = p /\ ~At(r, "logged")
=============================================================================
