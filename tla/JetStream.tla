------------------------------ MODULE JetStream ------------------------------
(***************************************************************************)
(* One stream of the in-memory JetStream and one durable consumer of it    *)
(* (system_engine/streaming/nats_bus.py).  Anybody who knows the consumer's*)
(* name may fetch and answer.  A message is kept with the number of its    *)
(* publish, which the code does not know, next to the seq it was given;    *)
(* what the consumer's filter does not match is not wanted.                *)
(***************************************************************************)
EXTENDS Integers, FiniteSets, Sequences

CONSTANTS Retention,     \* what a stream may be configured with
          MaxMessages,   \* max_messages, under "count"
          MaxPublishes   \* bound on the publishes

ASSUME JetAssumption == /\ Retention \subseteq {"none", "count", "age"}
                        /\ MaxMessages \in Nat \ {0} /\ MaxPublishes \in Nat

VARIABLES keeps,       \* the stream's retention
          stream,      \* its messages, in order
          published,   \* publishes so far
          delivered,   \* delivered_seq
          ackFloor,    \* ack_floor_seq
          unanswered,  \* pending
          answered     \* seqs that were acknowledged or terminated

jetVars == <<keeps, stream, published, delivered, ackFloor, unanswered, answered>>

JetTypeOK == /\ keeps \in Retention
             /\ stream \in Seq([seq : Nat, publish : Nat, wanted : BOOLEAN])
             /\ published \in Nat /\ delivered \in Nat /\ ackFloor \in Nat
             /\ unanswered \subseteq Nat /\ answered \subseteq Nat

JetInit == /\ keeps \in Retention
           /\ stream = <<>> /\ published = 0
           /\ delivered = 0 /\ ackFloor = 0
           /\ unanswered = {} /\ answered = {}

\* _apply_retention: by count it drops what is too much, by age a prefix.
Retained(messages) ==
  CASE keeps = "none" -> {messages}
    [] keeps = "count" -> {SubSeq(messages, IF Len(messages) > MaxMessages THEN 2 ELSE 1, Len(messages))}
    [] keeps = "age" -> {SubSeq(messages, n, Len(messages)) : n \in 1 .. Len(messages) + 1}

\* publish: the seq is one more than the messages the stream still has.
PublishRecord == /\ published < MaxPublishes
                 /\ published' = published + 1
                 /\ \E wanted \in BOOLEAN :
                      stream' \in Retained(Append(stream, [seq |-> Len(stream) + 1,
                                                           publish |-> published', wanted |-> wanted]))
                 /\ UNCHANGED <<keeps, delivered, ackFloor, unanswered, answered>>

\* The places of the messages a walk of fetch takes: each raises delivered_seq.
Ahead == {i \in DOMAIN stream : /\ stream[i].wanted /\ stream[i].seq > delivered
                                /\ \A j \in 1 .. i - 1 : stream[j].wanted => stream[j].seq < stream[i].seq}

\* fetch of at most n.
Fetch(n) == LET some == {i \in Ahead : Cardinality({j \in Ahead : j < i}) < n}
                seqs == {stream[i].seq : i \in some}
            IN /\ some # {}
               /\ unanswered' = unanswered \cup seqs
               /\ delivered' \in seqs /\ \A s \in seqs : s <= delivered'
               /\ UNCHANGED <<keeps, stream, published, ackFloor, answered>>

\* The floor moved over what is not pending.
Raised(from, still, upTo) == CHOOSE f \in from .. upTo + 1 :
                               /\ (from + 1) .. f \cap still = {}
                               /\ f <= upTo \/ f = from
                               /\ f + 1 \in still \/ f >= upTo

\* ack and term; each wants a pending seq.
Answer(s) == /\ s \in unanswered
             /\ unanswered' = unanswered \ {s}
             /\ ackFloor' = Raised(ackFloor, unanswered', delivered)
             /\ answered' = answered \cup {s}
             /\ UNCHANGED <<keeps, stream, published, delivered>>

\* Mutant: it rewinds to the message, not before it.
MutNak(s) == /\ s \in unanswered
             /\ delivered' = IF s < delivered THEN s ELSE delivered
             /\ unanswered' = unanswered \ {s}
             /\ UNCHANGED <<keeps, stream, published, ackFloor, answered>>

\* nak: the next fetch begins at this seq again, answered ones behind it too.
Nak(s) == /\ s \in unanswered
          /\ delivered' = IF s - 1 < delivered THEN s - 1 ELSE delivered
          /\ UNCHANGED <<keeps, stream, published, ackFloor, unanswered, answered>>

JetNext == \/ PublishRecord
           \/ \E n \in 1 .. MaxPublishes : Fetch(n)
           \/ \E s \in unanswered : Answer(s) \/ Nak(s)

JetSpec == JetInit /\ [][JetNext]_jetVars

-----------------------------------------------------------------------------
(* Properties.                                                             *)

\* nats_bus.py, "Records remain in pending until ack / term": through fetches,
\* answers and rewinds in any order, a wanted message that was passed by is
\* answered or still pending, and the floor is only over answered ones.  It
\* needs a stream that drops nothing, whose seqs are the publishes.
NothingPassedBy ==
  keeps = "none" =>
    \A i \in DOMAIN stream :
      LET s == stream[i].seq
      IN /\ s = stream[i].publish
         /\ stream[i].wanted /\ s <= delivered => s \in answered \cup unanswered
         /\ stream[i].wanted /\ s <= ackFloor => s \in answered \ unanswered
=============================================================================
