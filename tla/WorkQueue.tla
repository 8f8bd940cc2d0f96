------------------------------ MODULE WorkQueue ------------------------------
(***************************************************************************)
(* What a subscription shared by several consumers promises: a message is  *)
(* with one consumer at a time, nothing is settled that nobody was ever    *)
(* handed, and what is settled stays settled and is not handed out again.  *)
(* Messages are numbered as they are sent.  Whether a message is handed    *)
(* out at all is not part of the promise.                                  *)
(***************************************************************************)
EXTENDS Naturals

CONSTANT Consumer

VARIABLES sent,    \* messages so far
          handed,  \* messages that somebody was handed
          with,    \* messages each consumer has not answered yet
          done     \* settled messages

queueVars == <<sent, handed, with, done>>

\* What was sent before the subscription began may be left out.
QueueInit == /\ sent \in Nat
             /\ handed \in {{}, 0 .. sent - 1}
             /\ with = [c \in Consumer |-> {}]
             /\ done = handed

Send == sent' = sent + 1 /\ UNCHANGED <<handed, with, done>>

Hand(c, some) == /\ some \subseteq 0 .. sent - 1
                 /\ \A d \in Consumer : some \cap with[d] = {}
                 /\ some \cap done = {}
                 /\ with' = [with EXCEPT ![c] = @ \cup some]
                 /\ handed' = handed \cup some
                 /\ UNCHANGED <<sent, done>>

Settle(c, some) == /\ some \subseteq handed
                   /\ done' = done \cup some
                   /\ with' = [with EXCEPT ![c] = @ \ some]
                   /\ UNCHANGED <<sent, handed>>

GiveBack(c, some) == /\ with' = [with EXCEPT ![c] = @ \ some]
                     /\ UNCHANGED <<sent, handed, done>>

QueueNext == \/ Send
             \/ \E c \in Consumer, some \in SUBSET (0 .. sent - 1) :
                  Hand(c, some) \/ Settle(c, some) \/ GiveBack(c, some)

QueueSpec == QueueInit /\ [][QueueNext]_queueVars
=============================================================================
