---------------------------- MODULE AppendOnlyLog ----------------------------
(***************************************************************************)
(* What a ledger promises: entries are only added at the end, in the order *)
(* in which they became durable, and no request is entered twice.          *)
(***************************************************************************)
EXTENDS Sequences

CONSTANT Request

VARIABLE log

Init == log = <<>>

Entered == {log[i] : i \in DOMAIN log}

Next == \E r \in Request \ Entered : log' = Append(log, r)

Spec == Init /\ [][Next]_log
=============================================================================
