----------------------------- MODULE MCOrderPath -----------------------------
(***************************************************************************)
(* Small instances of OrderPath for TLC.  On a clock of two instants the   *)
(* windows (1, 2, 5 and 10 minutes in _DEFAULT_RULES) are one tick: a      *)
(* hazard stamped 0 is over at 1.                                          *)
(***************************************************************************)
EXTENDS OrderPath

MCWindow == [s \in Severity |-> 1]
=============================================================================
