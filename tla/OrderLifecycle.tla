--------------------------- MODULE OrderLifecycle ---------------------------
(***************************************************************************)
(* One order: its state machine (execution_engine/lifecycle/               *)
(* order_state_machine.py), the fill handler that books the venue's fills  *)
(* and drives it (fill_handler.py), and whoever else has the machine and   *)
(* cancels, fails or closes the order.  The venue goes on executing until  *)
(* a cancel reaches it, and its reports come late, again and in any order. *)
(* Quantities are whole: the tolerances of 1e-12 and 1e-9 are below one.   *)
(***************************************************************************)
EXTENDS Naturals, FiniteSets, FiniteSetsExt

CONSTANTS Target,     \* target_qty
          FillTime,   \* time stamps of the venue's fills
          Excess      \* how much the venue may execute beyond the target

ASSUME LifecycleAssumption == Target \in Nat \ {0} /\ Excess \in Nat

VARIABLES orderState,  \* OrderRecord.state, "absent" before open
          registered,  \* the fill handler has a book for it
          filled,      \* filled_qty
          fills,       \* the fills that were booked
          seenFills,   \* _seen
          reports      \* how often the venue executed each fill

lifecycleVars == <<orderState, registered, filled, fills, seenFills, reports>>

\* What tells fills apart: ts_ns and qty; a price is one more such field.
Fill == [ts : FillTime, qty : 1 .. Target]
OrderState == {"NEW", "PENDING", "PARTIALLY_FILLED", "FILLED", "CANCELLED", "ERROR", "CLOSED"}

LifecycleTypeOK == /\ orderState \in OrderState \cup {"absent"}
                   /\ registered \in BOOLEAN
                   /\ filled \in Nat
                   /\ fills \subseteq Fill /\ seenFills \subseteq Fill
                   /\ reports \in [Fill -> 0 .. 2]

LifecycleInit == /\ orderState = "absent" /\ registered = FALSE
                 /\ filled = 0 /\ fills = {} /\ seenFills = {}
                 /\ reports = [f \in Fill |-> 0]

\* LEGAL_ORDER_TRANSITIONS.
LegalEdge(from, to) ==
  CASE from = "NEW" -> to \in {"PENDING", "ERROR"}
    [] from = "PENDING" -> to \in {"PARTIALLY_FILLED", "FILLED", "CANCELLED", "ERROR"}
    [] from = "PARTIALLY_FILLED" -> to \in {"PARTIALLY_FILLED", "FILLED", "CANCELLED", "ERROR"}
    [] from \in {"FILLED", "CANCELLED", "ERROR"} -> to = "CLOSED"
    [] OTHER -> FALSE

Open == /\ orderState = "absent"
        /\ orderState' = "NEW"
        /\ UNCHANGED <<registered, filled, fills, seenFills, reports>>

\* register: the machine first, it raises for an order that is not NEW.
RegisterOrder == /\ ~registered /\ LegalEdge(orderState, "PENDING")
                 /\ orderState' = "PENDING"
                 /\ registered' = TRUE
                 /\ UNCHANGED <<filled, fills, seenFills, reports>>

\* transition by somebody else; the fill states are the handler's.
Transition(new) == /\ new \in {"CANCELLED", "ERROR", "CLOSED"} /\ LegalEdge(orderState, new)
                   /\ orderState' = new
                   /\ UNCHANGED <<registered, filled, fills, seenFills, reports>>

\* The venue executes; it does not know of a cancel at once.
Execute(f) == /\ registered /\ reports[f] < 2
              /\ MapThenSumSet(LAMBDA g : g.qty * reports[g], Fill) + f.qty <= Target + Excess
              /\ reports' = [reports EXCEPT ![f] = @ + 1]
              /\ UNCHANGED <<orderState, registered, filled, fills, seenFills>>

Fits(f) == filled < Target /\ filled + f.qty <= Target

\* Mutant: a fill is remembered only when it is refused.
MutApply(f) ==
  /\ registered /\ reports[f] > 0
  /\ f \notin seenFills
  /\ IF Fits(f)
     THEN LET new == IF filled + f.qty = Target THEN "FILLED" ELSE "PARTIALLY_FILLED"
          IN /\ filled' = filled + f.qty
             /\ fills' = fills \cup {f}
             /\ orderState' = IF LegalEdge(orderState, new) THEN new ELSE orderState
             /\ UNCHANGED seenFills
     ELSE seenFills' = seenFills \cup {f} /\ UNCHANGED <<orderState, filled, fills>>
  /\ UNCHANGED <<registered, reports>>

\* apply of a fill that is new to it: remembered, then refused when it does not
\* fit, else booked, and the machine is driven last; it raises when the order
\* was cancelled or failed in between, and the fill stays in the book.
Apply(f) ==
  /\ registered /\ reports[f] > 0
  /\ f \notin seenFills
  /\ seenFills' = seenFills \cup {f}
  /\ IF Fits(f)
     THEN LET new == IF filled + f.qty = Target THEN "FILLED" ELSE "PARTIALLY_FILLED"
          IN /\ filled' = filled + f.qty
             /\ fills' = fills \cup {f}
             /\ orderState' = IF LegalEdge(orderState, new) THEN new ELSE orderState
     ELSE UNCHANGED <<orderState, filled, fills>>
  /\ UNCHANGED <<registered, reports>>

LifecycleNext == \/ Open \/ RegisterOrder
                 \/ \E new \in OrderState : Transition(new)
                 \/ \E f \in Fill : Execute(f) \/ Apply(f)

LifecycleSpec == LifecycleInit /\ [][LifecycleNext]_lifecycleVars

-----------------------------------------------------------------------------
(* Properties.                                                             *)

\* fill_handler.py, "idempotent on duplicate (order_id, ts_ns, qty, price)
\* tuples" and "Once filled_qty >= target_qty, further fills raise": through
\* duplicates, reordering, a venue that executes too much and cancels that
\* race with fills, the book is the sum of different fills, at most the
\* target; a fill that was refused would be refused again, so nothing is lost
\* by remembering it; and the state of an order nobody cancelled, failed or
\* closed is the one its book has.
FillsCountOnce ==
  /\ filled = MapThenSumSet(LAMBDA f : f.qty, fills) /\ filled <= Target
  /\ \A f \in fills : reports[f] > 0
  /\ \A f \in seenFills \ fills : ~Fits(f)
  /\ orderState \notin {"CANCELLED", "ERROR", "CLOSED"} =>
       orderState = CASE ~registered -> IF orderState = "NEW" THEN "NEW" ELSE "absent"
                      [] registered /\ filled = 0 -> "PENDING"
                      [] filled \in 1 .. Target - 1 -> "PARTIALLY_FILLED"
                      [] filled = Target -> "FILLED"
=============================================================================
