----------------------------- MODULE MarketBook -----------------------------
(***************************************************************************)
(* The level-two order book of execution_engine/market_data/orderbook.py,  *)
(* fed by a venue whose snapshots and deltas arrive late, again, out of    *)
(* order or not at all, and whose deltas may be cut at other places after  *)
(* a reconnect.  A level is a side and a price; the two sides are treated  *)
(* alike.  Projections are read-only and left out, but for the depth.      *)
(***************************************************************************)
EXTENDS Integers, Sequences, FiniteSets, FiniteSetsExt

CONSTANTS Level,       \* price levels
          LevelQty,    \* quantities; 0 takes a level away
          MaxUpdates,  \* bound on the venue's updates
          Depth        \* levels in a snapshot of the venue

ASSUME MarketAssumption == /\ Level \subseteq Nat /\ IsFiniteSet(Level)
                           /\ LevelQty \subseteq Nat /\ 0 \in LevelQty
                           /\ MaxUpdates \in Nat /\ Depth \in Nat \ {0}

VARIABLES updates,     \* what happened to the venue's book; update_id u is updates[u]
          levels,      \* the quantity of each level here, 0 for none
          lastUpdate,  \* last_update_id, -1 before a snapshot
          whole        \* the snapshot it was seeded from had every level

marketVars == <<updates, levels, lastUpdate, whole>>

Update == [level : Level, qty : LevelQty]

MarketTypeOK == /\ updates \in Seq(Update)
                /\ levels \in [Level -> LevelQty]
                /\ lastUpdate \in -1 .. Len(updates)
                /\ whole \in BOOLEAN

MarketInit == /\ updates = <<>>
              /\ levels = [l \in Level |-> 0]
              /\ lastUpdate = -1
              /\ whole = TRUE

\* The updates of a level among those from a first to a final one.
Touching(l, first, final) == {u \in first .. final : updates[u].level = l}

\* The venue's own book behind update u.
VenueQty(l, u) == LET past == Touching(l, 1, u)
                  IN IF past = {} THEN 0 ELSE updates[Max(past)].qty

Trade == /\ Len(updates) < MaxUpdates
         /\ \E update \in Update : updates' = Append(updates, update)
         /\ UNCHANGED <<levels, lastUpdate, whole>>

\* The levels of the venue that a snapshot behind u shows: the first ones.
Shown(u) == LET held == {l \in Level : VenueQty(l, u) > 0}
            IN {l \in held : Cardinality({k \in held : k < l}) < Depth}

\* Mutant: what was there before is not cleared.
MutApplySnapshot(u) ==
  /\ levels' = [l \in Level |-> IF l \in Shown(u) THEN VenueQty(l, u) ELSE levels[l]]
  /\ lastUpdate' = u
  /\ whole' = (\A l \in Level \ Shown(u) : VenueQty(l, u) = 0)
  /\ UNCHANGED updates

\* apply_snapshot, of any age: the book is cleared and loaded.
ApplySnapshot(u) ==
  /\ levels' = [l \in Level |-> IF l \in Shown(u) THEN VenueQty(l, u) ELSE 0]
  /\ lastUpdate' = u
  /\ whole' = (\A l \in Level \ Shown(u) : VenueQty(l, u) = 0)
  /\ UNCHANGED updates

\* Mutant: only a hole is a gap, an old delta is not.
MutContiguous(first, final) == first <= lastUpdate + 1

Contiguous(first, final) == first <= lastUpdate + 1 /\ lastUpdate + 1 <= final

\* apply_delta of the updates first .. final, each level with the last quantity
\* it has there.  Before a seed it raises, on a gap it says so; neither changes
\* anything.
ApplyDelta(first, final) ==
  /\ lastUpdate >= 0 /\ Contiguous(first, final)
  /\ levels' = [l \in Level |-> LET some == Touching(l, first, final)
                                IN IF some = {} THEN levels[l] ELSE updates[Max(some)].qty]
  /\ lastUpdate' = final
  /\ UNCHANGED <<updates, whole>>

MarketNext == \/ Trade
              \/ \E u \in 0 .. Len(updates) : ApplySnapshot(u)
              \/ \E first, final \in DOMAIN updates : first <= final /\ ApplyDelta(first, final)

MarketSpec == MarketInit /\ [][MarketNext]_marketVars

-----------------------------------------------------------------------------
(* Properties.                                                             *)

\* orderbook.py, "the caller is expected to re-seed": whatever is lost, late,
\* repeated or cut anew, the book is the venue's own behind last_update_id; one
\* seeded from a snapshot that left levels out has the rest of them wrong only
\* by having none there.
BookIsTheVenues ==
  lastUpdate >= 0 =>
    \A l \in Level : \/ levels[l] = VenueQty(l, lastUpdate)
                     \/ ~whole /\ levels[l] = 0
=============================================================================
