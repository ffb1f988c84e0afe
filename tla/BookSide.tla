------------------------------ MODULE BookSide ------------------------------
(***************************************************************************)
(* One side of an instrument's book in orderbook.rs: its price levels, in    *)
(* the tick grid (here a function from the prices whose slot is filled) or    *)
(* in the overflow map, and the cached best price and quantity.              *)
(***************************************************************************)
EXTENDS Integers, Sequences, FiniteSets

CONSTANTS
  Prices,
  Tick, Span,     \* grid_tick and grid_span: 1 and 16384 unless new_with_grid is used
  MaxOrders       \* bound on the slab

ASSUME SideAssumption ==
  /\ Tick \in Nat \ {0} /\ Span \in Nat \ {0} /\ MaxOrders \in Nat
  /\ Prices \subseteq Int

Sides == {"Bid", "Ask"}
Nil == 0                \* no handle; the first handle is 1 (to_nz)
EmptyMap == [x \in {} |-> x]
Without(f, x) == [y \in DOMAIN f \ {x} |-> f[y]]
With(f, x, v) == [y \in DOMAIN f \cup {x} |-> IF y = x THEN v ELSE f[y]]
OrDefault(f, x, v) == IF x \in DOMAIN f THEN f ELSE With(f, x, v)

EmptyLevel == [head |-> Nil, tail |-> Nil, count |-> 0, total_qty |-> 0]
EmptySide == [initialized |-> FALSE, start_price |-> 0, grid |-> EmptyMap, overflow |-> EmptyMap,
              best |-> <<>>, best_qty |-> 0]

----------------------------------------------------------------------------
(***************************************************************************)
(* One side's levels.                                                      *)
(***************************************************************************)
InitAround(p) == p - (p % Tick) - (Span \div 2) * Tick

\* price_to_idx(p).is_some()
InWindow(s, p) ==
  /\ s.initialized
  /\ p >= s.start_price /\ (p - s.start_price) % Tick = 0 /\ (p - s.start_price) \div Tick < Span

NonEmpty(levels) == {p \in DOMAIN levels : levels[p].count # 0}

\* The grid's levels go to overflow; where overflow has the price already, the grid's
\* level is dropped (entry(p).or_insert).
Recenter(s, p) ==
  [s EXCEPT !.overflow = [x \in DOMAIN @ \cup NonEmpty(s.grid) |->
                            IF x \in DOMAIN @ THEN @[x] ELSE s.grid[x]],
            !.grid = EmptyMap,
            !.initialized = TRUE,
            !.start_price = InitAround(p)]

InGrid(s, p) == [s EXCEPT !.grid = OrDefault(@, p, EmptyLevel)]
InOverflow(s, p) == [s EXCEPT !.overflow = OrDefault(@, p, EmptyLevel)]

EnsureLevel(s, p) ==
  LET r == Recenter(s, p)
  IN  CASE InWindow(s, p)                       -> InGrid(s, p)
        [] ~InWindow(s, p) /\ p % Tick # 0      -> InOverflow(s, p)
        [] ~InWindow(s, p) /\ p % Tick = 0      -> IF InWindow(r, p) THEN InGrid(r, p)
                                                                   ELSE InOverflow(r, p)

\* get_level_mut: the grid first.
HasLevel(s, p) == p \in DOMAIN s.grid \cup DOMAIN s.overflow
LevelAt(s, p) == IF p \in DOMAIN s.grid THEN s.grid[p] ELSE s.overflow[p]
SetLevel(s, p, l) ==
  IF p \in DOMAIN s.grid THEN [s EXCEPT !.grid[p] = l] ELSE [s EXCEPT !.overflow[p] = l]

\* Mutant: only the grid's empty levels are removed.
RemoveIfEmptyInGrid(s, p) ==
  IF p \in DOMAIN s.grid \ NonEmpty(s.grid) THEN [s EXCEPT !.grid = Without(@, p)] ELSE s

RemoveIfEmpty(s, p) ==
  CASE p \in NonEmpty(s.grid)                                -> s
    [] p \in DOMAIN s.grid \ NonEmpty(s.grid)                -> [s EXCEPT !.grid = Without(@, p)]
    [] p \notin DOMAIN s.grid /\ p \in DOMAIN s.overflow \ NonEmpty(s.overflow)
                                                            -> [s EXCEPT !.overflow = Without(@, p)]
    [] OTHER                                                -> s

Better(side, p, q) == IF side = "Bid" THEN p > q ELSE p < q
BestOf(side, ps) == CHOOSE p \in ps : \A q \in ps : ~Better(side, q, p)

\* Mutant: levels that a recentering moved to overflow are not looked at.
RecomputeBestInGrid(s, side) ==
  LET ps == NonEmpty(s.grid)
      p == BestOf(side, ps)
  IN  IF ps = {} THEN [s EXCEPT !.best = <<>>, !.best_qty = 0]
                 ELSE [s EXCEPT !.best = <<p>>, !.best_qty = s.grid[p].total_qty]

\* recompute_best_after_removal: the better of the grid's and overflow's candidates.
RecomputeBest(s, side) ==
  LET ps == NonEmpty(s.grid) \cup DOMAIN s.overflow
      p == BestOf(side, ps)
      l == IF p \in NonEmpty(s.grid) THEN s.grid[p] ELSE s.overflow[p]
  IN  IF ps = {} THEN [s EXCEPT !.best = <<>>, !.best_qty = 0]
                 ELSE [s EXCEPT !.best = <<p>>, !.best_qty = l.total_qty]

----------------------------------------------------------------------------
(***************************************************************************)
(* What add, set_qty and cancel do to the side of their order.             *)
(***************************************************************************)
\* A level whose tail order h joins, one whose total changes, and one that node n leaves.
Joined(l, h, q) == [head |-> IF l.tail = Nil THEN h ELSE l.head, tail |-> h,
                    count |-> l.count + 1, total_qty |-> l.total_qty + q]
Resized(l, d) == [l EXCEPT !.total_qty = @ + d]
Left(l, n) == [head |-> IF n.prev = Nil THEN n.next ELSE l.head,
               tail |-> IF n.next = Nil THEN n.prev ELSE l.tail,
               count |-> IF l.count = 0 THEN 0 ELSE l.count - 1,
               total_qty |-> l.total_qty - n.qty]

AddInSide(s, h, p, q, side) ==
  LET e == EnsureLevel(s, p)
      m == Joined(LevelAt(e, p), h, q)
      t == SetLevel(e, p, m)
  IN  IF t.best \in {<<>>, <<p>>} \/ Better(side, p, t.best[1])
      THEN [t EXCEPT !.best = <<p>>, !.best_qty = m.total_qty]
      ELSE t

SetQtyInSide(s, n, q) ==
  LET m == Resized(LevelAt(s, n.price), q - n.qty)
      t == SetLevel(s, n.price, m)
  IN  CASE ~HasLevel(s, n.price)                       -> s
        [] HasLevel(s, n.price) /\ s.best = <<n.price>> -> [t EXCEPT !.best_qty = m.total_qty]
        [] HasLevel(s, n.price) /\ s.best # <<n.price>> -> t

CancelInSide(s, n) ==
  LET m == Left(LevelAt(s, n.price), n)
      t == SetLevel(s, n.price, m)
      r == RemoveIfEmpty(t, n.price)
  IN  CASE ~HasLevel(s, n.price)               -> s
        [] HasLevel(s, n.price) /\ m.count = 0 -> IF s.best = <<n.price>>
                                                  THEN RecomputeBest(r, n.side) ELSE r
        [] HasLevel(s, n.price) /\ m.count # 0 -> IF s.best = <<n.price>>
                                                  THEN [t EXCEPT !.best_qty = m.total_qty] ELSE t
=============================================================================
