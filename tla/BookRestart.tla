---------------------------- MODULE BookRestart ----------------------------
(***************************************************************************)
(* The order book across restarts: OrderBook::export, which the snapshot     *)
(* holds, and OrderBook::from_export, which builds the books again.          *)
(***************************************************************************)
EXTENDS OrderBook, SequencesExt

ExportLevels(b, ix, i, levels, side) ==
  LET order == SetToSortSeq(DOMAIN levels, LAMBDA p, q : Better(side, p, q))
      handles == FlattenSeq([k \in 1 .. Len(order) |-> Fifo(b, levels[order[k]].head)])
      known == SelectSeq(handles, LAMBDA h : IdOf(ix, i, h) # {})
  IN  [k \in 1 .. Len(known) |->
        [id |-> CHOOSE o \in IdOf(ix, i, known[k]) : TRUE,
         price |-> b.orders[known[k]].price, qty |-> b.orders[known[k]].qty, side |-> side]]

Export(b, ix, i) ==
  LET part(side) == ExportLevels(b, ix, i, b.sides[side].grid, side)
                    \o ExportLevels(b, ix, i, b.sides[side].overflow, side)
  IN  part("Bid") \o part("Ask")

\* from_export: add in the order of the export, so the k-th order gets handle k.
Import(orders) ==
  FoldLeft(LAMBDA b, o : AddOrder(b, o.price, o.qty, o.side), EmptyBook, orders)

\* The process restarts from a snapshot of this very state.  An instrument without
\* orders gets no book but may still be the last one of the export, whose order is
\* that of a hash map.
Restart ==
  LET saved == [i \in DOMAIN books |-> Export(books[i], index, i)]
      entries == {[instr |-> i, h |-> k] : i \in DOMAIN books, k \in 1 .. MaxOrders}
      used == {e \in entries : e.h <= Len(saved[e.instr])}
      id(e) == saved[e.instr][e.h].id
  IN  /\ books' = [i \in {e.instr : e \in used} |-> Import(saved[i])]
      /\ index' = [o \in {id(e) : e \in used} |-> CHOOSE e \in used : id(e) = o]
      /\ last_instr' \in IF books = EmptyMap THEN {None} ELSE DOMAIN books

NextOrRestart == Next \/ Restart

RestartSpec == Init /\ [][NextOrRestart]_vars
=============================================================================
