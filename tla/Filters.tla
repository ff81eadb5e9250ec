------------------------------- MODULE Filters -------------------------------
(***************************************************************************)
(* The filters of @ipare/filter that apply to an action, and the order in  *)
(* which they run: getFilters of execFilters, UseFilters and               *)
(* Startup.useFilterOrder.                                                 *)
(***************************************************************************)
EXTENDS Integers, SequencesExt, Lists

\* execFilters: a filter has a function when its class defines it.
Selected(filters, Has, func) == Only(filters, {f \in ToSet(filters) : func \in Has[f]})

\* useFilterOrder replaces the record of the same class.
SetOrder(orders, f, n) ==
  Append(Only(orders, {o \in ToSet(orders) : o.filter # f}), [filter |-> f, order |-> n])
OrderOf(orders, f) ==
  LET i == SelectInSeq(orders, LAMBDA o : o.filter = f)
  IN IF i = 0 THEN {} ELSE {orders[i].order}

\* The comparator: filters without an order come behind those with one.
Before(orders, f, g) ==
  LET m == OrderOf(orders, f)
      n == OrderOf(orders, g)
  IN m # {} /\ (n = {} \/ \E x \in m, y \in n : x < y)

Earlier(orders, s) == {p \in ToSet(s) \X ToSet(s) : Before(orders, p[1], p[2])}
Later(orders, s) == {p \in ToSet(s) \X ToSet(s) : Before(orders, p[2], p[1])}

\* Array.prototype.sort is stable: one element after the other comes behind
\* those that "less" does not order after it.
Inserted(sorted, f, less) ==
  InsertAt(sorted, 1 + Cardinality({i \in DOMAIN sorted : <<f, sorted[i]>> \notin less}), f)
StableSort(s, less) ==
  LET sorted[n \in 0 .. Len(s)] ==
        IF n = 0 THEN << >> ELSE Inserted(sorted[n - 1], s[n], less)
  IN sorted[Len(s)]

\* Mutants: the globals are left out of actions that use filters; the
\* executed functions run forwards.
GetFiltersOfAction(globals, used, orders, Has, func, executing) ==
  LET all == Selected(IF used = << >> THEN globals ELSE used, Has, func)
  IN IF executing THEN StableSort(all, Earlier(orders, all))
     ELSE StableSort(Reverse(all), Later(orders, all))
GetFiltersForward(globals, used, orders, Has, func, executing) ==
  LET all == Selected(globals \o used, Has, func)
  IN IF executing THEN StableSort(all, Earlier(orders, all))
     ELSE StableSort(all, Later(orders, all))

\* Executing runs the globals first; executed runs the list backwards.
GetFilters(globals, used, orders, Has, func, executing) ==
  LET all == Selected(globals \o used, Has, func)
  IN IF executing THEN StableSort(all, Earlier(orders, all))
     ELSE StableSort(Reverse(all), Later(orders, all))
=============================================================================
