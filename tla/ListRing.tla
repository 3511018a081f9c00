------------------------------ MODULE ListRing ------------------------------
(***************************************************************************)
(* The pointers of list.c.  A list is a ring of its items and its end      *)
(* marker xListEnd, which has the largest value; here the marker is named  *)
(* by its list.  ring is a record of                                       *)
(*   next, prev    pxNext, pxPrevious of each item and marker              *)
(*   index         pxIndex of each list                                    *)
(*   count         uxNumberOfItems of each list                            *)
(*   container     pvContainer of each item                                *)
(*   value         xItemValue of each item                                 *)
(***************************************************************************)
EXTENDS Naturals, Sequences

CONSTANTS
  Items, Headers,   \* the items and the lists
  NoList,           \* the container of an item in no list
  MAX_DELAY         \* portMAX_DELAY, the value of the end markers

VARIABLE ring

ItemValues == 0..MAX_DELAY

ValueAt(r, p) == IF p \in Headers THEN MAX_DELAY ELSE r.value[p]

\* The new item between p and the one behind it.
LinkedAfter(r, p, x, l) ==
  LET behind == r.next[p]
  IN  [r EXCEPT !.next = [@ EXCEPT ![x] = behind, ![p] = x],
                !.prev = [@ EXCEPT ![x] = p, ![behind] = x],
                !.container[x] = l, !.count[l] = @ + 1]

vListInsertEndRing(r, l, x) == LinkedAfter(r, r.prev[r.index[l]], x, l)

\* The last item before one with a larger value, from the marker on.
RECURSIVE IteratorFrom(_, _, _)
IteratorFrom(r, p, v) ==
  IF ValueAt(r, r.next[p]) =< v THEN IteratorFrom(r, r.next[p], v) ELSE p

vListInsertRing(r, l, x) ==
  LET v == r.value[x]
      iterator == IF v = MAX_DELAY THEN r.prev[l] ELSE IteratorFrom(r, l, v)
  IN  LinkedAfter(r, iterator, x, l)

\* Mutant: the walk is left at the item.
uxListRemoveRing_KeepsIndex(r, x) ==
  LET l == r.container[x]
  IN  [r EXCEPT !.prev[r.next[x]] = r.prev[x], !.next[r.prev[x]] = r.next[x],
                !.container[x] = NoList, !.count[l] = @ - 1]

uxListRemoveRing(r, x) ==
  LET l == r.container[x]
  IN  [r EXCEPT !.prev[r.next[x]] = r.prev[x], !.next[r.prev[x]] = r.next[x],
                !.index[l] = IF @ = x THEN r.prev[x] ELSE @,
                !.container[x] = NoList, !.count[l] = @ - 1]

\* listGET_OWNER_OF_NEXT_ENTRY
NextEntryRing(r, l) ==
  LET one == r.next[r.index[l]]
  IN  [r EXCEPT !.index[l] = IF one = l THEN r.next[one] ELSE one]

-----------------------------------------------------------------------------
\* vListInitialise and vListInitialiseItem; the links of a new item are not read.
RingInit ==
  \E value \in [Items -> ItemValues] :
    ring = [next |-> [p \in Items \cup Headers |-> p], prev |-> [p \in Items \cup Headers |-> p],
            index |-> [l \in Headers |-> l], count |-> [l \in Headers |-> 0],
            container |-> [x \in Items |-> NoList], value |-> value]

Fresh(x) == ring.container[x] = NoList

RingSetValue(x) == Fresh(x) /\ \E v \in ItemValues : ring' = [ring EXCEPT !.value[x] = v]
RingInsertEnd(l, x) == Fresh(x) /\ ring' = vListInsertEndRing(ring, l, x)
RingInsert(l, x) == Fresh(x) /\ ring' = vListInsertRing(ring, l, x)
RingRemove(x) == ~ Fresh(x) /\ ring' = uxListRemoveRing(ring, x)
RingWalk(l) == ring.count[l] # 0 /\ ring' = NextEntryRing(ring, l)

RingNext ==
  \/ \E x \in Items : RingSetValue(x) \/ RingRemove(x)
  \/ \E l \in Headers, x \in Items : RingInsertEnd(l, x) \/ RingInsert(l, x)
  \/ \E l \in Headers : RingWalk(l)

-----------------------------------------------------------------------------
\* As many items as are counted, from the marker on; where the walk is among them.
RECURSIVE Walked(_, _)
Walked(l, n) == IF n = 0 THEN <<>> ELSE
  LET before == Walked(l, n - 1)
  IN  Append(before, ring.next[IF n = 1 THEN l ELSE before[n - 1]])

AsList(l) ==
  LET items == Walked(l, ring.count[l])
      at == {i \in DOMAIN items : items[i] = ring.index[l]}
  IN  [items |-> items, index |-> IF at = {} THEN 0 ELSE CHOOSE i \in at : TRUE]

Service == INSTANCE ListService
  WITH lists <- [l \in Headers |-> AsList(l)], value <- ring.value, Values <- ItemValues

\* The rings of list.c implement the lists the kernel modules are written with:
\* order, count and walk agree after any sequence of insertions and removals.
RingImplements == Service!Spec
=============================================================================
