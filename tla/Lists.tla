------------------------------- MODULE Lists -------------------------------
(***************************************************************************)
(* The doubly linked lists of list.c as sequences.  A list is walked with  *)
(* pxIndex, which points at an item or at the end marker (index 0); the    *)
(* marker precedes the first item and follows the last.  That the pointers *)
(* implement these operators is ListRing.                                  *)
(***************************************************************************)
EXTENDS Naturals, Sequences, SequencesExt

\* vListInitialise
EmptyList == [items |-> <<>>, index |-> 0]

Length(list) == Len(list.items)

\* The new item becomes the last one the walk reaches: it goes before pxIndex.
vListInsertEnd(list, x) ==
  IF list.index = 0
  THEN [list EXCEPT !.items = Append(@, x)]
  ELSE [items |-> InsertAt(list.items, list.index, x), index |-> list.index + 1]

\* A list that does not hold x stays as it is: in the code an item knows its list.
uxListRemove(list, x) ==
  LET at == SelectInSeq(list.items, LAMBDA y : y = x)
  IN  [items |-> RemoveFirst(list.items, x),
       index |-> IF at # 0 /\ list.index >= at THEN list.index - 1 ELSE list.index]

\* listGET_OWNER_OF_NEXT_ENTRY moves pxIndex on and skips the marker.
NextEntry(list) ==
  [list EXCEPT !.index = IF @ >= Length(list) THEN 1 ELSE @ + 1]

Current(list) == list.items[list.index]

\* The position at which vListInsert puts a value: behind all that are not larger.
PlaceFor(values, value) ==
  LET larger == SelectInSeq(values, LAMBDA v : v > value)
  IN  IF larger = 0 THEN Len(values) + 1 ELSE larger

vListInsert(items, x, value) ==
  InsertAt(items, PlaceFor([i \in DOMAIN items |-> value[items[i]]], value[x]), x)
=============================================================================
