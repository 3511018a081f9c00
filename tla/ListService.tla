----------------------------- MODULE ListService -----------------------------
(***************************************************************************)
(* What the lists of the kernel promise: each is a sequence with a walk,   *)
(* changed by the operators of Lists.                                      *)
(***************************************************************************)
EXTENDS Lists

CONSTANTS Items, Headers, Values

VARIABLES
  lists,      \* each list: its items in order, the position of its walk
  value       \* xItemValue of each item

Loose(x) == \A l \in Headers : ~ Contains(lists[l].items, x)

Init == lists = [l \in Headers |-> EmptyList] /\ value \in [Items -> Values]

SetValue(x) ==
  /\ Loose(x) /\ UNCHANGED lists
  /\ \E v \in Values : value' = [value EXCEPT ![x] = v]

InsertEnd(l, x) ==
  /\ Loose(x) /\ UNCHANGED value
  /\ lists' = [lists EXCEPT ![l] = vListInsertEnd(@, x)]

\* The walk stays at the item it was at.
Sorted(list, x) ==
  LET items == vListInsert(list.items, x, value)
  IN  [items |-> items,
       index |-> IF list.index = 0 THEN 0
                 ELSE SelectInSeq(items, LAMBDA y : y = list.items[list.index])]

Insert(l, x) ==
  /\ Loose(x) /\ UNCHANGED value
  /\ lists' = [lists EXCEPT ![l] = Sorted(@, x)]

RemoveFrom(l, x) ==
  /\ Contains(lists[l].items, x) /\ UNCHANGED value
  /\ lists' = [lists EXCEPT ![l] = uxListRemove(@, x)]

Walk(l) ==
  /\ lists[l].items # <<>> /\ UNCHANGED value
  /\ lists' = [lists EXCEPT ![l] = NextEntry(@)]

Next ==
  \/ \E x \in Items : SetValue(x)
  \/ \E l \in Headers, x \in Items : InsertEnd(l, x) \/ Insert(l, x) \/ RemoveFrom(l, x)
  \/ \E l \in Headers : Walk(l)

Spec == Init /\ [][Next]_<<lists, value>>
=============================================================================
