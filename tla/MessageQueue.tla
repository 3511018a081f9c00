---------------------------- MODULE MessageQueue ----------------------------
(***************************************************************************)
(* What a queue of queue.c promises: at most `capacity' items, which are     *)
(* taken in the order in which they were put in, whoever waits for them.   *)
(***************************************************************************)
EXTENDS Naturals, Sequences

CONSTANT Payloads
VARIABLES contents, capacity

\* A semaphore may start with some of its count; its items are all alike.
Init == contents \in {<<>>} \cup {[i \in 1..n |-> 0] : n \in 1..capacity}

\* Several at once when a queue that was locked tells its set what came meanwhile.
Put ==
  \E n \in 1..(capacity - Len(contents)) : \E items \in [1..n -> Payloads] :
    contents' = contents \o items
PutFirst == Len(contents) < capacity /\ \E x \in Payloads : contents' = <<x>> \o contents

\* xQueueOverwrite replaces the item of a queue of length one.
Replace == capacity = 1 /\ contents # <<>> /\ \E x \in Payloads : contents' = <<x>>

Take == contents # <<>> /\ contents' = Tail(contents)

\* xQueueReset
Clear == contents' = <<>>

Next == (Put \/ PutFirst \/ Replace \/ Take \/ Clear) /\ UNCHANGED capacity
Spec == Init /\ [][Next]_<<contents, capacity>>
=============================================================================
