---------------------------- MODULE SearchQueue -----------------------------
(***************************************************************************)
(* queue.c: the queue of the breadth-first search, a list of items from    *)
(* malloc().  The queue and the items are one record; an item that is      *)
(* freed keeps its contents until malloc() returns it again, so that what  *)
(* is written to or read from a freed item is as in the program.  malloc() *)
(* takes the first of the free items; placement is where free() puts one:  *)
(* first, last, or in the order of the addresses, as allocators differ.    *)
(***************************************************************************)
EXTENDS Integers, Sequences

CONSTANT MaxItems   \* bound: items that malloc() has

ASSUME SearchQueueAssumption == MaxItems \in Nat \ {0}

NULL       == 0
Item       == 1..MaxItems
Placements == {"first", "last", "address"}

Empty(placement) ==
  [placement |-> placement, free |-> [i \in Item |-> i],
   node |-> [i \in Item |-> NULL], next |-> [i \in Item |-> NULL],
   head |-> NULL, tail |-> NULL, elements |-> 0]

queue_init(q) == [q EXCEPT !.elements = 0, !.head = NULL, !.tail = NULL]

\* Mutant: the new item is linked, but it is not the tail.
PushKeepsTail(q, node) ==
  LET i == Head(q.free)
      linked == [q.next EXCEPT ![i] = NULL]
  IN  [q EXCEPT !.free = Tail(@), !.node[i] = node,
                !.next = IF q.tail = NULL THEN linked ELSE [linked EXCEPT ![q.tail] = i],
                !.tail = IF @ = NULL THEN i ELSE @,
                !.head = IF @ = NULL THEN i ELSE @,
                !.elements = @ + 1]

\* tail is not NULL once there was an item, even when it has been freed; if
\* malloc() returns that very item, the item becomes its own successor.
queue_push(q, node) ==
  LET i == Head(q.free)
      linked == [q.next EXCEPT ![i] = NULL]
  IN  [q EXCEPT !.free = Tail(@), !.node[i] = node,
                !.next = IF q.tail = NULL THEN linked ELSE [linked EXCEPT ![q.tail] = i],
                !.tail = i,
                !.head = IF @ = NULL THEN i ELSE @,
                !.elements = @ + 1]

\* How many of the free items come before one that is freed.
Before(q, i) ==
  CASE q.placement = "first"   -> 0
    [] q.placement = "last"    -> Len(q.free)
    [] q.placement = "address" ->
         CHOOSE k \in 0..Len(q.free) :
           /\ \A j \in 1..k : q.free[j] < i
           /\ \A j \in k+1..Len(q.free) : q.free[j] > i

Freed(q, i) ==
  SubSeq(q.free, 1, Before(q, i)) \o <<i>>
    \o SubSeq(q.free, Before(q, i) + 1, Len(q.free))

\* The node of the first item, and the queue without it.
First(q) == q.node[q.head]
queue_dequeue(q) ==
  [q EXCEPT !.free = Freed(q, q.head), !.head = q.next[q.head], !.elements = @ - 1]
=============================================================================
