---------------------------- MODULE BoundedQueue ----------------------------
(***************************************************************************)
(* What a TFifo promises: a first-in first-out queue of at most Size items,*)
(* of which none is lost, repeated or reordered.  Items are numbered in    *)
(* the order in which they are offered.                                    *)
(***************************************************************************)
EXTENDS Naturals, Sequences

CONSTANT Size

VARIABLES
  queue, \* the items in the queue
  sent   \* the number of items put so far

vars == <<queue, sent>>

Init == queue = <<>> /\ sent = 0

Put(n) ==
  /\ Len(queue) + n <= Size
  /\ queue' = queue \o [i \in 1..n |-> sent + i]
  /\ sent' = sent + n

Take(n) ==
  /\ queue' = SubSeq(queue, n + 1, Len(queue))
  /\ UNCHANGED sent

Next == \E n \in 1..Size : Put(n) \/ (n <= Len(queue) /\ Take(n))

Spec == Init /\ [][Next]_vars

=============================================================================
