---------------------------- MODULE SampleStream ----------------------------
(***************************************************************************)
(* What TRingBuffer promises its readers (comment on the class): every     *)
(* reader gets the samples in the order they were written, whole and once  *)
(* each, and misses samples only when it is more than Capacity behind.     *)
(***************************************************************************)
EXTENDS Naturals

CONSTANTS Readers, Capacity

VARIABLES
  written, \* the number of samples written
  next,    \* per reader, the number of the next sample it reads
  got      \* per reader, the words of the last sample it got

vars == <<written, next, got>>

Init ==
  /\ written = 0
  /\ next = [r \in Readers |-> 0]
  /\ got = [r \in Readers |-> <<>>]

Write == written' = written + 1 /\ UNCHANGED <<next, got>>

(* A reader is attached again at the current position.                     *)
Attach(r) ==
  /\ next' = [next EXCEPT ![r] = written]
  /\ got' = [got EXCEPT ![r] = <<>>]
  /\ UNCHANGED written

(* Sample n consists of two words that both say n.                         *)
Deliver(r) ==
  /\ next[r] < written
  /\ got' = [got EXCEPT ![r] = <<next[r], next[r]>>]
  /\ next' = [next EXCEPT ![r] = @ + 1]
  /\ UNCHANGED written

Skip(r) ==
  /\ next[r] + Capacity < written
  /\ next' = [next EXCEPT ![r] = written - Capacity]
  /\ UNCHANGED <<written, got>>

Next == Write \/ \E r \in Readers : Attach(r) \/ Deliver(r) \/ Skip(r)

Spec == Init /\ [][Next]_vars

=============================================================================
