----------------------------- MODULE RingBuffer -----------------------------
(***************************************************************************)
(* TRingBuffer, the single-writer, multi-reader, overwriting ring buffer   *)
(* of io_collection_ringbuffer.hpp.                                        *)
(*                                                                         *)
(* The writer and every reader run in threads of their own and share       *)
(* write_position and the slots without a lock.  A sample has two words,   *)
(* which are stored and copied one after the other.  The writer's stores   *)
(* become visible one at a time: in program order, or in every order that  *)
(* release semantics allow within one Write() (a release store is ordered  *)
(* behind the stores before it, not before the stores behind it).          *)
(* An operator X_Y next to X is X with a plausible mistake.                *)
(***************************************************************************)
EXTENDS Naturals

CONSTANTS
  Readers,
  Capacity,   \* TRingBuffer::capacity
  Positions,  \* POSITION_MASK + 1, the number of write positions
  StoreOrder, \* "program" or "release"
  MaxWrites,  \* bound on the samples written
  Nothing

ASSUME PositionsAssumption ==
  /\ Positions \in Nat /\ Capacity \in Nat
  /\ 0 < Capacity /\ Capacity <= (Positions - 1) \div 2
ASSUME OrderAssumption == StoreOrder \in {"program", "release"}
ASSUME WritesAssumption == MaxWrites \in Nat
ASSUME NothingAssumption ==
  /\ \A S \in SUBSET (0..2) : Nothing # S
  /\ \A n \in 0..2 : \A f \in [1..n -> 0..MaxWrites] : Nothing # f

VARIABLES
  write_position, \* the counter as readers see it: position and WRITE_BUSY
  items,          \* the slots as readers see them
  pending,        \* the stores of the Write() under way that are not visible
  copy,             \* per reader, the words of the slot copied, or Null
  read_position,  \* per reader
  before,         \* per reader, counter_before
  written, next, got \* as in SampleStream; next is read_position unwrapped

ringVars == <<write_position, items, pending, copy, read_position, before,
          written, next, got>>

Words == {1, 2}
WriteBusy == 0 \* the store of WRITE_BUSY, which comes before the words
Stores == {WriteBusy} \cup Words

Distance(newer, older) == (newer + Positions - older) % Positions
Slot(position) == position % Capacity

RingInit ==
  /\ write_position = [pos |-> 0, busy |-> FALSE]
  /\ items = [s \in 0..(Capacity - 1) |-> <<0, 0>>]
  /\ pending = Nothing
  /\ copy = [r \in Readers |-> Nothing]
  /\ read_position = [r \in Readers |-> 0]
  /\ before = [r \in Readers |-> [pos |-> 0, busy |-> FALSE]]
  /\ written = 0
  /\ next = [r \in Readers |-> 0]
  /\ got = [r \in Readers |-> <<>>]

-----------------------------------------------------------------------------
(* The writer.  It is not a whole turn of the counter ahead of a reader    *)
(* (2^31 samples in the code): Horizon bounds the model by what the        *)
(* counter can tell apart.                                                 *)
Horizon == \A r \in Readers : written - next[r] < Positions - 1

WriteSample ==
  /\ pending = Nothing /\ written < MaxWrites /\ Horizon
  /\ pending' = Stores
  /\ UNCHANGED <<write_position, items, copy, read_position, before, written, next, got>>

(* One store before the last becomes visible.                              *)
MayStore(s) == StoreOrder = "program" => \A t \in pending : s <= t
Store(s) ==
  /\ pending # Nothing /\ s \in pending /\ MayStore(s)
  /\ pending' = pending \ {s}
  /\ \/ /\ s = WriteBusy
        /\ write_position' = [write_position EXCEPT !.busy = TRUE]
        /\ UNCHANGED items
     \/ /\ s \in Words
        /\ items' = [items EXCEPT ![Slot(write_position.pos)][s] = written]
        /\ UNCHANGED write_position
  /\ UNCHANGED <<copy, read_position, before, written, next, got>>

(* The last store, which all others precede.                               *)
Publish ==
  /\ pending = {}
  /\ write_position' = [pos |-> (write_position.pos + 1) % Positions, busy |-> FALSE]
  /\ pending' = Nothing
  /\ written' = written + 1
  /\ UNCHANGED <<items, copy, read_position, before, next, got>>

-----------------------------------------------------------------------------
(* Readers                                                                 *)

(* What HandleOverrun adds to read_position and to dropped_samples.        *)
Overrun_OffByOne(r) ==
  LET available == Distance(write_position.pos, read_position[r])
  IN  IF available < Capacity THEN 0 ELSE available + 1 - Capacity
Overrun(r) ==
  LET available == Distance(write_position.pos, read_position[r])
  IN  IF available <= Capacity THEN 0 ELSE available - Capacity

HandleOverrun_Unmasked(r) ==
  /\ read_position' = [read_position EXCEPT ![r] = @ + Overrun(r)]
  /\ next' = [next EXCEPT ![r] = @ + Overrun(r)]
HandleOverrun(r) ==
  /\ read_position' = [read_position EXCEPT ![r] = (@ + Overrun(r)) % Positions]
  /\ next' = [next EXCEPT ![r] = @ + Overrun(r)]

(* Construction of a reader, which replaces the one called r.              *)
Reader_FromZero(r) ==
  /\ copy[r] = Nothing
  /\ read_position' = [read_position EXCEPT ![r] = 0]
  /\ next' = [next EXCEPT ![r] = written]
  /\ got' = [got EXCEPT ![r] = <<>>]
  /\ UNCHANGED <<write_position, items, pending, copy, before, written>>
Reader(r) ==
  /\ copy[r] = Nothing
  /\ read_position' = [read_position EXCEPT ![r] = write_position.pos]
  /\ next' = [next EXCEPT ![r] = written]
  /\ got' = [got EXCEPT ![r] = <<>>]
  /\ UNCHANGED <<write_position, items, pending, copy, before, written>>

(* Read(), a turn of its loop: load the counter, leave when the writer is  *)
(* busy, skip what is overwritten, leave when there is nothing to read.    *)
BeginRead(r) ==
  /\ copy[r] = Nothing
  /\ ~write_position.busy
  /\ HandleOverrun(r)
  /\ \/ read_position'[r] = write_position.pos /\ UNCHANGED <<copy, before>>
     \/ /\ read_position'[r] # write_position.pos
        /\ before' = [before EXCEPT ![r] = write_position]
        /\ copy' = [copy EXCEPT ![r] = <<>>]
  /\ UNCHANGED <<write_position, items, pending, written, got>>

Copied(r) == DOMAIN copy[r]
Copy(r) ==
  /\ copy[r] # Nothing
  /\ \E w \in Words :
       /\ Copied(r) = 1..(w - 1)
       /\ copy' = [copy EXCEPT ![r] =
                   [v \in 1..w |-> IF v = w THEN items[Slot(read_position[r])][w] ELSE @[v]]]
  /\ UNCHANGED <<write_position, items, pending, read_position, before, written, next, got>>

(* Load the counter again: keep the copy if it did not move.               *)
Valid_Always(r) == TRUE
Valid(r) == write_position = before[r]

Check(r) ==
  /\ copy[r] # Nothing /\ Copied(r) = Words
  /\ copy' = [copy EXCEPT ![r] = Nothing]
  /\ \/ /\ Valid(r)
        /\ got' = [got EXCEPT ![r] = copy[r]]
        /\ read_position' = [read_position EXCEPT ![r] = (@ + 1) % Positions]
        /\ next' = [next EXCEPT ![r] = @ + 1]
     \/ /\ ~Valid(r) /\ ~write_position.busy
        /\ HandleOverrun(r)
        /\ UNCHANGED got
     \/ /\ ~Valid(r) /\ write_position.busy
        /\ UNCHANGED <<got, read_position, next>>
  /\ UNCHANGED <<write_position, items, pending, before, written>>

RingNext ==
  \/ WriteSample
  \/ \E s \in Stores : Store(s)
  \/ Publish
  \/ \E r \in Readers : Reader(r) \/ BeginRead(r) \/ Copy(r) \/ Check(r)

RingSpec == RingInit /\ [][RingNext]_ringVars

-----------------------------------------------------------------------------
(* Properties                                                              *)

RingTypeOK ==
  /\ write_position \in [pos : 0..(Positions - 1), busy : BOOLEAN]
  /\ items \in [0..(Capacity - 1) -> [Words -> 0..MaxWrites]]
  /\ pending \in {Nothing} \cup SUBSET Stores
  /\ copy \in [Readers -> {Nothing} \cup UNION {[1..n -> 0..MaxWrites] : n \in 0..2}]
  /\ read_position \in [Readers -> 0..(Positions - 1)]
  /\ before \in [Readers -> [pos : 0..(Positions - 1), busy : {FALSE}]]
  /\ written \in 0..MaxWrites /\ next \in [Readers -> 0..MaxWrites]

(* "if the producer wrapped over that slot while it was being copied, the  *)
(* copy is discarded and retried": a sample that Read() returns is the one *)
(* at its read position, and both its words are of that sample.            *)
ReadsGenuine ==
  [][\A r \in Readers :
       copy[r] # Nothing /\ copy'[r] = Nothing /\ read_position'[r] # read_position[r]
         /\ got'[r] # got[r] => got'[r] = <<next[r], next[r]>>]_ringVars

(* The wrapped positions of writer and readers stand for the numbers of    *)
(* samples, so that Available() and DroppedSamples() count right.          *)
PositionsAgree ==
  \A r \in Readers :
    Distance(write_position.pos, read_position[r]) = written - next[r]

(* "If a reader falls more than Capacity() entries behind, the overwritten *)
(* entries are skipped", and nothing else is: the buffer is a stream of    *)
(* samples to each reader.                                                 *)
Stream == INSTANCE SampleStream
KeepsStream == Stream!Spec

=============================================================================
