---------------------------- MODULE Actors_proofs ----------------------------
(***************************************************************************)
(* Proofs about the parts that work side by side: Fifo, for every size of  *)
(* the ring, RingBuffer, for any number of readers, any capacity and any   *)
(* number of samples, Thread, for any number of threads and of locks,      *)
(* Modbus, for any number of fibers, devices and requests, and Servo42D,   *)
(* for any targets.                                                        *)
(***************************************************************************)
EXTENDS Fifo, RingBuffer, Thread, Modbus, Servo42D, SequenceTheorems, TLAPS

-----------------------------------------------------------------------------
(* The FIFO between two fibers                                             *)

InBounds == /\ idx_write \in 0..N_ITEMS /\ idx_read \in Slots
            /\ arr_items_fifo \in [Slots -> 0..MaxItems]
            /\ sent \in 0..MaxItems

(* Indices that have passed the end of the array wrap around once.         *)
Wrap(x) == x % N_ITEMS
(* One subtraction wraps such an index.                                    *)
LEMMA WrapIs ==
  \A x \in 0..(2 * N_ITEMS - 1) :
    Wrap(x) = IF x < N_ITEMS THEN x ELSE x - N_ITEMS
BY SizeAssumption DEF Wrap

(* Count() and Space() are complementary.                                  *)
LEMMA CountSpace ==
  ASSUME InBounds
  PROVE  Count \in 0..N_ITEMS /\ Space = N_ITEMS - Count
BY SizeAssumption DEF InBounds, Slots, Count, Space

(* The slot of an item, and the item of a slot.                            *)
LEMMA ItemSlot ==
  ASSUME InBounds, NEW i \in 0..(N_ITEMS - 1)
  PROVE  /\ (idx_read + i) % N_ITEMS \in Slots
         /\ (idx_read + i) % N_ITEMS =
              IF idx_read + i < N_ITEMS THEN idx_read + i ELSE idx_read + i - N_ITEMS
         /\ Item(i) \in 0..MaxItems
<1>1. idx_read + i \in 0..(2 * N_ITEMS - 1)
  BY SizeAssumption DEF InBounds, Slots
<1>2. (idx_read + i) % N_ITEMS =
        IF idx_read + i < N_ITEMS THEN idx_read + i ELSE idx_read + i - N_ITEMS
  <2>1. Wrap(idx_read + i) =
          IF idx_read + i < N_ITEMS THEN idx_read + i ELSE idx_read + i - N_ITEMS
    BY <1>1, WrapIs, SizeAssumption DEF InBounds, Slots
  <2>2. QED BY <2>1 DEF Wrap
<1>3. (idx_read + i) % N_ITEMS \in Slots
  BY <1>1, <1>2, SizeAssumption DEF Slots
<1>4. QED BY <1>2, <1>3 DEF InBounds, Item

(* Write() appends the next items.                                         *)
LEMMA PutAppends ==
  ASSUME InBounds, NEW w \in 1..Space, sent + w <= MaxItems, Put(w)
  PROVE  /\ InBounds'
         /\ Count' = Count + w
         /\ \A i \in 0..(Count + w - 1) : Item(i)' = IF i < Count THEN Item(i) ELSE sent + 1 + i - Count
<1>0. Count \in 0..N_ITEMS /\ Space = N_ITEMS - Count
  BY CountSpace
<1>1. idx_write \in Slots /\ w \in 1..N_ITEMS
  BY <1>0, SizeAssumption DEF InBounds, Space, Slots
<1> DEFINE end == (idx_write + w) % N_ITEMS
<1>2. end = IF idx_write + w < N_ITEMS THEN idx_write + w ELSE idx_write + w - N_ITEMS
  <2>1. idx_write + w \in 0..(2 * N_ITEMS - 1)
    BY <1>1, SizeAssumption DEF Slots
  <2>2. Wrap(idx_write + w) =
          IF idx_write + w < N_ITEMS THEN idx_write + w ELSE idx_write + w - N_ITEMS
    BY <2>1, WrapIs, SizeAssumption DEF InBounds, Slots
  <2>3. QED BY <2>2 DEF Wrap
<1>3. /\ idx_write' = IF end = idx_read THEN N_ITEMS ELSE end
      /\ idx_read' = idx_read /\ sent' = sent + w
  BY DEF Put
<1> HIDE DEF end
<1>4. idx_write' \in 0..N_ITEMS /\ Count' = Count + w
  BY <1>0, <1>1, <1>2, <1>3, SizeAssumption DEF InBounds, Slots, Count
<1>5. \A k \in Slots : (k + N_ITEMS - idx_write) % N_ITEMS =
                         IF k < idx_write THEN k + N_ITEMS - idx_write ELSE k - idx_write
  <2> TAKE k \in Slots
  <2>1. k + N_ITEMS - idx_write \in 0..(2 * N_ITEMS - 1)
    BY <1>1, SizeAssumption DEF Slots
  <2>2. Wrap(k + N_ITEMS - idx_write) =
          IF k + N_ITEMS - idx_write < N_ITEMS
          THEN k + N_ITEMS - idx_write ELSE k + N_ITEMS - idx_write - N_ITEMS
    BY <2>1, WrapIs, SizeAssumption DEF InBounds, Slots
  <2>3. QED BY <2>2, <1>1, SizeAssumption DEF Wrap, Slots
<1>6. /\ arr_items_fifo' \in [Slots -> 0..MaxItems]
      /\ \A k \in Slots : arr_items_fifo'[k] =
            LET i == IF k < idx_write THEN k + N_ITEMS - idx_write ELSE k - idx_write
            IN  IF i < w THEN sent + i + 1 ELSE arr_items_fifo[k]
  <2>1. arr_items_fifo' = [k \in Slots |->
            LET i == IF k < idx_write THEN k + N_ITEMS - idx_write ELSE k - idx_write
            IN  IF i < w THEN sent + i + 1 ELSE arr_items_fifo[k]]
    BY <1>5 DEF Put
  <2>2. ASSUME NEW k \in Slots
        PROVE  (LET i == IF k < idx_write THEN k + N_ITEMS - idx_write ELSE k - idx_write
                IN  IF i < w THEN sent + i + 1 ELSE arr_items_fifo[k]) \in 0..MaxItems
    BY <1>1, SizeAssumption, ItemsAssumption DEF InBounds, Slots
  <2>3. QED BY <2>1, <2>2
<1>7. InBounds'
  BY <1>3, <1>4, <1>6, <1>1, ItemsAssumption DEF InBounds
<1>8. ASSUME NEW i \in 0..(Count + w - 1)
      PROVE  Item(i)' = IF i < Count THEN Item(i) ELSE sent + 1 + i - Count
  <2>1. i \in 0..(N_ITEMS - 1)
    BY <1>0, SizeAssumption
  <2> DEFINE k == (idx_read + i) % N_ITEMS
  <2>2. k \in Slots /\ k = IF idx_read + i < N_ITEMS THEN idx_read + i ELSE idx_read + i - N_ITEMS
    BY <2>1, ItemSlot
  <2>3. Item(i)' = arr_items_fifo'[k] /\ Item(i) = arr_items_fifo[k]
    BY <1>3 DEF Item
  <2> HIDE DEF k
  <2>4. CASE i < Count
    <3>1. ~((IF k < idx_write THEN k + N_ITEMS - idx_write ELSE k - idx_write) < w)
      BY <1>0, <1>1, <2>1, <2>2, <2>4, SizeAssumption DEF InBounds, Slots, Count
    <3>2. arr_items_fifo'[k] = arr_items_fifo[k]
      BY <3>1, <2>2, <1>6
    <3>3. QED BY <3>2, <2>3, <2>4
  <2>5. CASE i >= Count
    <3>1. (IF k < idx_write THEN k + N_ITEMS - idx_write ELSE k - idx_write) = i - Count
      BY <1>0, <1>1, <2>1, <2>2, <2>5, SizeAssumption DEF InBounds, Slots, Count
    <3>2. i - Count < w
      BY <1>0, <1>1
    <3>3. QED BY <3>1, <3>2, <2>2, <2>3, <2>5, <1>6, <1>0, <2>1 DEF InBounds
  <2>6. QED BY <2>4, <2>5, <1>0
<1>9. QED BY <1>4, <1>7, <1>8

(* Shift() removes the first items.                                        *)
LEMMA ShiftRemoves ==
  ASSUME InBounds, NEW n \in 1..N_ITEMS, Shift(n)
  PROVE  /\ InBounds' /\ n <= Count
         /\ Count' = Count - n
         /\ \A i \in 0..(Count - n - 1) : Item(i)' = Item(n + i)
<1>0. Count \in 0..N_ITEMS /\ n <= Count
  BY CountSpace DEF Shift
<1>1. /\ idx_write' = IF idx_write = N_ITEMS THEN idx_read ELSE idx_write
      /\ idx_read' = (idx_read + n) % N_ITEMS
      /\ UNCHANGED <<arr_items_fifo, sent>>
  BY DEF Shift
<1>2. idx_read' = IF idx_read + n < N_ITEMS THEN idx_read + n ELSE idx_read + n - N_ITEMS
  <2>1. idx_read + n \in 0..(2 * N_ITEMS - 1)
    BY SizeAssumption DEF InBounds, Slots
  <2>2. Wrap(idx_read + n) =
          IF idx_read + n < N_ITEMS THEN idx_read + n ELSE idx_read + n - N_ITEMS
    BY <2>1, WrapIs, SizeAssumption DEF InBounds, Slots
  <2>3. QED BY <1>1, <2>2 DEF Wrap
<1>3. InBounds'
  BY <1>1, <1>2, SizeAssumption DEF InBounds, Slots
<1>4. Count' = Count - n
  <2> DEFINE w == idx_write  r == idx_read  s == idx_read'  v == idx_write'
  <2>1. w \in 0..N_ITEMS /\ r \in Slots /\ s \in Slots /\ v \in 0..N_ITEMS
    BY <1>3 DEF InBounds
  <2>2. CASE w = N_ITEMS
    <3>1. Count = N_ITEMS /\ v = r /\ v # N_ITEMS
      BY <2>1, <2>2, <1>1, SizeAssumption DEF Count, Slots
    <3>2. QED BY <3>1, <2>1, <1>2, SizeAssumption DEF Count, Slots
  <2>3. CASE w # N_ITEMS
    <3>1. Count = IF w >= r THEN w - r ELSE (N_ITEMS - r) + w
      BY <2>3 DEF Count
    <3>2. Count' = IF w >= s THEN w - s ELSE (N_ITEMS - s) + w
      BY <2>3, <1>1 DEF Count
    <3>3. QED BY <3>1, <3>2, <2>1, <2>3, <1>0, <1>2, SizeAssumption DEF Slots
  <2>4. QED BY <2>2, <2>3
<1>5. ASSUME NEW i \in 0..(Count - n - 1)
      PROVE  Item(i)' = Item(n + i)
  <2>1. idx_read' + i \in 0..(2 * N_ITEMS - 1) /\ idx_read + (n + i) \in 0..(2 * N_ITEMS - 1)
    BY <1>0, <1>2, SizeAssumption DEF InBounds, Slots
  <2>2. (idx_read' + i) % N_ITEMS = (idx_read + (n + i)) % N_ITEMS
    <3>0. idx_read' \in Int /\ i \in Int
      BY <1>0, <1>3 DEF InBounds, Slots
    <3>1. Wrap(idx_read' + i) =
            IF idx_read' + i < N_ITEMS THEN idx_read' + i ELSE idx_read' + i - N_ITEMS
      <4> DEFINE s == idx_read'
      <4>1. s \in Int /\ s + i \in 0..(2 * N_ITEMS - 1)
        BY <3>0, <2>1
      <4> HIDE DEF s
      <4>2. Wrap(s + i) = IF s + i < N_ITEMS THEN s + i ELSE s + i - N_ITEMS
        BY <4>1, <3>0, WrapIs, SizeAssumption
      <4>3. QED BY <4>2 DEF s
    <3>2. Wrap(idx_read + (n + i)) =
            IF idx_read + (n + i) < N_ITEMS THEN idx_read + (n + i) ELSE idx_read + (n + i) - N_ITEMS
      BY <2>1, WrapIs, SizeAssumption DEF InBounds, Slots
    <3>3. Wrap(idx_read' + i) = Wrap(idx_read + (n + i))
      BY <3>1, <3>2, <1>0, <1>2, SizeAssumption DEF InBounds, Slots
    <3>4. QED BY <3>3 DEF Wrap
  <2>3. QED BY <2>2, <1>1 DEF Item
<1>6. QED BY <1>0, <1>3, <1>4, <1>5

(* Linearize() moves the items to the front and changes none.              *)
LEMMA LinearizeKeeps ==
  ASSUME InBounds, Linearize
  PROVE  /\ InBounds' /\ idx_read' = 0
         /\ Count' = Count
         /\ \A i \in 0..(Count - 1) : Item(i)' = Item(i)
<1>0. Count \in 0..N_ITEMS
  BY CountSpace
<1>1. /\ arr_items_fifo' = [k \in Slots |-> Item(k)]
      /\ idx_read' = 0 /\ sent' = sent
      /\ idx_write' = IF Count = N_ITEMS THEN N_ITEMS ELSE Count
  BY DEF Linearize, Item
<1>2. InBounds'
  BY <1>0, <1>1, ItemSlot, SizeAssumption DEF InBounds, Slots
<1>3. Count' = Count
  BY <1>0, <1>1, SizeAssumption DEF Count
<1>4. ASSUME NEW i \in 0..(Count - 1)
      PROVE  Item(i)' = Item(i)
  <2>1. i \in Slots /\ (0 + i) % N_ITEMS = i
    BY <1>0, SizeAssumption DEF Slots
  <2>2. QED BY <2>1, <1>1 DEF Item
<1>5. QED BY <1>1, <1>2, <1>3, <1>4

-----------------------------------------------------------------------------
(* The items in the ring as a sequence                                     *)

(* A function on 1..n is a sequence of length n.                           *)
LEMMA FunctionIsSeq ==
  ASSUME NEW S, NEW n \in Nat, NEW f \in [1..n -> S]
  PROVE  f \in Seq(S) /\ Len(f) = n
OBVIOUS

(* Contents is a sequence of Count() items.                                *)
LEMMA ContentsIsSeq ==
  ASSUME InBounds
  PROVE  /\ Contents \in Seq(0..MaxItems) /\ Len(Contents) = Count
         /\ \A i \in 1..Count : Contents[i] = Item(i - 1)
<1>1. Count \in 0..N_ITEMS /\ Count \in Nat
  BY CountSpace, SizeAssumption
<1>2. \A i \in 1..Count : Item(i - 1) \in 0..MaxItems
  BY <1>1, ItemSlot, SizeAssumption
<1>3. Contents \in [1..Count -> 0..MaxItems]
  BY <1>2 DEF Contents
<1>4. QED BY <1>1, <1>3, FunctionIsSeq DEF Contents

(* Two rings hold the same items, slot by slot.                            *)
LEMMA PrimedContents ==
  ASSUME NEW n \in Nat, Count' = n, NEW s \in Seq(0..MaxItems), Len(s) = n,
         \A i \in 1..n : Item(i - 1)' = s[i]
  PROVE  Contents' = s
<1>1. Contents' = [i \in 1..n |-> Item(i - 1)']
  BY DEF Contents
<1>2. Contents' = [i \in 1..n |-> s[i]]
  BY <1>1
<1>3. s = [i \in 1..n |-> s[i]]
  OBVIOUS
<1>4. QED BY <1>2, <1>3

(* The loop of Write() is a Put of the abstract queue.                     *)
LEMMA PutIsPut ==
  ASSUME InBounds, NEW w \in 1..Space, sent + w <= MaxItems, Put(w)
  PROVE  Queue!Put(w) /\ w \in 1..N_ITEMS
<1>0. Count \in 0..N_ITEMS /\ Space = N_ITEMS - Count
  BY CountSpace
<1> DEFINE new == [i \in 1..w |-> sent + i]
<1>1. new \in [1..w -> 0..MaxItems]
  BY <1>0, SizeAssumption, ItemsAssumption DEF InBounds
<1>2. new \in Seq(0..MaxItems) /\ Len(new) = w
  <2>1. w \in Nat
    BY <1>0, SizeAssumption
  <2>2. QED BY <1>1, <2>1, FunctionIsSeq
<1>3. /\ Contents \in Seq(0..MaxItems) /\ Len(Contents) = Count
      /\ \A i \in 1..Count : Contents[i] = Item(i - 1)
  BY ContentsIsSeq
<1>4. /\ Count' = Count + w
      /\ \A i \in 0..(Count + w - 1) : Item(i)' = IF i < Count THEN Item(i) ELSE sent + 1 + i - Count
  BY PutAppends
<1> DEFINE joined == Contents \o new
<1>5. /\ joined \in Seq(0..MaxItems) /\ Len(joined) = Count + w
      /\ \A i \in 1..(Count + w) : joined[i] =
            IF i <= Count THEN Contents[i] ELSE new[i - Count]
  <2> HIDE DEF new
  <2>1. /\ joined \in Seq(0..MaxItems) /\ Len(joined) = Len(Contents) + Len(new)
        /\ \A i \in 1..(Len(Contents) + Len(new)) : joined[i] =
            IF i <= Len(Contents) THEN Contents[i] ELSE new[i - Len(Contents)]
    BY <1>2, <1>3, ConcatProperties
  <2> HIDE DEF joined
  <2>2. QED BY <2>1, <1>2, <1>3
<1> HIDE DEF joined
<1>6. ASSUME NEW i \in 1..(Count + w)
      PROVE  Item(i - 1)' = joined[i]
  <2>0. i - 1 \in 0..(Count + w - 1) /\ i \in 1..(Count + w) /\ i \in Int
    BY <1>0
  <2>1. CASE i <= Count
    <3>1. i \in 1..Count /\ i - 1 < Count
      BY <2>0, <2>1, <1>0
    <3>2. Item(i - 1)' = Item(i - 1)
      BY <2>0, <3>1, <1>4
    <3>3. joined[i] = Contents[i]
      BY <2>0, <2>1, <1>5
    <3>4. QED BY <3>1, <3>2, <3>3, <1>3
  <2>2. CASE i > Count
    <3>1. new[i - Count] = sent + (i - Count)
      BY <2>2, <1>0
    <3>2. Item(i - 1)' = sent + 1 + (i - 1) - Count
      BY <2>0, <2>2, <1>0, <1>4
    <3>3. joined[i] = new[i - Count]
      BY <2>2, <1>0, <1>5
    <3>4. sent + 1 + (i - 1) - Count = sent + (i - Count)
      BY <1>0, <2>0 DEF InBounds
    <3>5. QED BY <3>1, <3>2, <3>3, <3>4
  <2>3. QED BY <2>0, <2>1, <2>2, <1>0
<1>7. Contents' = joined
  <2>1. Count + w \in Nat
    BY <1>0
  <2>2. Count' = Count + w
    BY <1>4
  <2> HIDE DEF new
  <2>3. QED BY <2>1, <2>2, <1>5, <1>6, PrimedContents
<1>8. QED BY <1>0, <1>3, <1>7, SizeAssumption DEF Queue!Put, Put, joined

(* Shift() is a Take of the abstract queue.                                *)
LEMMA ShiftIsTake ==
  ASSUME InBounds, NEW n \in 1..N_ITEMS, Shift(n)
  PROVE  n <= Len(Contents) /\ Queue!Take(n)
<1>0. Count \in 0..N_ITEMS /\ n <= Count
  BY CountSpace DEF Shift
<1>1. /\ Contents \in Seq(0..MaxItems) /\ Len(Contents) = Count
      /\ \A i \in 1..Count : Contents[i] = Item(i - 1)
  BY ContentsIsSeq
<1>2. Count' = Count - n /\ \A i \in 0..(Count - n - 1) : Item(i)' = Item(n + i)
  BY ShiftRemoves
<1> DEFINE rest == SubSeq(Contents, n + 1, Len(Contents))
<1>3. \A i \in (n + 1)..Count : Contents[i] \in 0..MaxItems
  <2>1. \A i \in (n + 1)..Count : i \in 1..Count /\ i - 1 \in 0..(N_ITEMS - 1)
    BY <1>0, SizeAssumption
  <2>2. QED BY <2>1, <1>1, ItemSlot
<1>4. /\ rest \in Seq(0..MaxItems) /\ Len(rest) = Count - n
      /\ \A i \in 1..(Count - n) : rest[i] = Contents[n + i]
  <2>1. n + 1 \in Int /\ Count \in Int
    BY <1>0
  <2>2. /\ rest \in Seq(0..MaxItems)
        /\ Len(rest) = IF n + 1 <= Count THEN Count - (n + 1) + 1 ELSE 0
        /\ \A i \in 1..(Count - (n + 1) + 1) : rest[i] = Contents[(n + 1) + i - 1]
    BY <1>1, <1>3, <2>1, SubSeqProperties
  <2>3. Count - (n + 1) + 1 = Count - n
    BY <1>0
  <2>4. \A i \in 1..(Count - n) : (n + 1) + i - 1 = n + i
    BY <1>0
  <2> HIDE DEF rest
  <2>5. Len(rest) = Count - n
    <3>1. n + 1 <= Count \/ (n = Count /\ Count - n = 0)
      BY <1>0
    <3>2. ~(n + 1 <= Count) => Len(rest) = 0
      BY <2>2
    <3>3. n + 1 <= Count => Len(rest) = Count - (n + 1) + 1
      BY <2>2
    <3>4. n = Count => ~(n + 1 <= Count)
      BY <1>0
    <3>5. QED BY <2>3, <3>1, <3>2, <3>3, <3>4
  <2>6. \A i \in 1..(Count - n) : rest[i] = Contents[n + i]
    <3>1. TAKE i \in 1..(Count - n)
    <3>2. rest[i] = Contents[(n + 1) + i - 1]
      BY <2>2, <2>3
    <3>3. (n + 1) + i - 1 = n + i
      BY <2>4
    <3>4. QED BY <3>2, <3>3
  <2>7. QED BY <2>2, <2>5, <2>6
<1>5. ASSUME NEW i \in 1..(Count - n)
      PROVE  Item(i - 1)' = rest[i]
  <2>1. i - 1 \in 0..(Count - n - 1) /\ n + i \in 1..Count /\ n + (i - 1) = (n + i) - 1
    BY <1>0
  <2>2. Item(i - 1)' = Item((n + i) - 1)
    BY <2>1, <1>2
  <2> HIDE DEF rest
  <2>3. QED BY <2>1, <2>2, <1>1, <1>4
<1>6. Contents' = rest
  <2> HIDE DEF rest
  <2>1. Count - n \in Nat /\ Count' = Count - n
    BY <1>0, <1>2
  <2>2. QED BY <2>1, <1>4, <1>5, PrimedContents
<1>7. QED BY <1>0, <1>1, <1>6 DEF Queue!Take, Shift

(* Linearize() is a stutter of the abstract queue.                         *)
LEMMA LinearizeKeepsContents ==
  ASSUME InBounds, Linearize
  PROVE  Contents' = Contents /\ sent' = sent
<1>0. Count \in 0..N_ITEMS
  BY CountSpace
<1>1. /\ Contents \in Seq(0..MaxItems) /\ Len(Contents) = Count
      /\ \A i \in 1..Count : Contents[i] = Item(i - 1)
  BY ContentsIsSeq
<1>2. Count' = Count /\ \A i \in 0..(Count - 1) : Item(i)' = Item(i)
  BY LinearizeKeeps
<1>3. \A i \in 1..Count : Item(i - 1)' = Contents[i]
  BY <1>0, <1>1, <1>2
<1>4. QED BY <1>0, <1>1, <1>2, <1>3, PrimedContents, SizeAssumption DEF Linearize

-----------------------------------------------------------------------------
(* Theorems                                                                *)

(* TypeOK is inductive once the items of the Write() under way are known   *)
(* to fit under the bound on the items offered.                            *)
FifoInv == TypeOK /\ (writing # Null => sent + writing <= MaxItems)

(* The strengthened invariant holds.                                       *)
LEMMA FifoInvHolds == Spec => []FifoInv
<1>1. Init => FifoInv
  BY SizeAssumption, FiberAssumption, ItemsAssumption
     DEF Init, FifoInv, TypeOK, Fibers, Slots
<1>2. FifoInv /\ [Next]_vars => FifoInv'
  <2> SUFFICES ASSUME FifoInv, [Next]_vars PROVE FifoInv'
    OBVIOUS
  <2>0. InBounds /\ Count \in 0..N_ITEMS /\ Space = N_ITEMS - Count
    <3>1. InBounds BY DEF FifoInv, TypeOK, InBounds
    <3>2. QED BY <3>1, CountSpace
  <2>1. ASSUME NEW n \in 1..(N_ITEMS + 1), Write(n)
        PROVE  FifoInv'
    BY <2>1, SizeAssumption DEF FifoInv, TypeOK, Write, ring, ends, sched
  <2>2. CASE WriteTurn
    <3>1. CASE /\ writing > 0 /\ Space > 0
               /\ LET w == Lesser(Space, writing)
                  IN  /\ Put(w)
                      /\ writing' = writing - w
                      /\ IF writing > w /\ Coupled /\ Consumer \in alive
                         THEN SwitchTo(Consumer) ELSE UNCHANGED sched
      <4> DEFINE w == Lesser(Space, writing)
      <4>1. writing \in 1..(N_ITEMS + 1) /\ sent + writing <= MaxItems
        BY <2>2, <3>1, SizeAssumption DEF FifoInv, TypeOK, WriteTurn
      <4>2. w \in 1..Space /\ w <= writing
        BY <2>0, <3>1, <4>1, SizeAssumption DEF Lesser
      <4>3. Put(w) /\ writing' = writing - w
        BY <3>1
      <4>4. sent + w <= MaxItems
        <5> HIDE DEF w
        <5>1. w \in Int /\ sent \in Int /\ MaxItems \in Int /\ writing \in Int
          BY <4>1, <4>2, <2>0, SizeAssumption, ItemsAssumption DEF InBounds
        <5>2. QED BY <4>1, <4>2, <5>1
      <4>5. UNCHANGED sched \/ (Consumer \in alive /\ SwitchTo(Consumer))
        BY <3>1
      <4> HIDE DEF w
      <4>6. InBounds' /\ sent' = sent + w
        BY <2>0, <4>2, <4>3, <4>4, PutAppends DEF Put
      <4>7. /\ writing' \in 0..(N_ITEMS + 1)
            /\ sent' + writing' <= MaxItems
        BY <4>1, <4>2, <4>3, <4>6, <2>0, SizeAssumption DEF InBounds
      <4>8. running' \in alive' \cup {Null} /\ alive' \subseteq Fibers /\ waiting' \subseteq Fibers
        BY <4>5 DEF FifoInv, TypeOK, sched, SwitchTo, Fibers
      <4>9. UNCHANGED <<ends, ensuring>>
        BY <2>2 DEF WriteTurn
      <4>10. QED BY <4>6, <4>7, <4>8, <4>9 DEF FifoInv, TypeOK, InBounds, ends
    <3>2. CASE writing' = Null /\ UNCHANGED <<ring, sched>>
      BY <2>2, <3>2 DEF FifoInv, TypeOK, WriteTurn, ring, sched, ends
    <3>3. QED BY <2>2, <3>1, <3>2 DEF WriteTurn
  <2>3. CASE CloseOutput
    BY <2>3 DEF FifoInv, TypeOK, CloseOutput, ring, sched
  <2>4. ASSUME NEW n \in 1..N_ITEMS, Ensure(n)
        PROVE  FifoInv'
    BY <2>4, SizeAssumption DEF FifoInv, TypeOK, Ensure, ring, ends, sched
  <2>5. ASSUME NEW n \in 1..N_ITEMS, Take(n)
        PROVE  FifoInv'
    <3>1. Shift(n) /\ UNCHANGED <<ends, sched, writing, ensuring>>
      BY <2>5 DEF Take
    <3>2. InBounds' /\ sent' = sent
      BY <2>0, <3>1, ShiftRemoves DEF Shift
    <3>3. QED BY <3>1, <3>2 DEF FifoInv, TypeOK, InBounds, ends, sched
  <2>6. CASE EnsureTurn
    <3>1. ensuring' \in [count : 1..N_ITEMS, before : -1..N_ITEMS]
      BY <2>0, <2>6, SizeAssumption DEF FifoInv, TypeOK, EnsureTurn
    <3>2. QED BY <2>6, <3>1
        DEF FifoInv, TypeOK, EnsureTurn, EnsureGoesOn, SwitchTo, Fibers, ring, ends
  <2>7. CASE EnsureReturns
    <3>1. Linearize \/ UNCHANGED ring
      BY <2>7 DEF EnsureReturns
    <3>2. InBounds' /\ sent' = sent
      BY <2>0, <3>1, LinearizeKeeps DEF Linearize, ring, InBounds
    <3>3. QED BY <2>7, <3>2 DEF FifoInv, TypeOK, EnsureReturns, InBounds, ends, sched
  <2>8. CASE CloseInput
    BY <2>8 DEF FifoInv, TypeOK, CloseInput, ring, sched
  <2>9. CASE GiveUp
    BY <2>9 DEF FifoInv, TypeOK, GiveUp, ring, ends
  <2>10. CASE Pick
    BY <2>10 DEF FifoInv, TypeOK, Pick, CanRun, SwitchTo, Fibers, ring, ends
  <2>11. CASE UNCHANGED vars
    BY <2>11 DEF FifoInv, TypeOK, vars, ring, ends, sched
  <2>12. QED BY <2>1, <2>2, <2>3, <2>4, <2>5, <2>6, <2>7, <2>8, <2>9, <2>10, <2>11
              DEF Next, ProducerCalls, ConsumerCalls
<1>3. QED BY <1>1, <1>2, PTL DEF Spec

(* The indices of TFifo stay inside the array in every interleaving of     *)
(* Write(), Ensure(), Shift() and the two Close calls.                     *)
THEOREM FifoTypesHold == Spec => []TypeOK
<1>1. FifoInv => TypeOK
  BY DEF FifoInv
<1>2. QED BY FifoInvHolds, <1>1, PTL

(* What passes through TFifo is what was written, in order, whatever the   *)
(* size of the ring and however the two fibers interleave: Write() only    *)
(* appends, Shift() only removes, and no other call touches the queue.     *)
THEOREM IsQueue == Spec => KeepsQueue
<1>1. Init => Queue!Init
  BY SizeAssumption DEF Init, Queue!Init, Contents, Count
<1>2. FifoInv /\ [Next]_vars => [Queue!Next]_(Queue!vars)
  <2> SUFFICES ASSUME FifoInv, [Next]_vars PROVE [Queue!Next]_(Queue!vars)
    OBVIOUS
  <2>0. InBounds /\ Count \in 0..N_ITEMS /\ Space = N_ITEMS - Count
    <3>1. InBounds BY DEF FifoInv, TypeOK, InBounds
    <3>2. QED BY <3>1, CountSpace
  <2>1. UNCHANGED ring => UNCHANGED (Queue!vars)
    BY DEF ring, Queue!vars, Contents, Count, Item
  <2>2. CASE WriteTurn
    <3>1. CASE /\ writing > 0 /\ Space > 0
               /\ Put(Lesser(Space, writing))
      <4> DEFINE w == Lesser(Space, writing)
      <4>1. writing \in 1..(N_ITEMS + 1) /\ sent + writing <= MaxItems
        BY <2>2, <3>1, SizeAssumption DEF FifoInv, TypeOK, WriteTurn
      <4>2. w \in 1..Space /\ w <= writing
        BY <2>0, <3>1, <4>1, SizeAssumption DEF Lesser
      <4>3. Put(w)
        BY <3>1
      <4> HIDE DEF w
      <4>4. w \in Int /\ sent \in Int /\ MaxItems \in Int /\ writing \in Int
        BY <4>1, <4>2, <2>0, SizeAssumption, ItemsAssumption DEF InBounds
      <4>5. sent + w <= MaxItems
        BY <4>1, <4>2, <4>4
      <4>6. QED BY <2>0, <4>2, <4>3, <4>5, PutIsPut DEF Queue!Next
    <3>2. CASE UNCHANGED ring
      BY <3>2, <2>1
    <3>3. QED BY <2>2, <3>1, <3>2 DEF WriteTurn
  <2>3. ASSUME NEW n \in 1..N_ITEMS, Take(n)
        PROVE  Queue!Next
    BY <2>0, <2>3, ShiftIsTake DEF Take, Queue!Next
  <2>4. CASE EnsureReturns
    BY <2>0, <2>1, <2>4, LinearizeKeepsContents DEF EnsureReturns, Queue!vars
  <2>5. CASE UNCHANGED ring
    BY <2>1, <2>5
  <2>6. QED
    BY <2>2, <2>3, <2>4, <2>5
       DEF Next, ProducerCalls, ConsumerCalls, Write, CloseOutput, Ensure, EnsureTurn,
           CloseInput, GiveUp, Pick, vars
<1>3. QED BY <1>1, <1>2, FifoInvHolds, PTL DEF Spec, KeepsQueue, Queue!Spec

(* When Ensure() returns and enough items are in the ring, that many of    *)
(* them are contiguous, so that its answer and Head() agree.               *)
THEOREM EnsureIsContiguous == Spec => EnsureContiguous
<1>1. FifoInv /\ [Next]_vars =>
        [ensuring # Null /\ ensuring' = Null /\ Count >= ensuring.count
          => HeadCount' >= ensuring.count]_vars
  <2> SUFFICES ASSUME FifoInv, Next, ensuring # Null, ensuring' = Null,
                      Count >= ensuring.count
               PROVE  HeadCount' >= ensuring.count
    BY DEF vars
  <2>0. InBounds /\ Count \in 0..N_ITEMS /\ ensuring.count \in 1..N_ITEMS
    <3>1. InBounds BY DEF FifoInv, TypeOK, InBounds
    <3>2. QED BY <3>1, CountSpace DEF FifoInv, TypeOK
  <2>1. ensuring.count \in 1..Count
    BY <2>0, SizeAssumption
  <2>2. CASE EnsureReturns
    <3>1. CASE HeadCount < Count
      <4>1. Linearize
        BY <2>1, <2>2, <3>1 DEF EnsureReturns
      <4>2. idx_read' = 0 /\ Count' = Count
        BY <2>0, <4>1, LinearizeKeeps
      <4>3. HeadCount' = Count
        BY <2>0, <4>2, SizeAssumption DEF HeadCount, Lesser
      <4>4. QED BY <4>3
    <3>2. CASE ~(HeadCount < Count)
      <4>1. HeadCount = Count
        BY <2>0, <3>2, SizeAssumption DEF HeadCount, Lesser, InBounds, Slots
      <4>2. UNCHANGED ring
        BY <2>2, <3>2 DEF EnsureReturns
      <4>3. HeadCount' = HeadCount
        BY <4>2 DEF HeadCount, Count, ring
      <4>4. QED BY <4>1, <4>3
    <3>3. QED BY <3>1, <3>2
  <2>3. CASE ~EnsureReturns
    <3>1. ensuring' = ensuring \/ (\E n \in 1..N_ITEMS : Ensure(n)) \/ EnsureTurn
      BY <2>3 DEF Next, ProducerCalls, ConsumerCalls, Write, WriteTurn, CloseOutput,
                  Take, CloseInput, GiveUp, Pick
    <3>2. CASE \E n \in 1..N_ITEMS : Ensure(n)
      BY <3>2 DEF Ensure, Free
    <3>3. CASE EnsureTurn
      BY <2>0, <3>3 DEF EnsureTurn, EnsureGoesOn
    <3>4. QED BY <3>1, <3>2, <3>3
  <2>4. QED BY <2>2, <2>3
<1>2. QED BY <1>1, FifoInvHolds, PTL DEF Spec, EnsureContiguous

(* A fiber that is both ends never waits for itself.                       *)
LoneNeverWaits == Producer = Consumer => waiting = {}

(* It is invariant.                                                        *)
LEMMA LoneNeverWaitsHolds == Spec => []LoneNeverWaits
<1>1. Init => LoneNeverWaits
  BY DEF Init, LoneNeverWaits
<1>2. LoneNeverWaits /\ [Next]_vars => LoneNeverWaits'
  BY DEF LoneNeverWaits, Next, ProducerCalls, ConsumerCalls, Write, WriteTurn, CloseOutput,
         Ensure, Take, EnsureTurn, EnsureReturns, CloseInput, GiveUp, Pick, SwitchTo,
         vars, sched
<1>3. QED BY <1>1, <1>2, PTL DEF Spec

(* The two fibers never wait for each other: the ring has an item or a     *)
(* free slot, and a side whose fiber closed it or is dead keeps nobody     *)
(* waiting.                                                                *)
THEOREM NoMutualWait == Spec => []SomeoneCanRun
<1>1. FifoInv /\ LoneNeverWaits => SomeoneCanRun
  <2> SUFFICES ASSUME FifoInv, LoneNeverWaits, running = Null, alive # {}
               PROVE  \E f \in Fibers : CanRun(f)
    BY DEF SomeoneCanRun
  <2>1. Count > 0 \/ Space > 0
    <3>1. InBounds BY DEF FifoInv, TypeOK, InBounds
    <3>2. Count \in 0..N_ITEMS /\ Space = N_ITEMS - Count
      BY <3>1, CountSpace
    <3>3. QED BY <3>2, SizeAssumption
  <2>2. /\ alive \subseteq Fibers
        /\ fib_producer \in {Producer, Null} /\ fib_consumer \in {Consumer, Null}
    BY DEF FifoInv, TypeOK
  <2>3. CASE Producer = Consumer
    BY <2>2, <2>3 DEF LoneNeverWaits, CanRun
  <2>4. CASE Producer # Consumer
    <3>1. CASE Count > 0
      BY <2>2, <2>4, <3>1 DEF CanRun, IsReady, InputReady, OutputReady, Fibers
    <3>2. CASE Space > 0
      BY <2>2, <2>4, <3>2 DEF CanRun, IsReady, InputReady, OutputReady, Fibers
    <3>3. QED BY <2>1, <3>1, <3>2
  <2>5. QED BY <2>3, <2>4
<1>2. QED BY <1>1, FifoInvHolds, LoneNeverWaitsHolds, PTL

-----------------------------------------------------------------------------
(* The overwriting ring buffer.  First, remainders                         *)

(* What the remainder and the quotient of a division are.                  *)
LEMMA Division ==
  ASSUME NEW n \in Nat \ {0}, NEW x \in Int
  PROVE  x % n \in 0..(n - 1) /\ x \div n \in Int /\ x = n * (x \div n) + (x % n)
<1>1. x % n \in 0..(n - 1)
  OBVIOUS
<1>2. x \div n \in Int
  OBVIOUS
<1>3. x = n * (x \div n) + (x % n)
  OBVIOUS
<1>4. QED
  BY <1>1, <1>2, <1>3

(* A number is a multiple of the divisor and a remainder, in one way.      *)
LEMMA RemainderUnique ==
  ASSUME NEW n \in Nat \ {0}, NEW q \in Int, NEW r \in 0..(n - 1)
  PROVE  (q * n + r) % n = r
<1> DEFINE x == q * n + r
<1>0. x \in Int
  OBVIOUS
<1>1. /\ x % n \in 0..(n - 1) /\ x \div n \in Int
      /\ x = n * (x \div n) + (x % n)
  BY <1>0, Division
<1> DEFINE d == (x \div n) - q
<1>2. d \in Int /\ d * n = r - (x % n)
  BY <1>1
<1>3. -n < d * n /\ d * n < n
  BY <1>1, <1>2
<1>4. ~(d >= 1) /\ ~(d <= -1)
  <2>1. ASSUME d >= 1 PROVE FALSE
    <3>1. d * n >= n
      BY <1>2, <2>1
    <3>2. QED
      BY <1>3, <3>1, <1>2
  <2>2. ASSUME d <= -1 PROVE FALSE
    <3>1. d * n <= -n
      BY <1>2, <2>2
    <3>2. QED
      BY <1>3, <3>1, <1>2
  <2>3. QED
    BY <2>1, <2>2
<1>5. d = 0
  BY <1>2, <1>4
<1>6. QED
  BY <1>1, <1>2, <1>5

(* What is less than twice the divisor wraps at most once.                 *)
LEMMA WrapsOnce ==
  ASSUME NEW n \in Nat \ {0}, NEW x \in 0..(2 * n - 1)
  PROVE  x % n = IF x < n THEN x ELSE x - n
<1>1. CASE x < n
  BY <1>1, RemainderUnique, 0 * n + x = x
<1>2. CASE x >= n
  <2>1. x - n \in 0..(n - 1) /\ 1 * n + (x - n) = x
    BY <1>2
  <2>2. QED
    BY <1>2, <2>1, RemainderUnique
<1>3. QED
  BY <1>1, <1>2

-----------------------------------------------------------------------------
(* Slots                                                                   *)

\* The slot k before slot s.
Behind(s, k) == IF k <= s THEN s - k ELSE s + Capacity - k

(* A reader that is k samples behind reads the slot k behind the writer's, *)
(* because the counter wraps where the slots do.                           *)
LEMMA SlotBehind ==
  ASSUME Positions % Capacity = 0, NEW p \in 0..(Positions - 1), NEW r \in 0..(Positions - 1),
         NEW k \in 1..Capacity, Distance(p, r) = k
  PROVE  Slot(r) = Behind(Slot(p), k)
<1> DEFINE m == Positions \div Capacity
           q == p \div Capacity
           s == p % Capacity
<1>1. m \in Int /\ q \in Int /\ s \in 0..(Capacity - 1)
      /\ Positions = Capacity * m /\ p = Capacity * q + s /\ Slot(p) = s
  BY PositionsAssumption, Division DEF Slot
<1> HIDE DEF m, q, s
<1>0. Positions \in Nat \ {0} /\ Capacity \in Nat \ {0} /\ p \in Int /\ p < Positions
  BY PositionsAssumption
<1>2. k = IF p < r THEN p + Positions - r ELSE p - r
  BY PositionsAssumption, WrapsOnce DEF Distance
<1>3. \E j \in Int : r = j * Capacity + s - k
  <2>1. CASE p < r
    <3>1. r = (q + m) * Capacity + s - k
      BY <1>1, <1>2, <2>1, PositionsAssumption
    <3>2. QED
      BY <1>1, <3>1
  <2>2. CASE ~(p < r)
    <3>1. r = q * Capacity + s - k
      BY <1>1, <1>2, <2>2, PositionsAssumption
    <3>2. QED
      BY <1>1, <3>1
  <2>3. QED
    BY <2>1, <2>2
<1>4. PICK j \in Int : r = j * Capacity + s - k
  BY <1>3
<1>5. CASE k <= s
  <2>1. s - k \in 0..(Capacity - 1) /\ r = j * Capacity + (s - k)
    BY <1>1, <1>4, <1>5, PositionsAssumption
  <2>2. (j * Capacity + (s - k)) % Capacity = s - k
    BY <1>0, <2>1, RemainderUnique
  <2>3. QED
    BY <1>1, <1>5, <2>1, <2>2 DEF Slot, Behind
<1>6. CASE k > s
  <2>1. s + Capacity - k \in 0..(Capacity - 1) /\ j - 1 \in Int /\ r = (j - 1) * Capacity + (s + Capacity - k)
    BY <1>1, <1>4, <1>6, PositionsAssumption
  <2>2. ((j - 1) * Capacity + (s + Capacity - k)) % Capacity = s + Capacity - k
    BY <1>0, <2>1, RemainderUnique
  <2>3. QED
    BY <1>1, <1>6, <2>1, <2>2 DEF Slot, Behind
<1>7. QED
  BY <1>1, <1>5, <1>6

(* The writer goes from slot to slot, and from the last one to the first.  *)
LEMMA SlotAfter ==
  ASSUME Positions % Capacity = 0, NEW p \in 0..(Positions - 1)
  PROVE  Slot((p + 1) % Positions) = IF Slot(p) + 1 = Capacity THEN 0 ELSE Slot(p) + 1
<1> DEFINE m == Positions \div Capacity
           q == p \div Capacity
           s == p % Capacity
<1>1. m \in Int /\ q \in Int /\ s \in 0..(Capacity - 1)
      /\ Positions = Capacity * m /\ p = Capacity * q + s /\ Slot(p) = s
  BY PositionsAssumption, Division DEF Slot
<1> HIDE DEF m, q, s
<1>0. Positions \in Nat \ {0} /\ Capacity \in Nat \ {0} /\ p \in Int /\ p < Positions
  BY PositionsAssumption
<1>2. (p + 1) % Capacity = IF s + 1 = Capacity THEN 0 ELSE s + 1
  <2>1. CASE s + 1 = Capacity
    <3>1. p + 1 \in Int /\ q + 1 \in Int /\ p + 1 = (q + 1) * Capacity + 0 /\ 0 \in 0..(Capacity - 1)
      BY <1>1, <2>1, PositionsAssumption
    <3>2. QED
      BY <1>0, <1>1, <2>1, <3>1, RemainderUnique
  <2>2. CASE s + 1 # Capacity
    <3>1. p + 1 \in Int /\ p + 1 = q * Capacity + (s + 1) /\ s + 1 \in 0..(Capacity - 1)
      BY <1>1, <2>2, PositionsAssumption
    <3>2. QED
      BY <1>0, <1>1, <2>2, <3>1, RemainderUnique
  <2>3. QED
    BY <2>1, <2>2
<1>3. CASE p + 1 < Positions
  <2>1. (p + 1) % Positions = p + 1
    BY <1>0, <1>3, p + 1 \in 0..(2 * Positions - 1), WrapsOnce
  <2>2. QED
    BY <1>1, <1>2, <2>1 DEF Slot
<1>4. CASE p + 1 = Positions
  <2>1. (p + 1) % Positions = 0
    BY <1>0, <1>4, p + 1 \in 0..(2 * Positions - 1), WrapsOnce
  <2>2. 0 % Capacity = 0
    BY <1>0, 0 \in 0..(2 * Capacity - 1), WrapsOnce
  <2>3. s + 1 = Capacity
    BY <1>1, <1>2, <1>4
  <2>4. QED
    BY <1>1, <2>1, <2>2, <2>3 DEF Slot
<1>5. QED
  BY <1>3, <1>4, PositionsAssumption

-----------------------------------------------------------------------------
(* The invariant                                                           *)

Positioned == 0..(Positions - 1)
Copies == UNION {[1..n -> 0..MaxWrites] : n \in 0..2}

(* Each variable in its range.                                             *)
Shapes ==
  /\ write_position \in [pos : Positioned, busy : BOOLEAN]
  /\ items \in [0..(Capacity - 1) -> [Words -> 0..MaxWrites]]
  /\ pending \in {Nothing} \cup SUBSET Stores
  /\ copy \in [Readers -> {Nothing} \cup Copies]
  /\ read_position \in [Readers -> Positioned]
  /\ before \in [Readers -> [pos : Positioned, busy : {FALSE}]]
  /\ written \in 0..MaxWrites /\ next \in [Readers -> 0..MaxWrites]
  /\ pending # Nothing => written < MaxWrites

(* No reader is a whole turn of the counter behind, and none is ahead.     *)
InTurn ==
  \A r \in Readers :
    /\ next[r] <= written /\ written - next[r] < Positions
    /\ pending # Nothing => written - next[r] < Positions - 1

(* Who copies had something to read.                                       *)
ReadsOn ==
  \A r \in Readers : copy[r] # Nothing => before[r].pos # read_position[r]

CountInv == Shapes /\ InTurn /\ ReadsOn /\ PositionsAgree

(* How far the stores of a sample are: WRITE_BUSY is seen first.           *)
Here == Slot(write_position.pos)
StoresInv ==
  /\ pending \in {Nothing, {WriteBusy, 1, 2}, {1, 2}, {2}, {}}
  /\ write_position.busy <=> pending \in {{1, 2}, {2}, {}}
  /\ pending \in {{2}, {}} => items[Here][1] = written
  /\ pending = {} => items[Here][2] = written

(* The last Capacity samples are in the slots behind the writer, but the   *)
(* oldest one may be half overwritten while the writer is busy.            *)
SlotsInv ==
  \A k \in 1..Capacity :
    k <= written /\ (k = Capacity => ~write_position.busy) =>
      \A w \in Words : items[Behind(Here, k)][w] = written - k

(* What a reader has copied is good as long as the counter is where it was *)
(* when the reader began.                                                  *)
Behindhand(r) == Distance(before[r].pos, read_position[r])
CopyInv ==
  \A r \in Readers : copy[r] # Nothing =>
    /\ Behindhand(r) \in 1..Capacity
    /\ next[r] + Behindhand(r) <= written
    /\ next[r] + Behindhand(r) = written /\ ~write_position.busy =>
         \A w \in Copied(r) : copy[r][w] = next[r]

StreamInv == CountInv /\ StoresInv /\ SlotsInv /\ CopyInv

(* Distances on the counter, and steps along it.                           *)
Along(p, d) == (p + d) % Positions

(* On the counter a distance or a step wraps at most once.                 *)
LEMMA DistanceIs ==
  ASSUME NEW p \in Positioned, NEW r \in Positioned
  PROVE  Distance(p, r) = IF p < r THEN p + Positions - r ELSE p - r
  BY PositionsAssumption DEF Distance, Positioned

(* A step of at most one whole turn stays on the counter.                  *)
LEMMA AlongIs ==
  ASSUME NEW p \in Positioned, NEW d \in 0..Positions
  PROVE  /\ Along(p, d) = IF p + d < Positions THEN p + d ELSE p + d - Positions
         /\ Along(p, d) \in Positioned
  BY PositionsAssumption DEF Along, Positioned

(* Every position has a slot.                                              *)
LEMMA SlotIs == ASSUME NEW p \in Positioned PROVE Slot(p) \in 0..(Capacity - 1)
  BY PositionsAssumption DEF Slot, Positioned

(* What the assumption on the sizes says to a proof that leaves % folded.  *)
LEMMA Sizes == Positions \in Nat \ {0} /\ Capacity \in Nat \ {0} /\ 2 * Capacity < Positions
  BY PositionsAssumption

(* A distance is less than one turn, and 0 only between equal positions.   *)
LEMMA DistanceRange ==
  ASSUME NEW p \in Positioned, NEW q \in Positioned
  PROVE  Distance(p, q) \in 0..(Positions - 1) /\ (Distance(p, q) = 0 <=> p = q)
<1>1. Distance(p, q) = IF p < q THEN p + Positions - q ELSE p - q
  BY DistanceIs
<1>2. QED
  BY <1>1, Sizes DEF Positioned

(* The writer goes ahead; a reader comes nearer.                           *)
LEMMA DistanceGrows ==
  ASSUME NEW p \in Positioned, NEW q \in Positioned, Distance(p, q) < Positions - 1
  PROVE  Along(p, 1) \in Positioned /\ Distance(Along(p, 1), q) = Distance(p, q) + 1
<1>1. 1 \in 0..Positions
  BY Sizes
<1> DEFINE n == Along(p, 1)
<1>2. n \in Positioned /\ n = IF p + 1 < Positions THEN p + 1 ELSE p + 1 - Positions
  BY <1>1, AlongIs
<1> HIDE DEF n
<1>3. /\ Distance(p, q) = IF p < q THEN p + Positions - q ELSE p - q
      /\ Distance(n, q) = IF n < q THEN n + Positions - q ELSE n - q
  BY <1>2, DistanceIs
<1>4. n \in Positioned /\ Distance(n, q) = Distance(p, q) + 1
  BY <1>2, <1>3, Sizes DEF Positioned
<1>5. QED
  BY <1>4 DEF n

(* A reader that goes on by d comes nearer by d.                           *)
LEMMA DistanceShrinks ==
  ASSUME NEW p \in Positioned, NEW q \in Positioned, NEW d \in 0..Positions, d <= Distance(p, q)
  PROVE  Along(q, d) \in Positioned /\ Distance(p, Along(q, d)) = Distance(p, q) - d
<1> DEFINE n == Along(q, d)
<1>2. n \in Positioned /\ n = IF q + d < Positions THEN q + d ELSE q + d - Positions
  BY AlongIs
<1> HIDE DEF n
<1>3. /\ Distance(p, q) = IF p < q THEN p + Positions - q ELSE p - q
      /\ Distance(p, n) = IF p < n THEN p + Positions - n ELSE p - n
  BY <1>2, DistanceIs
<1>4. n \in Positioned /\ Distance(p, n) = Distance(p, q) - d
  BY <1>2, <1>3, Sizes DEF Positioned
<1>5. QED
  BY <1>4 DEF n

(* HandleOverrun leaves a reader that is within Capacity where it is, and  *)
(* takes another to Capacity behind the writer.                            *)
LEMMA OverrunSkips ==
  ASSUME CountInv, NEW r \in Readers, HandleOverrun(r)
  PROVE  /\ read_position' = [read_position EXCEPT ![r] = read_position'[r]]
         /\ read_position' \in [Readers -> Positioned] /\ next' \in [Readers -> 0..MaxWrites]
         /\ \A s \in Readers \ {r} : read_position'[s] = read_position[s] /\ next'[s] = next[s]
         /\ next'[r] = IF next[r] + Capacity < written THEN written - Capacity ELSE next[r]
         /\ next' = [next EXCEPT ![r] = next'[r]]
         /\ Distance(write_position.pos, read_position'[r]) = written - next'[r]
<1> DEFINE p == write_position.pos
           q == read_position[r]
           D == Distance(p, q)
           O == Overrun(r)
<1>1. p \in Positioned /\ q \in Positioned /\ written \in Nat /\ next[r] \in Nat /\ next[r] <= written /\ written <= MaxWrites
  BY WritesAssumption DEF CountInv, Shapes, InTurn
<1>2. D = written - next[r] /\ D \in 0..(Positions - 1)
  BY <1>1, Sizes DEF CountInv, InTurn, PositionsAgree
<1>3. O = (IF D <= Capacity THEN 0 ELSE D - Capacity) /\ O \in 0..Positions /\ O <= D
  BY <1>2, Sizes DEF Overrun
<1>4. read_position' = [read_position EXCEPT ![r] = Along(q, O)] /\ next' = [next EXCEPT ![r] = next[r] + O]
  BY DEF HandleOverrun, Along
<1>5. Along(q, O) \in Positioned /\ Distance(p, Along(q, O)) = D - O
  BY <1>1, <1>3, DistanceShrinks
<1>7. next'[r] = next[r] + O /\ read_position'[r] = Along(q, O)
  BY <1>4 DEF CountInv, Shapes
<1>8. next'[r] = (IF next[r] + Capacity < written THEN written - Capacity ELSE next[r]) /\ next'[r] \in 0..MaxWrites
  BY <1>1, <1>2, <1>3, <1>7, Sizes, WritesAssumption
<1>9. written - next'[r] = D - O
  BY <1>1, <1>2, <1>3, <1>7
<1>10. QED
  BY <1>4, <1>5, <1>7, <1>8, <1>9 DEF CountInv, Shapes

(* What follows from OverrunSkips for the invariant of the counters.       *)
LEMMA OverrunKeeps ==
  ASSUME CountInv, NEW r \in Readers, HandleOverrun(r), UNCHANGED <<write_position, pending, written>>
  PROVE  InTurn' /\ PositionsAgree'
<1>1. /\ \A s \in Readers \ {r} : read_position'[s] = read_position[s] /\ next'[s] = next[s]
      /\ next'[r] = IF next[r] + Capacity < written THEN written - Capacity ELSE next[r]
      /\ Distance(write_position.pos, read_position'[r]) = written - next'[r]
  BY OverrunSkips
<1>2. /\ next \in [Readers -> Nat] /\ written \in Nat /\ pending' = pending /\ written' = written
      /\ InTurn /\ PositionsAgree /\ write_position' = write_position
  BY WritesAssumption DEF CountInv, Shapes
<1>3. InTurn'
  <2>1. \A s \in Readers \ {r} : next'[s] <= written /\ written - next'[s] < Positions
                                   /\ (pending # Nothing => written - next'[s] < Positions - 1)
    BY <1>1, <1>2 DEF InTurn
  <2>2. next'[r] <= written /\ written - next'[r] < Positions
        /\ (pending # Nothing => written - next'[r] < Positions - 1)
    BY <1>1, <1>2, Sizes DEF InTurn
  <2>3. QED
    BY <1>2, <2>1, <2>2 DEF InTurn
<1>4. PositionsAgree'
  BY <1>1, <1>2 DEF PositionsAgree
<1>5. QED
  BY <1>3, <1>4

(* Each step of the ring keeps the ranges.                                 *)
LEMMA ShapesKept ==
  ASSUME CountInv, RingNext
  PROVE  Shapes'
<1> USE WritesAssumption DEF CountInv, Shapes
<1>1. ASSUME WriteSample PROVE Shapes'
  BY <1>1 DEF WriteSample, Stores, Words
<1>2. ASSUME NEW s \in Stores, Store(s) PROVE Shapes'
  <2>1. pending' \in SUBSET Stores /\ pending # Nothing
    BY <1>2 DEF Store
  <2>2. write_position' \in [pos : Positioned, busy : BOOLEAN]
    BY <1>2 DEF Store
  <2>3. items' \in [0..(Capacity - 1) -> [Words -> 0..MaxWrites]]
    <3> DEFINE h == Slot(write_position.pos)
    <3> HIDE DEF h
    <3>1. CASE s \in Words /\ items' = [items EXCEPT ![h][s] = written]
      BY <3>1
    <3>2. CASE UNCHANGED items
      BY <3>2
    <3>3. QED
      BY <1>2, <3>1, <3>2 DEF Store, h
  <2>4. QED
    BY <1>2, <2>1, <2>2, <2>3 DEF Store
<1>3. ASSUME Publish PROVE Shapes'
  <2>1. pending # Nothing /\ 1 \in 0..Positions /\ write_position.pos \in Positioned
    BY <1>3, NothingAssumption, Sizes DEF Publish
  <2>2. write_position' = [pos |-> Along(write_position.pos, 1), busy |-> FALSE]
    BY <1>3 DEF Publish, Along
  <2>3. write_position' \in [pos : Positioned, busy : BOOLEAN]
    BY <2>1, <2>2, AlongIs
  <2>4. written' \in 0..MaxWrites
    BY <1>3, <2>1 DEF Publish
  <2>5. QED
    BY <1>3, <2>3, <2>4 DEF Publish
<1>4. ASSUME NEW r \in Readers, Reader(r) PROVE Shapes'
  BY <1>4 DEF Reader
<1>5. ASSUME NEW r \in Readers, BeginRead(r) PROVE Shapes'
  <2>1. read_position' \in [Readers -> Positioned] /\ next' \in [Readers -> 0..MaxWrites]
    BY <1>5, OverrunSkips DEF BeginRead
  <2>2. before' \in [Readers -> [pos : Positioned, busy : {FALSE}]]
    <3>1. write_position \in [pos : Positioned, busy : {FALSE}]
      BY <1>5 DEF BeginRead
    <3>2. QED
      BY <1>5, <3>1 DEF BeginRead
  <2>3. copy' \in [Readers -> {Nothing} \cup Copies]
    <3>1. <<>> \in Copies
      BY DEF Copies
    <3>2. QED
      BY <1>5, <3>1 DEF BeginRead
  <2>4. QED
    BY <1>5, <2>1, <2>2, <2>3 DEF BeginRead
<1>6. ASSUME NEW r \in Readers, Copy(r) PROVE Shapes'
  <2>1. PICK w \in Words : /\ Copied(r) = 1..(w - 1)
                           /\ copy' = [copy EXCEPT ![r] =
                                [v \in 1..w |-> IF v = w THEN items[Slot(read_position[r])][w] ELSE @[v]]]
    BY <1>6 DEF Copy
  <2>2. items[Slot(read_position[r])][w] \in 0..MaxWrites
    BY SlotIs
  <2>3. \A v \in 1..(w - 1) : copy[r][v] \in 0..MaxWrites
    <3>1. PICK n \in 0..2 : copy[r] \in [1..n -> 0..MaxWrites]
      BY <1>6 DEF Copy, Copies
    <3>2. QED
      BY <2>1, <3>1 DEF Copied
  <2>4. copy'[r] \in [1..w -> 0..MaxWrites]
    BY <2>1, <2>2, <2>3 DEF Words
  <2>5. copy'[r] \in Copies
    <3>1. w \in 0..2
      BY DEF Words
    <3>2. QED
      BY <2>4, <3>1 DEF Copies
  <2>6. QED
    BY <1>6, <2>1, <2>5 DEF Copy
<1>7. ASSUME NEW r \in Readers, Check(r) PROVE Shapes'
  <2>1. CASE /\ Valid(r)
             /\ read_position' = [read_position EXCEPT ![r] = (@ + 1) % Positions]
             /\ next' = [next EXCEPT ![r] = @ + 1]
    <3>1. copy[r] # Nothing
      BY <1>7 DEF Check
    <3>2. next[r] < written
      BY <2>1, <3>1, DistanceRange DEF Valid, ReadsOn, InTurn, PositionsAgree
    <3>3. 1 \in 0..Positions
      BY Sizes
    <3>4. Along(read_position[r], 1) \in Positioned
      BY <3>3, AlongIs
    <3>5. read_position' = [read_position EXCEPT ![r] = Along(read_position[r], 1)]
      BY <2>1 DEF Along
    <3>6. read_position' \in [Readers -> Positioned] /\ next' \in [Readers -> 0..MaxWrites]
      BY <2>1, <3>2, <3>4, <3>5
    <3>7. QED
      BY <1>7, <3>6 DEF Check
  <2>2. CASE HandleOverrun(r)
    <3>1. read_position' \in [Readers -> Positioned] /\ next' \in [Readers -> 0..MaxWrites]
      BY <2>2, OverrunSkips
    <3>2. QED
      BY <1>7, <3>1 DEF Check
  <2>3. CASE UNCHANGED <<read_position, next>>
    BY <1>7, <2>3 DEF Check
  <2>4. QED
    BY <1>7, <2>1, <2>2, <2>3 DEF Check
<1>8. QED
  BY <1>1, <1>2, <1>3, <1>4, <1>5, <1>6, <1>7 DEF RingNext

(* Each step keeps the positions in accord with the counts, and readers    *)
(* behind the writer by less than a turn.                                  *)
LEMMA AgreeKept ==
  ASSUME CountInv, RingNext
  PROVE  InTurn' /\ PositionsAgree'
<1>0. /\ next \in [Readers -> Nat] /\ written \in Nat /\ write_position.pos \in Positioned
      /\ read_position \in [Readers -> Positioned]
  BY WritesAssumption DEF CountInv, Shapes
<1>1. ASSUME WriteSample PROVE InTurn' /\ PositionsAgree'
  BY <1>0, <1>1 DEF WriteSample, Horizon, CountInv, InTurn, PositionsAgree
<1>2. ASSUME NEW s \in Stores, Store(s) PROVE InTurn' /\ PositionsAgree'
  <2>1. pending # Nothing /\ write_position'.pos = write_position.pos
        /\ UNCHANGED <<read_position, next, written>>
    BY <1>2 DEF Store, CountInv, Shapes
  <2>2. QED
    BY <2>1 DEF CountInv, InTurn, PositionsAgree
<1>3. ASSUME Publish PROVE InTurn' /\ PositionsAgree'
  <2>1. /\ pending # Nothing /\ pending' = Nothing /\ written' = written + 1
        /\ write_position'.pos = Along(write_position.pos, 1) /\ UNCHANGED <<read_position, next>>
    BY <1>3, NothingAssumption DEF Publish, Along
  <2>2. \A r \in Readers : next[r] <= written /\ written - next[r] < Positions - 1
    BY <2>1 DEF CountInv, InTurn
  <2>3. InTurn'
    BY <1>0, <2>1, <2>2, Sizes DEF InTurn
  <2>4. ASSUME NEW r \in Readers PROVE Distance(write_position'.pos, read_position'[r]) = written' - next'[r]
    <3>1. Distance(write_position.pos, read_position[r]) = written - next[r]
      BY DEF CountInv, PositionsAgree
    <3>2. Distance(Along(write_position.pos, 1), read_position[r]) = written - next[r] + 1
      BY <1>0, <2>2, <3>1, DistanceGrows
    <3>3. QED
      BY <1>0, <2>1, <3>2
  <2>5. QED
    BY <2>3, <2>4 DEF PositionsAgree
<1>4. ASSUME NEW r \in Readers, Reader(r) PROVE InTurn' /\ PositionsAgree'
  <2>1. Distance(write_position.pos, write_position.pos) = 0
    BY <1>0, DistanceRange
  <2>2. QED
    BY <1>0, <1>4, <2>1, Sizes DEF Reader, CountInv, InTurn, PositionsAgree
<1>5. ASSUME NEW r \in Readers, BeginRead(r) PROVE InTurn' /\ PositionsAgree'
  BY <1>5, OverrunKeeps DEF BeginRead
<1>6. ASSUME NEW r \in Readers, Copy(r) PROVE InTurn' /\ PositionsAgree'
  BY <1>6 DEF Copy, CountInv, InTurn, PositionsAgree
<1>7. ASSUME NEW r \in Readers, Check(r) PROVE InTurn' /\ PositionsAgree'
  <2>1. CASE /\ Valid(r)
             /\ read_position' = [read_position EXCEPT ![r] = (@ + 1) % Positions]
             /\ next' = [next EXCEPT ![r] = @ + 1]
    <3> DEFINE p == write_position.pos
               q == read_position[r]
    <3>1. p # q /\ p \in Positioned /\ q \in Positioned /\ Distance(p, q) = written - next[r]
      BY <1>0, <1>7, <2>1 DEF Valid, Check, CountInv, ReadsOn, PositionsAgree
    <3>2. 1 \in 0..Positions /\ 1 <= Distance(p, q)
      BY <3>1, DistanceRange, Sizes
    <3>3. Distance(p, Along(q, 1)) = Distance(p, q) - 1
      BY <3>1, <3>2, DistanceShrinks
    <3>4. /\ read_position'[r] = Along(q, 1) /\ next'[r] = next[r] + 1
          /\ \A s \in Readers \ {r} : read_position'[s] = read_position[s] /\ next'[s] = next[s]
          /\ UNCHANGED <<write_position, pending, written>>
      BY <1>0, <1>7, <2>1 DEF Along, Check
    <3>5. Distance(p, read_position'[r]) = written - next'[r] /\ next'[r] <= written
          /\ written - next'[r] < written - next[r]
      BY <1>0, <3>1, <3>2, <3>3, <3>4
    <3>6. PositionsAgree'
      BY <3>4, <3>5 DEF CountInv, PositionsAgree
    <3>7. InTurn'
      BY <1>0, <3>4, <3>5, Sizes DEF CountInv, InTurn
    <3>8. QED
      BY <3>6, <3>7
  <2>2. CASE HandleOverrun(r)
    BY <1>7, <2>2, OverrunKeeps DEF Check
  <2>3. CASE UNCHANGED <<read_position, next>>
    BY <1>7, <2>3 DEF Check, CountInv, InTurn, PositionsAgree
  <2>4. QED
    BY <1>7, <2>1, <2>2, <2>3 DEF Check
<1>8. QED
  BY <1>1, <1>2, <1>3, <1>4, <1>5, <1>6, <1>7 DEF RingNext

(* A reader that copies has something to read, also after each step.       *)
LEMMA ReadsOnKept ==
  ASSUME CountInv, RingNext
  PROVE  ReadsOn'
<1> USE DEF CountInv, ReadsOn
<1>1. ASSUME WriteSample PROVE ReadsOn'
  BY <1>1 DEF WriteSample
<1>2. ASSUME NEW s \in Stores, Store(s) PROVE ReadsOn'
  BY <1>2 DEF Store
<1>3. ASSUME Publish PROVE ReadsOn'
  BY <1>3 DEF Publish
<1>4. ASSUME NEW r \in Readers, Reader(r) PROVE ReadsOn'
  BY <1>4 DEF Reader, Shapes
<1>5. ASSUME NEW r \in Readers, BeginRead(r) PROVE ReadsOn'
  BY <1>5, OverrunSkips DEF BeginRead, Shapes
<1>6. ASSUME NEW r \in Readers, Copy(r) PROVE ReadsOn'
  BY <1>6 DEF Copy, Shapes
<1>7. ASSUME NEW r \in Readers, Check(r) PROVE ReadsOn'
  <2>1. copy'[r] = Nothing /\ \A s \in Readers \ {r} : copy'[s] = copy[s] /\ read_position'[s] = read_position[s]
    BY <1>7, OverrunSkips DEF Check, Shapes
  <2>2. before' = before
    BY <1>7 DEF Check
  <2>3. QED
    BY <2>1, <2>2
<1>8. QED
  BY <1>1, <1>2, <1>3, <1>4, <1>5, <1>6, <1>7 DEF RingNext

(* The positions of the ring agree with what was written and read.         *)
LEMMA CountInvAlways == RingSpec => []CountInv
<1>1. RingInit => CountInv
  <2> SUFFICES ASSUME RingInit PROVE CountInv
    OBVIOUS
  <2>1. 0 \in Positioned /\ 0 \in 0..MaxWrites /\ Distance(0, 0) = 0
    BY Sizes, WritesAssumption, DistanceRange DEF Positioned
  <2>2. <<0, 0>> \in [Words -> 0..MaxWrites]
    BY <2>1 DEF Words
  <2>3. Shapes
    BY <2>1, <2>2 DEF RingInit, Shapes
  <2>4. InTurn /\ ReadsOn /\ PositionsAgree
    BY <2>1, Sizes DEF RingInit, InTurn, ReadsOn, PositionsAgree
  <2>5. QED
    BY <2>3, <2>4 DEF CountInv
<1>2. CountInv /\ [RingNext]_ringVars => CountInv'
  <2>1. ASSUME CountInv, UNCHANGED ringVars PROVE CountInv'
    BY <2>1 DEF ringVars, CountInv, Shapes, InTurn, ReadsOn, PositionsAgree
  <2>2. ASSUME CountInv, RingNext PROVE CountInv'
    BY <2>2, ShapesKept, AgreeKept, ReadsOnKept DEF CountInv
  <2>3. QED
    BY <2>1, <2>2
<1>3. QED
  BY <1>1, <1>2, PTL DEF RingSpec

(* Positions, words and counts stay in their ranges: no reader copies more *)
(* than a sample or validates against a busy counter.                      *)
THEOREM RingTypesHold == RingSpec => []RingTypeOK
<1>1. CountInv => RingTypeOK
  BY DEF CountInv, Shapes, RingTypeOK, Positioned, Copies
<1>2. QED
  BY <1>1, CountInvAlways, PTL

(* For every capacity, even one that does not divide the number of         *)
(* positions, and whatever order stores become visible in: the masked      *)
(* counters tell how many samples a reader is behind.                      *)
THEOREM PositionsStayInAccord == RingSpec => []PositionsAgree
<1>1. CountInv => PositionsAgree
  BY DEF CountInv
<1>2. QED
  BY <1>1, CountInvAlways, PTL

-----------------------------------------------------------------------------
(* The stream of samples                                                   *)

(* Stores become visible in program order, busy first.                     *)
LEMMA StoresKept ==
  ASSUME StoreOrder = "program", StreamInv, RingNext
  PROVE  StoresInv'
<1> USE DEF StoresInv, Here
<1>1. ASSUME WriteSample PROVE StoresInv'
  <2>1. pending' = {WriteBusy, 1, 2} /\ write_position' = write_position
    BY <1>1 DEF WriteSample, Stores, Words
  <2>2. pending' # {1, 2} /\ pending' # {2} /\ pending' # {}
    BY <2>1 DEF WriteBusy
  <2>3. ~write_position.busy
    <3>1. \A S \in {{1, 2}, {2}, {}} : Nothing # S
      BY NothingAssumption
    <3>2. QED
      BY <1>1, <3>1 DEF WriteSample, StreamInv
  <2>4. QED
    BY <2>1, <2>2, <2>3
<1>2. ASSUME NEW s \in Stores, Store(s) PROVE StoresInv'
  <2>1. pending \in {{WriteBusy, 1, 2}, {1, 2}, {2}} /\ s \in pending /\ \A t \in pending : s <= t
    BY <1>2 DEF Store, MayStore, StreamInv
  <2>2. /\ pending = {WriteBusy, 1, 2} => s = WriteBusy
        /\ pending = {1, 2} => s = 1
        /\ pending = {2} => s = 2
    BY <2>1 DEF WriteBusy
  <2>3. pending' = pending \ {s} /\ written' = written /\ write_position'.pos = write_position.pos
        /\ (s = WriteBusy => write_position'.busy) /\ (s # WriteBusy => write_position' = write_position)
    <3>1. write_position \in [pos : Positioned, busy : BOOLEAN]
      BY DEF StreamInv, CountInv, Shapes
    <3>2. QED
      BY <1>2, <3>1 DEF Store, Words, WriteBusy
  <2>4. s \in Words => items' = [items EXCEPT ![Here][s] = written]
    BY <1>2 DEF Store, Words, WriteBusy
  <2>5. items \in [0..(Capacity - 1) -> [Words -> 0..MaxWrites]] /\ Here \in 0..(Capacity - 1)
    BY SlotIs DEF StreamInv, CountInv, Shapes
  <2>6. CASE pending = {WriteBusy, 1, 2}
    <3>1. pending' = {1, 2} /\ pending' # {2} /\ pending' # {}
      BY <2>2, <2>3, <2>6 DEF WriteBusy
    <3>2. write_position'.busy
      BY <2>2, <2>3, <2>6
    <3>3. QED
      BY <3>1, <3>2
  <2>7. CASE pending = {1, 2}
    <3>1. pending' = {2} /\ items'[Here][1] = written /\ write_position.busy
      BY <2>2, <2>3, <2>4, <2>5, <2>7 DEF Words, StreamInv
    <3>2. QED
      BY <2>3, <3>1
  <2>8. CASE pending = {2}
    <3>1. pending' = {} /\ items'[Here][1] = written /\ items'[Here][2] = written /\ write_position.busy
      BY <2>2, <2>3, <2>4, <2>5, <2>8 DEF Words, StreamInv
    <3>2. QED
      BY <2>3, <3>1
  <2>9. QED
    BY <2>1, <2>6, <2>7, <2>8
<1>3. ASSUME Publish PROVE StoresInv'
  <2>1. pending' = Nothing /\ ~write_position'.busy
    BY <1>3 DEF Publish
  <2>2. \A S \in {{1, 2}, {2}, {}} : Nothing # S
    BY NothingAssumption
  <2>3. QED
    BY <2>1, <2>2
<1>4. ASSUME NEW r \in Readers, Reader(r) \/ BeginRead(r) \/ Copy(r) \/ Check(r) PROVE StoresInv'
  BY <1>4 DEF Reader, BeginRead, Copy, Check, StreamInv
<1>5. QED
  BY <1>1, <1>2, <1>3, <1>4 DEF RingNext

(* The last Capacity samples keep their slots.                             *)
LEMMA SlotsKept ==
  ASSUME Positions % Capacity = 0, StoreOrder = "program", StreamInv, RingNext
  PROVE  SlotsInv'
<1>0. Here \in 0..(Capacity - 1) /\ Capacity \in Nat \ {0} /\ written \in Nat
      /\ items \in [0..(Capacity - 1) -> [Words -> 0..MaxWrites]]
  BY SlotIs, Sizes, WritesAssumption DEF Here, StreamInv, CountInv, Shapes
<1>1. ASSUME WriteSample PROVE SlotsInv'
  BY <1>1 DEF WriteSample, StreamInv, SlotsInv, Here
<1>2. ASSUME NEW s \in Stores, Store(s) PROVE SlotsInv'
  <2>1. Here' = Here /\ written' = written /\ (write_position.busy => write_position'.busy)
    BY <1>2 DEF Store, Here, StreamInv, CountInv, Shapes
  <2>2. CASE s \in Words
    <3>1. write_position.busy
      <4>1. pending # {WriteBusy, 1, 2}
        BY <1>2, <2>2 DEF Store, MayStore, Words, WriteBusy
      <4>2. pending \in {{1, 2}, {2}, {}}
        BY <1>2, <4>1 DEF Store, StreamInv, StoresInv
      <4>3. QED
        BY <4>2 DEF StreamInv, StoresInv
    <3>2. items' = [items EXCEPT ![Here][s] = written]
      BY <1>2, <2>2 DEF Store, Here, Words, WriteBusy
    <3>3. ASSUME NEW k \in 1..Capacity, k # Capacity PROVE items'[Behind(Here, k)] = items[Behind(Here, k)]
      <4>1. Behind(Here, k) # Here /\ Behind(Here, k) \in 0..(Capacity - 1)
        BY <1>0, <3>3 DEF Behind
      <4>2. QED
        BY <1>0, <3>2, <4>1
    <3>4. QED
      BY <2>1, <3>1, <3>3 DEF SlotsInv, StreamInv, Behind
  <2>3. CASE s = WriteBusy
    BY <1>2, <2>1, <2>3 DEF Store, Words, WriteBusy, StreamInv, SlotsInv
  <2>4. QED
    BY <2>2, <2>3 DEF Stores
<1>3. ASSUME Publish PROVE SlotsInv'
  <2>1. /\ written' = written + 1 /\ items' = items
        /\ write_position.pos \in 0..(Positions - 1)
        /\ write_position'.pos = (write_position.pos + 1) % Positions
    BY <1>3 DEF Publish, StreamInv, CountInv, Shapes, Positioned
  <2>2. Here' = IF Here + 1 = Capacity THEN 0 ELSE Here + 1
    BY <2>1, SlotAfter DEF Here
  <2>3. items[Here][1] = written /\ items[Here][2] = written
    <3>1. pending = {} /\ pending # {1, 2} /\ pending # {2}
      BY <1>3 DEF Publish
    <3>2. QED
      BY <3>1 DEF StreamInv, StoresInv
  <2>4. ASSUME NEW k \in 1..Capacity, k <= written + 1, NEW w \in Words
        PROVE  items[Behind(Here', k)][w] = written + 1 - k
    <3>1. CASE k = 1
      <4>1. Behind(Here', 1) = Here
        BY <1>0, <2>2 DEF Behind
      <4>2. QED
        BY <1>0, <2>3, <3>1, <4>1 DEF Words
    <3>2. CASE k > 1
      <4>1. Behind(Here', k) = Behind(Here, k - 1)
        BY <1>0, <2>2, <3>2 DEF Behind
      <4>2. k - 1 \in 1..Capacity /\ k - 1 # Capacity /\ k - 1 <= written /\ written - (k - 1) = written + 1 - k
        BY <1>0, <2>4, <3>2
      <4>3. items[Behind(Here, k - 1)][w] = written - (k - 1)
        BY <4>2 DEF StreamInv, SlotsInv
      <4>4. QED
        BY <4>1, <4>2, <4>3
    <3>3. QED
      BY <3>1, <3>2
  <2>5. \A k \in 1..Capacity : k <= written' => \A w \in Words : items'[Behind(Here', k)][w] = written' - k
    BY <1>0, <2>1, <2>4
  <2>6. QED
    BY <2>5 DEF SlotsInv, Behind
<1>4. ASSUME NEW r \in Readers, Reader(r) \/ BeginRead(r) \/ Copy(r) \/ Check(r) PROVE SlotsInv'
  BY <1>4 DEF Reader, BeginRead, Copy, Check, StreamInv, SlotsInv, Here
<1>5. QED
  BY <1>1, <1>2, <1>3, <1>4 DEF RingNext

(* What is copied is good, or the counter has moved.                       *)
LEMMA CopyKept ==
  ASSUME Positions % Capacity = 0, StreamInv, RingNext
  PROVE  CopyInv'
<1>0. /\ next \in [Readers -> Nat] /\ written \in Nat /\ write_position.pos \in Positioned
      /\ read_position \in [Readers -> Positioned]
  BY WritesAssumption DEF StreamInv, CountInv, Shapes
<1>a. /\ Capacity \in Nat /\ copy \in [Readers -> {Nothing} \cup Copies] /\ before \in [Readers -> [pos : Positioned, busy : {FALSE}]]
  BY Sizes DEF StreamInv, CountInv, Shapes
<1>1. ASSUME WriteSample PROVE CopyInv'
  BY <1>1 DEF WriteSample, StreamInv, CopyInv, Behindhand, Copied
<1>2. ASSUME NEW s \in Stores, Store(s) PROVE CopyInv'
  <2>1. write_position.busy => write_position'.busy
    BY <1>2 DEF Store, StreamInv, CountInv, Shapes
  <2>2. QED
    BY <1>2, <2>1 DEF Store, StreamInv, CopyInv, Behindhand, Copied
<1>3. ASSUME Publish PROVE CopyInv'
  <2>1. written' = written + 1 /\ UNCHANGED <<copy, before, read_position, next>>
    BY <1>3 DEF Publish
  <2>2. \A r \in Readers : Behindhand(r)' = Behindhand(r)
    BY <2>1 DEF Behindhand
  <2>3. ASSUME NEW r \in Readers, copy[r] # Nothing
        PROVE  /\ Behindhand(r) \in 1..Capacity
               /\ next[r] + Behindhand(r) <= written + 1 /\ next[r] + Behindhand(r) # written + 1
    BY <1>0, <1>a, <2>3 DEF StreamInv, CopyInv
  <2>4. QED
    BY <2>1, <2>2, <2>3 DEF CopyInv
<1>4. ASSUME NEW r \in Readers, Reader(r) PROVE CopyInv'
  BY <1>0, <1>a, <1>4 DEF Reader, StreamInv, CopyInv, Behindhand, Copied
<1>5. ASSUME NEW r \in Readers, BeginRead(r) PROVE CopyInv'
  <2>1. /\ \A s \in Readers \ {r} : read_position'[s] = read_position[s] /\ next'[s] = next[s]
        /\ read_position' \in [Readers -> Positioned] /\ next' \in [Readers -> 0..MaxWrites]
        /\ next'[r] = IF next[r] + Capacity < written THEN written - Capacity ELSE next[r]
        /\ Distance(write_position.pos, read_position'[r]) = written - next'[r]
    BY <1>5, OverrunSkips DEF BeginRead, StreamInv
  <2>2. UNCHANGED <<write_position, written>>
    BY <1>5 DEF BeginRead
  <2>3. CASE read_position'[r] = write_position.pos /\ UNCHANGED <<copy, before>>
    BY <1>0, <1>a, <1>5, <2>1, <2>2, <2>3 DEF BeginRead, StreamInv, CopyInv, Behindhand, Copied
  <2>4. CASE /\ read_position'[r] # write_position.pos
             /\ before' = [before EXCEPT ![r] = write_position]
             /\ copy' = [copy EXCEPT ![r] = <<>>]
    <3>1. Behindhand(r)' = written - next'[r] /\ Behindhand(r)' # 0
      BY <1>0, <1>a, <2>1, <2>2, <2>4, DistanceRange DEF Behindhand
    <3>2. next[r] <= written
      BY DEF StreamInv, CountInv, InTurn
    <3>3. Behindhand(r)' \in 1..Capacity /\ next'[r] + Behindhand(r)' = written
      BY <1>0, <1>a, <2>1, <3>1, <3>2
    <3>4. copy'[r] = <<>> /\ \A s \in Readers \ {r} : copy'[s] = copy[s] /\ before'[s] = before[s]
      BY <1>0, <1>a, <2>4
    <3>5. QED
      BY <1>0, <1>a, <2>1, <2>2, <3>3, <3>4 DEF StreamInv, CopyInv, Behindhand, Copied
  <2>5. QED
    BY <1>5, <2>3, <2>4 DEF BeginRead
<1>6. ASSUME NEW r \in Readers, Copy(r) PROVE CopyInv'
  <2>1. PICK w \in Words : /\ Copied(r) = 1..(w - 1)
                           /\ copy' = [copy EXCEPT ![r] =
                                [v \in 1..w |-> IF v = w THEN items[Slot(read_position[r])][w] ELSE @[v]]]
    BY <1>6 DEF Copy
  <2>2. UNCHANGED <<write_position, written, read_position, next, before>> /\ copy[r] # Nothing
    BY <1>6 DEF Copy
  <2>3. /\ Copied(r)' = 1..w
        /\ copy'[r][w] = items[Slot(read_position[r])][w] /\ \A v \in Copied(r) : copy'[r][v] = copy[r][v]
    BY <1>0, <1>a, <2>1 DEF Copied, Words
  <2>4. ASSUME next[r] + Behindhand(r) = written, ~write_position.busy
        PROVE  copy'[r][w] = next[r]
    <3> DEFINE k == Behindhand(r)
    <3>1. k \in 1..Capacity /\ k <= written /\ written - k = next[r]
      BY <1>0, <1>a, <2>2, <2>4 DEF StreamInv, CopyInv
    <3>2. Distance(write_position.pos, read_position[r]) = k
      BY <1>0, <1>a, <3>1 DEF StreamInv, CountInv, PositionsAgree
    <3> HIDE DEF k
    <3>3. Slot(read_position[r]) = Behind(Here, k)
      BY <1>0, <1>a, <3>1, <3>2, SlotBehind DEF Here, Positioned
    <3>4. items[Behind(Here, k)][w] = written - k
      BY <2>4, <3>1 DEF StreamInv, SlotsInv
    <3>5. QED
      BY <2>3, <3>1, <3>3, <3>4
  <2>5. next[r] + Behindhand(r) = written /\ ~write_position.busy => \A v \in Copied(r)' : copy'[r][v] = next[r]
    <3>1. 1..w = 1..(w - 1) \cup {w}
      BY DEF Words
    <3>2. QED
      BY <2>1, <2>2, <2>3, <2>4, <3>1 DEF StreamInv, CopyInv
  <2>6. \A s \in Readers \ {r} : copy'[s] = copy[s]
    BY <1>0, <1>a, <2>1
  <2>7. \A s \in Readers : Behindhand(s)' = Behindhand(s)
    BY <2>2 DEF Behindhand
  <2>8. QED
    BY <2>2, <2>5, <2>6, <2>7 DEF StreamInv, CopyInv, Copied
<1>7. ASSUME NEW r \in Readers, Check(r) PROVE CopyInv'
  <2>1. copy'[r] = Nothing
        /\ \A s \in Readers \ {r} : copy'[s] = copy[s] /\ read_position'[s] = read_position[s] /\ next'[s] = next[s]
    BY <1>0, <1>a, <1>7, OverrunSkips DEF Check, StreamInv
  <2>2. UNCHANGED <<before, write_position, written>>
    BY <1>7 DEF Check
  <2>3. QED
    BY <2>1, <2>2 DEF StreamInv, CopyInv, Behindhand, Copied
<1>8. QED
  BY <1>1, <1>2, <1>3, <1>4, <1>5, <1>6, <1>7 DEF RingNext

(* The slots and the copies are as they should, at all times.              *)
LEMMA StreamInvAlways ==
  ASSUME Positions % Capacity = 0, StoreOrder = "program"
  PROVE  RingSpec => []StreamInv
<1>1. RingInit => StoresInv /\ SlotsInv /\ CopyInv
  <2> SUFFICES ASSUME RingInit PROVE StoresInv /\ SlotsInv /\ CopyInv
    OBVIOUS
  <2>1. \A S \in {{1, 2}, {2}, {}} : Nothing # S
    BY NothingAssumption
  <2>2. StoresInv
    BY <2>1 DEF RingInit, StoresInv
  <2>3. SlotsInv
    BY Sizes DEF RingInit, SlotsInv
  <2>4. CopyInv
    BY DEF RingInit, CopyInv
  <2>5. QED
    BY <2>2, <2>3, <2>4
<1>2. CountInv /\ StoresInv /\ SlotsInv /\ CopyInv /\ [RingNext]_ringVars => StoresInv' /\ SlotsInv' /\ CopyInv'
  <2>1. ASSUME StreamInv, UNCHANGED ringVars PROVE StoresInv' /\ SlotsInv' /\ CopyInv'
    BY <2>1 DEF ringVars, StreamInv, StoresInv, SlotsInv, CopyInv, Here, Behind, Behindhand, Copied
  <2>2. ASSUME StreamInv, RingNext PROVE StoresInv' /\ SlotsInv' /\ CopyInv'
    BY <2>2, StoresKept, SlotsKept, CopyKept
  <2>3. QED
    BY <2>1, <2>2 DEF StreamInv
<1>3. QED
  BY <1>1, <1>2, CountInvAlways, PTL DEF RingSpec, StreamInv

(* A copy that validates is the sample that is due.                        *)
LEMMA ValidIsGenuine ==
  ASSUME StreamInv, NEW r \in Readers, copy[r] # Nothing, Copied(r) = Words, Valid(r)
  PROVE  next[r] < written /\ copy[r] = <<next[r], next[r]>>
<1>1. /\ next[r] \in Nat /\ written \in Nat /\ ~write_position.busy /\ copy[r] \in Copies
      /\ Distance(write_position.pos, read_position[r]) = written - next[r]
  <2>1. Shapes /\ PositionsAgree
    BY DEF StreamInv, CountInv
  <2>2. copy[r] \in Copies
    BY <2>1 DEF Shapes
  <2>3. next[r] \in 0..MaxWrites /\ written \in 0..MaxWrites
    BY <2>1 DEF Shapes
  <2>4. ~before[r].busy
    BY <2>1 DEF Shapes
  <2>5. ~write_position.busy
    BY <2>4 DEF Valid
  <2>6. Distance(write_position.pos, read_position[r]) = written - next[r]
    BY <2>1 DEF PositionsAgree
  <2>7. QED
    BY <2>2, <2>3, <2>5, <2>6, WritesAssumption
<1>2. Behindhand(r) = written - next[r] /\ Behindhand(r) \in 1..Capacity
  BY <1>1 DEF Valid, Behindhand, StreamInv, CopyInv
<1>3. next[r] < written /\ next[r] + Behindhand(r) = written
  BY <1>1, <1>2, Sizes
<1>4. copy[r][1] = next[r] /\ copy[r][2] = next[r]
  BY <1>1, <1>3 DEF StreamInv, CopyInv, Words
<1>5. copy[r] = <<next[r], next[r]>>
  <2>1. PICK n \in 0..2 : copy[r] \in [1..n -> 0..MaxWrites]
    BY <1>1 DEF Copies
  <2>2. n = 2
    <3>1. 1..n = {1, 2}
      BY <2>1 DEF Copied, Words
    <3>2. 2 \in 1..n
      BY <3>1
    <3>3. QED
      BY <3>2
  <2>3. copy[r] = [v \in 1..2 |-> copy[r][v]]
    BY <2>1, <2>2
  <2>4. copy[r] = [v \in 1..2 |-> next[r]]
    <3>1. ASSUME NEW v \in 1..2 PROVE copy[r][v] = next[r]
      BY <1>4
    <3>2. QED
      BY <2>3, <3>1
  <2>5. <<next[r], next[r]>> = [v \in 1..2 |-> next[r]]
    OBVIOUS
  <2>6. QED
    BY <2>4, <2>5
<1>6. QED
  BY <1>3, <1>5

(* Publish writes a sample, Reader attaches, a Check that validates        *)
(* delivers, HandleOverrun skips, and no other step shows.                 *)
LEMMA StepsOfStream ==
  ASSUME StreamInv, RingNext
  PROVE  Stream!Next \/ UNCHANGED Stream!vars
<1> USE DEF Stream!vars
<1>0. ASSUME NEW r \in Readers, HandleOverrun(r), UNCHANGED <<written, got>>
      PROVE  Stream!Next \/ UNCHANGED Stream!vars
  <2>1. next' = [next EXCEPT ![r] = next'[r]] /\ next \in [Readers -> 0..MaxWrites]
        /\ next'[r] = IF next[r] + Capacity < written THEN written - Capacity ELSE next[r]
    BY <1>0, OverrunSkips DEF StreamInv, CountInv, Shapes
  <2>2. CASE next[r] + Capacity < written
    BY <1>0, <2>1, <2>2 DEF Stream!Next, Stream!Skip
  <2>3. CASE ~(next[r] + Capacity < written)
    BY <1>0, <2>1, <2>3
  <2>4. QED
    BY <2>2, <2>3
<1>1. ASSUME WriteSample PROVE UNCHANGED Stream!vars
  BY <1>1 DEF WriteSample
<1>2. ASSUME NEW s \in Stores, Store(s) PROVE UNCHANGED Stream!vars
  BY <1>2 DEF Store
<1>3. ASSUME Publish PROVE Stream!Next
  BY <1>3 DEF Publish, Stream!Next, Stream!Write
<1>4. ASSUME NEW r \in Readers, Reader(r) PROVE Stream!Next
  BY <1>4 DEF Reader, Stream!Next, Stream!Attach
<1>5. ASSUME NEW r \in Readers, BeginRead(r) PROVE Stream!Next \/ UNCHANGED Stream!vars
  BY <1>0, <1>5 DEF BeginRead
<1>6. ASSUME NEW r \in Readers, Copy(r) PROVE UNCHANGED Stream!vars
  BY <1>6 DEF Copy
<1>7. ASSUME NEW r \in Readers, Check(r) PROVE Stream!Next \/ UNCHANGED Stream!vars
  <2>1. CASE /\ Valid(r)
             /\ got' = [got EXCEPT ![r] = copy[r]]
             /\ next' = [next EXCEPT ![r] = @ + 1]
    <3>1. next[r] < written /\ copy[r] = <<next[r], next[r]>>
      BY <1>7, <2>1, ValidIsGenuine DEF Check
    <3>2. Stream!Deliver(r)
      BY <1>7, <2>1, <3>1 DEF Check, Stream!Deliver
    <3>3. QED
      BY <3>2 DEF Stream!Next
  <2>2. CASE HandleOverrun(r) /\ UNCHANGED got
    BY <1>0, <1>7, <2>2 DEF Check
  <2>3. CASE UNCHANGED <<got, read_position, next>>
    BY <1>7, <2>3 DEF Check
  <2>4. QED
    BY <1>7, <2>1, <2>2, <2>3 DEF Check
<1>8. QED
  BY <1>1, <1>2, <1>3, <1>4, <1>5, <1>6, <1>7 DEF RingNext

(* The buffer is a stream of whole samples to each of any number of        *)
(* readers, if the capacity divides the number of positions and the stores *)
(* of a sample become visible in program order.                            *)
THEOREM RingIsStream ==
  ASSUME Positions % Capacity = 0, StoreOrder = "program"
  PROVE  RingSpec => KeepsStream
<1>1. RingInit => Stream!Init
  BY DEF RingInit, Stream!Init
<1>2. StreamInv /\ [RingNext]_ringVars => [Stream!Next]_Stream!vars
  <2>1. ASSUME UNCHANGED ringVars PROVE UNCHANGED Stream!vars
    BY <2>1 DEF ringVars, Stream!vars
  <2>2. QED
    BY <2>1, StepsOfStream
<1>3. QED
  BY <1>1, <1>2, StreamInvAlways, PTL DEF RingSpec, KeepsStream, Stream!Spec

(* Under the same conditions Read() returns no torn and no stale sample.   *)
THEOREM ReadsStayGenuine ==
  ASSUME Positions % Capacity = 0, StoreOrder = "program"
  PROVE  RingSpec => ReadsGenuine
<1> DEFINE Genuine == \A r \in Readers :
             copy[r] # Nothing /\ copy'[r] = Nothing /\ read_position'[r] # read_position[r]
               /\ got'[r] # got[r] => got'[r] = <<next[r], next[r]>>
<1>1. StreamInv /\ RingNext => Genuine
  <2> SUFFICES ASSUME StreamInv, RingNext, NEW r \in Readers, copy[r] # Nothing, got'[r] # got[r], copy'[r] = Nothing
               PROVE  got'[r] = <<next[r], next[r]>>
    OBVIOUS
  <2>1. ASSUME NEW s \in Readers, Check(s) PROVE got'[r] = <<next[r], next[r]>>
    <3>1. s = r /\ Valid(r) /\ got' = [got EXCEPT ![r] = copy[r]]
      BY <2>1 DEF Check
    <3>2. copy[r] = <<next[r], next[r]>>
      BY <2>1, <3>1, ValidIsGenuine DEF Check
    <3>3. QED
      BY <3>1, <3>2
  <2>2. ASSUME NEW s \in Readers, Reader(s) PROVE FALSE
    BY <2>2 DEF Reader
  <2>3. QED
    BY <2>1, <2>2 DEF RingNext, WriteSample, Store, Publish, BeginRead, Copy
<1>2. StreamInv /\ [RingNext]_ringVars => [Genuine]_ringVars
  BY <1>1
<1>3. QED
  BY <1>2, StreamInvAlways, PTL DEF RingSpec, ReadsGenuine

-----------------------------------------------------------------------------
(* A thread that is started, joined and killed                             *)

UserPlaces == {"none", "acquire", "inside", "signal", "join", "again", "joined"}
SelfPlaces == {"none", "setup", "main", "acquire", "inside", "over"}

(* Ranges, each thread in the places of its own kind of method.            *)
Ranges ==
  /\ locked \in Threads \cup {Nobody} /\ owner \in Threads \cup {Nobody}
  /\ n_accquire \in Nat
  /\ state \in States /\ ending \in {"FINISHED", "KILLED"}
  /\ exit_code \in BOOLEAN /\ exception \in BOOLEAN /\ term \in BOOLEAN /\ torn \in BOOLEAN
  /\ method \in [Users -> Methods \cup {"none", "WaitFor"}]
  /\ place \in [Threads -> UserPlaces \cup SelfPlaces]
  /\ place[Self] \in SelfPlaces /\ \A u \in Users : place[u] \in UserPlaces
  /\ guards \in [Users -> 0..MaxGuards]
  /\ results \in [Users -> Outcomes \cup {"pending"}]
  /\ fate \in Outcomes

(* Which method a user in some place executes.                             *)
PlacesMatch ==
  \A u \in Users :
    /\ method[u] = "none" <=> place[u] = "none"
    /\ method[u] = "WaitFor" <=> place[u] = "signal"
    /\ place[u] \in {"join", "again", "joined"} => method[u] = "Join"
    /\ method[u] \in {"Acquire", "TryAcquire"} => guards[u] < MaxGuards
    /\ place[u] = "signal" => guards[u] > 0

(* How often a thread has the mutex, counted by what it has it for.        *)
InMethod(t) == IF place[t] \in {"inside", "joined"} THEN 1 ELSE 0
Holds(t) == (IF t \in Users THEN guards[t] ELSE 0) + InMethod(t)

(* Who is called the owner of the mutex has the pthread mutex, unless it   *)
(* waits for the signal, and never counts more than it has.                *)
OwnerHas ==
  /\ \A t \in Threads :
       /\ owner = t => n_accquire \in 1..Holds(t)
       /\ owner = t /\ place[t] # "signal" => locked = t
       /\ place[t] \in {"inside", "joined"} => locked = t /\ owner = t
       /\ locked = t => place[t] # "signal"
  /\ owner = Nobody => n_accquire = 0

(* As long as no wait for the signal has been interrupted by an owner, the *)
(* only thread that has the mutex is the owner, and all of it is counted.  *)
CountsExact ==
  ~torn => /\ \A t \in Threads : Holds(t) > 0 => owner = t /\ n_accquire = Holds(t)
           /\ locked # Nobody => owner = locked

MutexInv == Ranges /\ PlacesMatch /\ OwnerHas /\ CountsExact

(* Who joins has no lock.                                                  *)
JoinersFree == \A u \in Users : method[u] = "Join" => guards[u] = 0

(* The one who joins, and where the thread is meanwhile.                   *)
Joins(u) == place[u] \in {"join", "again", "joined"}
JoinInv ==
  /\ \A u, v \in Users : method[u] = "Join" /\ method[v] = "Join" => u = v
  /\ state \in {"CONSTRUCTED", "ALIVE"} => \A u \in Users : ~Joins(u)
  /\ state = "CONSTRUCTED" => place[Self] = "none"
  /\ state = "JOINING" => \E u \in Users : Joins(u)
  /\ state \in {"FINISHED", "KILLED"} => place[Self] \in {"over", "none"}
  /\ state # "CONSTRUCTED" /\ place[Self] = "none" => \E u \in Users : place[u] \in {"again", "joined"}
  /\ \A u \in Users : place[u] \in {"again", "joined"} => place[Self] = "none"

(* What PthreadMain has left so far tells how the run ended.               *)
Told == IF exit_code THEN "unknown" ELSE IF exception THEN "exception" ELSE "null"
FateInv ==
  /\ exit_code => ~exception
  /\ state = "CONSTRUCTED" => ~exception
  /\ place[Self] \in {"setup", "main"} => ~exit_code /\ ~exception
  /\ place[Self] \in {"acquire", "inside"} => ~exit_code /\ fate = Told
  /\ state # "CONSTRUCTED" /\ place[Self] \in {"over", "none"} => fate = Told
(* Each step keeps the ranges. *)
LEMMA RangesKept ==
  ASSUME MutexInv, ThreadNext
  PROVE  Ranges'
<1> USE ThreadAssumption DEF MutexInv, Ranges, PlacesMatch, OwnerHas, UserPlaces,
    SelfPlaces, Threads, Methods, States, Outcomes, mutex, child, Move, IsAcquired,
    InMethod, Holds
<1>1. ASSUME NEW u \in Users, NEW c \in Methods, Enter(u, c) PROVE Ranges'
  BY <1>1 DEF Enter, Joiners
<1>2. ASSUME NEW u \in Users, TakeMutex(u, "acquire", "inside") PROVE Ranges'
  BY <1>2 DEF TakeMutex, Acquire
<1>3. ASSUME NEW u \in Users, TakeMutex(u, "again", "joined") PROVE Ranges'
  BY <1>3 DEF TakeMutex, Acquire
<1>4. ASSUME NEW u \in Users, GiveUpMutex(u) PROVE Ranges'
  BY <1>4 DEF GiveUpMutex, LeaveMethod
<1>5. ASSUME NEW u \in Users, Guard(u) PROVE Ranges'
  BY <1>5 DEF Guard, LeaveMethod
<1>6. ASSUME NEW u \in Users, DropGuard(u) PROVE Ranges'
  BY <1>6 DEF DropGuard, EndGuard, Release
<1>7. ASSUME NEW u \in Users, WaitFor(u) PROVE Ranges'
  BY <1>7 DEF WaitFor
<1>8. ASSUME NEW u \in Users, Signalled(u) PROVE Ranges'
  BY <1>8 DEF Signalled, LeaveMethod
<1>9. ASSUME NEW u \in Users, Start(u) PROVE Ranges'
  <2>1. CASE /\ state = "CONSTRUCTED" /\ ReturnFrom(u, "setup")
             /\ state' = "ALIVE" /\ exit_code' = FALSE /\ term' = FALSE
    <3>1. place' \in [Threads -> UserPlaces \cup SelfPlaces] /\ place'[Self] = "setup"
          /\ \A v \in Users : place'[v] \in UserPlaces
      BY <2>1 DEF ReturnFrom
    <3>2. locked' \in Threads \cup {Nobody} /\ owner' \in Threads \cup {Nobody} /\ n_accquire' \in Nat
          /\ method' \in [Users -> Methods \cup {"none", "WaitFor"}]
      BY <2>1 DEF ReturnFrom, EndGuard, Release
    <3>3. QED
      BY <1>9, <2>1, <3>1, <3>2 DEF Start, Inside
  <2>2. CASE ReturnFrom(u, place[Self]) /\ UNCHANGED <<state, exit_code, term>>
    BY <1>9, <2>2 DEF Start, Inside, ReturnFrom, EndGuard, Release
  <2>3. QED
    BY <1>9, <2>1, <2>2 DEF Start
<1>10. ASSUME NEW u \in Users, Shutdown(u) PROVE Ranges'
  BY <1>10 DEF Shutdown, Inside, ReturnFrom, EndGuard, Release
<1>11. ASSUME NEW u \in Users, JoinBegin(u) PROVE Ranges'
  BY <1>11 DEF JoinBegin, Inside, ReturnFrom, EndGuard, Release
<1>12. ASSUME NEW u \in Users, PthreadJoin(u) PROVE Ranges'
  BY <1>12 DEF PthreadJoin
<1>13. ASSUME NEW u \in Users, Joined(u) PROVE Ranges'
  BY <1>13 DEF Joined, ReturnFrom, EndGuard, Release
<1>14. ASSUME SetUp PROVE Ranges'
  <2>1. CASE Move(Self, "main") /\ UNCHANGED <<exit_code, fate>>
    BY <1>14, <2>1 DEF SetUp
  <2>2. CASE Move(Self, "over") /\ exit_code' = TRUE /\ fate' = "unknown"
    BY <1>14, <2>2 DEF SetUp
  <2>3. QED
    BY <1>14, <2>1, <2>2 DEF SetUp
<1>15. ASSUME MainEnds PROVE Ranges'
  BY <1>15 DEF MainEnds
<1>16. ASSUME TakeMutex(Self, "acquire", "inside") PROVE Ranges'
  BY <1>16 DEF TakeMutex, Acquire
<1>17. ASSUME EndThread PROVE Ranges'
  BY <1>17 DEF EndThread, EndGuard, Release
<1>18. QED
  BY <1>1, <1>2, <1>3, <1>4, <1>5, <1>6, <1>7, <1>8, <1>9, <1>10, <1>11, <1>12, <1>13,
      <1>14, <1>15, <1>16, <1>17 DEF ThreadNext, PthreadMain, UserStep

(* Each step keeps methods and places in accord. *)
LEMMA PlacesKept ==
  ASSUME MutexInv, ThreadNext
  PROVE  PlacesMatch'
<1> USE ThreadAssumption DEF MutexInv, Ranges, PlacesMatch, Threads, Methods, mutex,
    child, Move
<1>1. ASSUME NEW u \in Users, NEW c \in Methods, Enter(u, c) PROVE PlacesMatch'
  BY <1>1 DEF Enter, Joiners
<1>2. ASSUME NEW u \in Users, TakeMutex(u, "acquire", "inside") PROVE PlacesMatch'
  BY <1>2 DEF TakeMutex, Acquire
<1>3. ASSUME NEW u \in Users, TakeMutex(u, "again", "joined") PROVE PlacesMatch'
  BY <1>3 DEF TakeMutex, Acquire
<1>4. ASSUME NEW u \in Users, GiveUpMutex(u) PROVE PlacesMatch'
  BY <1>4 DEF GiveUpMutex, LeaveMethod
<1>5. ASSUME NEW u \in Users, Guard(u) PROVE PlacesMatch'
  BY <1>5 DEF Guard, LeaveMethod
<1>6. ASSUME NEW u \in Users, DropGuard(u) PROVE PlacesMatch'
  BY <1>6 DEF DropGuard, EndGuard, Release
<1>7. ASSUME NEW u \in Users, WaitFor(u) PROVE PlacesMatch'
  BY <1>7 DEF WaitFor
<1>8. ASSUME NEW u \in Users, Signalled(u) PROVE PlacesMatch'
  BY <1>8 DEF Signalled, LeaveMethod
<1>9. ASSUME NEW u \in Users, Start(u) PROVE PlacesMatch'
  BY <1>9 DEF Start, Inside, ReturnFrom, EndGuard, Release
<1>10. ASSUME NEW u \in Users, Shutdown(u) PROVE PlacesMatch'
  BY <1>10 DEF Shutdown, Inside, ReturnFrom, EndGuard, Release
<1>11. ASSUME NEW u \in Users, JoinBegin(u) PROVE PlacesMatch'
  BY <1>11 DEF JoinBegin, Inside, ReturnFrom, EndGuard, Release
<1>12. ASSUME NEW u \in Users, PthreadJoin(u) PROVE PlacesMatch'
  BY <1>12 DEF PthreadJoin
<1>13. ASSUME NEW u \in Users, Joined(u) PROVE PlacesMatch'
  BY <1>13 DEF Joined, ReturnFrom, EndGuard, Release
<1>14. ASSUME SetUp PROVE PlacesMatch'
  BY <1>14 DEF SetUp
<1>15. ASSUME MainEnds PROVE PlacesMatch'
  BY <1>15 DEF MainEnds
<1>16. ASSUME TakeMutex(Self, "acquire", "inside") PROVE PlacesMatch'
  BY <1>16 DEF TakeMutex, Acquire
<1>17. ASSUME EndThread PROVE PlacesMatch'
  BY <1>17 DEF EndThread, EndGuard, Release
<1>18. QED
  BY <1>1, <1>2, <1>3, <1>4, <1>5, <1>6, <1>7, <1>8, <1>9, <1>10, <1>11, <1>12, <1>13,
      <1>14, <1>15, <1>16, <1>17 DEF ThreadNext, PthreadMain, UserStep

(* Each step keeps the owner entitled. *)
LEMMA OwnerKept ==
  ASSUME MutexInv, ThreadNext
  PROVE  OwnerHas'
<1> USE ThreadAssumption DEF MutexInv, Ranges, PlacesMatch, OwnerHas, UserPlaces,
    SelfPlaces, Threads, mutex, child, Move, IsAcquired, InMethod, Holds
<1>1. ASSUME NEW u \in Users, NEW c \in Methods, Enter(u, c) PROVE OwnerHas'
  BY <1>1 DEF Enter, Joiners
<1>2. ASSUME NEW u \in Users, TakeMutex(u, "acquire", "inside") PROVE OwnerHas'
  BY <1>2 DEF TakeMutex, Acquire
<1>3. ASSUME NEW u \in Users, TakeMutex(u, "again", "joined") PROVE OwnerHas'
  BY <1>3 DEF TakeMutex, Acquire
<1>4. ASSUME NEW u \in Users, GiveUpMutex(u) PROVE OwnerHas'
  BY <1>4 DEF GiveUpMutex, LeaveMethod
<1>5. ASSUME NEW u \in Users, Guard(u) PROVE OwnerHas'
  BY <1>5 DEF Guard, LeaveMethod
<1>6. ASSUME NEW u \in Users, DropGuard(u) PROVE OwnerHas'
  BY <1>6 DEF DropGuard, EndGuard, Release
<1>7. ASSUME NEW u \in Users, WaitFor(u) PROVE OwnerHas'
  BY <1>7 DEF WaitFor
<1>8. ASSUME NEW u \in Users, Signalled(u) PROVE OwnerHas'
  BY <1>8 DEF Signalled, LeaveMethod
<1>9. ASSUME NEW u \in Users, Start(u) PROVE OwnerHas'
  BY <1>9 DEF Start, Inside, ReturnFrom, EndGuard, Release
<1>10. ASSUME NEW u \in Users, Shutdown(u) PROVE OwnerHas'
  BY <1>10 DEF Shutdown, Inside, ReturnFrom, EndGuard, Release
<1>11. ASSUME NEW u \in Users, JoinBegin(u) PROVE OwnerHas'
  BY <1>11 DEF JoinBegin, Inside, ReturnFrom, EndGuard, Release
<1>12. ASSUME NEW u \in Users, PthreadJoin(u) PROVE OwnerHas'
  BY <1>12 DEF PthreadJoin
<1>13. ASSUME NEW u \in Users, Joined(u) PROVE OwnerHas'
  BY <1>13 DEF Joined, ReturnFrom, EndGuard, Release
<1>14. ASSUME SetUp PROVE OwnerHas'
  BY <1>14 DEF SetUp
<1>15. ASSUME MainEnds PROVE OwnerHas'
  BY <1>15 DEF MainEnds
<1>16. ASSUME TakeMutex(Self, "acquire", "inside") PROVE OwnerHas'
  BY <1>16 DEF TakeMutex, Acquire
<1>17. ASSUME EndThread PROVE OwnerHas'
  BY <1>17 DEF EndThread, EndGuard, Release
<1>18. QED
  BY <1>1, <1>2, <1>3, <1>4, <1>5, <1>6, <1>7, <1>8, <1>9, <1>10, <1>11, <1>12, <1>13,
      <1>14, <1>15, <1>16, <1>17 DEF ThreadNext, PthreadMain, UserStep

(* Each step keeps the count exact. *)
LEMMA CountsKept ==
  ASSUME MutexInv, ThreadNext
  PROVE  CountsExact'
<1> USE ThreadAssumption DEF MutexInv, Ranges, PlacesMatch, OwnerHas, CountsExact,
    UserPlaces, SelfPlaces, Threads, mutex, child, Move, IsAcquired, InMethod, Holds
<1>1. ASSUME NEW u \in Users, NEW c \in Methods, Enter(u, c) PROVE CountsExact'
  BY <1>1 DEF Enter, Joiners
<1>2. ASSUME NEW u \in Users, TakeMutex(u, "acquire", "inside") PROVE CountsExact'
  <2> SUFFICES ASSUME ~torn' PROVE CountsExact'
    BY DEF CountsExact
  <2>1. /\ ~torn /\ (\A v \in Users : place[v] # "signal")
        /\ place' = [place EXCEPT ![u] = "inside"] /\ guards' = guards
    BY <1>2 DEF TakeMutex
  <2>2. place[u] = "acquire" /\ u \in Threads
    BY <1>2 DEF TakeMutex
  <2>3. Holds(u)' = Holds(u) + 1 /\ \A s \in Threads \ {u} : Holds(s)' = Holds(s)
    BY <2>1, <2>2
  <2>4. CASE IsAcquired(u)
    <3>1. owner = u /\ owner' = u /\ n_accquire' = n_accquire + 1 /\ locked' = locked
      BY <1>2, <2>4 DEF TakeMutex, Acquire
    <3>2. n_accquire = Holds(u) /\ \A s \in Threads \ {u} : ~(Holds(s) > 0)
      BY <2>1, <2>2, <3>1, <2>4
    <3>3. QED
      BY <2>1, <2>3, <3>1, <3>2 DEF CountsExact
  <2>5. CASE ~IsAcquired(u)
    <3>1. locked = Nobody /\ locked' = u /\ owner' = u /\ n_accquire' = 1
      BY <1>2, <2>5 DEF TakeMutex, Acquire
    <3>2. \A s \in Threads : Holds(s) = 0
      BY <2>1, <3>1
    <3>3. QED
      BY <2>2, <2>3, <3>1, <3>2 DEF CountsExact
  <2>6. QED
    BY <2>4, <2>5
<1>3. ASSUME NEW u \in Users, TakeMutex(u, "again", "joined") PROVE CountsExact'
  <2> SUFFICES ASSUME ~torn' PROVE CountsExact'
    BY DEF CountsExact
  <2>1. /\ ~torn /\ (\A v \in Users : place[v] # "signal")
        /\ place' = [place EXCEPT ![u] = "joined"] /\ guards' = guards
    BY <1>3 DEF TakeMutex
  <2>2. place[u] = "again" /\ u \in Threads
    BY <1>3 DEF TakeMutex
  <2>3. Holds(u)' = Holds(u) + 1 /\ \A s \in Threads \ {u} : Holds(s)' = Holds(s)
    BY <2>1, <2>2
  <2>4. CASE IsAcquired(u)
    <3>1. owner = u /\ owner' = u /\ n_accquire' = n_accquire + 1 /\ locked' = locked
      BY <1>3, <2>4 DEF TakeMutex, Acquire
    <3>2. n_accquire = Holds(u) /\ \A s \in Threads \ {u} : ~(Holds(s) > 0)
      BY <2>1, <2>2, <3>1, <2>4
    <3>3. QED
      BY <2>1, <2>3, <3>1, <3>2 DEF CountsExact
  <2>5. CASE ~IsAcquired(u)
    <3>1. locked = Nobody /\ locked' = u /\ owner' = u /\ n_accquire' = 1
      BY <1>3, <2>5 DEF TakeMutex, Acquire
    <3>2. \A s \in Threads : Holds(s) = 0
      BY <2>1, <3>1
    <3>3. QED
      BY <2>2, <2>3, <3>1, <3>2 DEF CountsExact
  <2>6. QED
    BY <2>4, <2>5
<1>4. ASSUME NEW u \in Users, GiveUpMutex(u) PROVE CountsExact'
  BY <1>4 DEF GiveUpMutex, LeaveMethod
<1>5. ASSUME NEW u \in Users, Guard(u) PROVE CountsExact'
  BY <1>5 DEF Guard, LeaveMethod
<1>6. ASSUME NEW u \in Users, DropGuard(u) PROVE CountsExact'
  BY <1>6 DEF DropGuard, EndGuard, Release
<1>7. ASSUME NEW u \in Users, WaitFor(u) PROVE CountsExact'
  BY <1>7 DEF WaitFor
<1>8. ASSUME NEW u \in Users, Signalled(u) PROVE CountsExact'
  BY <1>8 DEF Signalled, LeaveMethod
<1>9. ASSUME NEW u \in Users, Start(u) PROVE CountsExact'
  BY <1>9 DEF Start, Inside, ReturnFrom, EndGuard, Release
<1>10. ASSUME NEW u \in Users, Shutdown(u) PROVE CountsExact'
  BY <1>10 DEF Shutdown, Inside, ReturnFrom, EndGuard, Release
<1>11. ASSUME NEW u \in Users, JoinBegin(u) PROVE CountsExact'
  BY <1>11 DEF JoinBegin, Inside, ReturnFrom, EndGuard, Release
<1>12. ASSUME NEW u \in Users, PthreadJoin(u) PROVE CountsExact'
  BY <1>12 DEF PthreadJoin
<1>13. ASSUME NEW u \in Users, Joined(u) PROVE CountsExact'
  BY <1>13 DEF Joined, ReturnFrom, EndGuard, Release
<1>14. ASSUME SetUp PROVE CountsExact'
  BY <1>14 DEF SetUp
<1>15. ASSUME MainEnds PROVE CountsExact'
  BY <1>15 DEF MainEnds
<1>16. ASSUME TakeMutex(Self, "acquire", "inside") PROVE CountsExact'
  <2> SUFFICES ASSUME ~torn' PROVE CountsExact'
    BY DEF CountsExact
  <2>1. /\ ~torn /\ (\A v \in Users : place[v] # "signal")
        /\ place' = [place EXCEPT ![Self] = "inside"] /\ guards' = guards
    BY <1>16 DEF TakeMutex
  <2>2. place[Self] = "acquire" /\ Self \in Threads
    BY <1>16 DEF TakeMutex
  <2>3. Holds(Self)' = Holds(Self) + 1 /\ \A s \in Threads \ {Self} : Holds(s)' = Holds(s)
    BY <2>1, <2>2
  <2>4. CASE IsAcquired(Self)
    <3>1. owner = Self /\ owner' = Self /\ n_accquire' = n_accquire + 1 /\ locked' = locked
      BY <1>16, <2>4 DEF TakeMutex, Acquire
    <3>2. n_accquire = Holds(Self) /\ \A s \in Threads \ {Self} : ~(Holds(s) > 0)
      BY <2>1, <2>2, <3>1, <2>4
    <3>3. QED
      BY <2>1, <2>3, <3>1, <3>2 DEF CountsExact
  <2>5. CASE ~IsAcquired(Self)
    <3>1. locked = Nobody /\ locked' = Self /\ owner' = Self /\ n_accquire' = 1
      BY <1>16, <2>5 DEF TakeMutex, Acquire
    <3>2. \A s \in Threads : Holds(s) = 0
      BY <2>1, <3>1
    <3>3. QED
      BY <2>2, <2>3, <3>1, <3>2 DEF CountsExact
  <2>6. QED
    BY <2>4, <2>5
<1>17. ASSUME EndThread PROVE CountsExact'
  BY <1>17 DEF EndThread, EndGuard, Release
<1>18. QED
  BY <1>1, <1>2, <1>3, <1>4, <1>5, <1>6, <1>7, <1>8, <1>9, <1>10, <1>11, <1>12, <1>13,
      <1>14, <1>15, <1>16, <1>17 DEF ThreadNext, PthreadMain, UserStep

(* No step of the threads breaks the invariant about the mutex.            *)
LEMMA MutexInvKept ==
  ASSUME MutexInv, [ThreadNext]_threadVars
  PROVE  MutexInv'
<1>1. CASE ThreadNext
  BY <1>1, RangesKept, PlacesKept, OwnerKept, CountsKept DEF MutexInv
<1>2. CASE UNCHANGED threadVars
  BY <1>2 DEF threadVars, mutex, child, MutexInv, Ranges, PlacesMatch, OwnerHas,
      CountsExact, Holds, InMethod
<1>3. QED
  BY <1>1, <1>2

LEMMA MutexInvAtFirst == ThreadInit => MutexInv
<1> SUFFICES ASSUME ThreadInit PROVE MutexInv
  OBVIOUS
<1> USE ThreadAssumption DEF ThreadInit, Threads
<1>1. Ranges
  <2> USE DEF UserPlaces, SelfPlaces, Methods, States, Outcomes
  <2>1. /\ place \in [Threads -> UserPlaces \cup SelfPlaces] 
        /\ place[Self] = "none" /\ \A u \in Users : place[u] = "none"
    OBVIOUS
  <2>2. guards \in [Users -> 0..MaxGuards] /\ results \in [Users -> Outcomes \cup {"pending"}]
        /\ method \in [Users -> Methods \cup {"none", "WaitFor"}]
    OBVIOUS
  <2>3. QED
    BY <2>1, <2>2 DEF Ranges
<1>2. PlacesMatch
  BY DEF PlacesMatch
<1>3. \A t \in Threads : Holds(t) = 0
  BY DEF Holds, InMethod
<1>4. OwnerHas /\ CountsExact
  BY <1>3 DEF OwnerHas, CountsExact
<1>5. QED
  BY <1>1, <1>2, <1>4 DEF MutexInv

(* The count of the mutex and the places are as the methods leave them.    *)
LEMMA MutexInvAlways == ThreadSpec => []MutexInv
<1>1. QED
  BY MutexInvAtFirst, MutexInvKept, PTL DEF ThreadSpec

(* Every variable of a TThread stays in its range, whatever its users do;  *)
(* n_accquire counts to at most one more than the locks of one thread.     *)
THEOREM ThreadTypesHold == ThreadSpec => []ThreadTypeOK
<1>1. MutexInv => ThreadTypeOK
  <2> USE ThreadAssumption
  <2>1. ASSUME MutexInv PROVE n_accquire \in 0..(MaxGuards + 1)
    BY <2>1 DEF MutexInv, Ranges, OwnerHas, Holds, InMethod, Threads
  <2>2. QED
    BY <2>1 DEF MutexInv, Ranges, ThreadTypeOK, UserPlaces, SelfPlaces
<1>2. QED
  BY <1>1, MutexInvAlways, PTL

(* Who has the pthread mutex is who has a lock or is inside a method of    *)
(* the thread, for every use that is made of a TThread.                    *)
THEOREM GuardsHold == ThreadSpec => []GuardsMatchMutex
<1>1. MutexInv => GuardsMatchMutex
  <2> SUFFICES ASSUME MutexInv, ~torn, NEW t \in Threads PROVE Entitled(t) <=> locked = t
    BY ThreadAssumption DEF GuardsMatchMutex, Entitled
  <2> USE ThreadAssumption DEF MutexInv, Ranges, PlacesMatch, OwnerHas, CountsExact,
      Holds, InMethod, Threads, SelfPlaces
  <2>1. ASSUME Entitled(t) PROVE locked = t
    BY <2>1 DEF Entitled
  <2>2. ASSUME locked = t PROVE Entitled(t)
    BY <2>2 DEF Entitled
  <2>3. QED
    BY <2>1, <2>2
<1>2. QED
  BY <1>1, MutexInvAlways, PTL

(* Who joins has no lock, as long as nobody calls Join with one.           *)
LEMMA JoinersFreeAlways ==
  ASSUME "JoinHolding" \notin Uses
  PROVE  ThreadSpec => []JoinersFree
<1>1. ThreadInit => JoinersFree
  BY DEF ThreadInit, JoinersFree
<1>2. MutexInv /\ JoinersFree /\ [ThreadNext]_threadVars => JoinersFree'
  <2> SUFFICES ASSUME MutexInv, JoinersFree, [ThreadNext]_threadVars PROVE JoinersFree'
    OBVIOUS
  <2> USE DEF MutexInv, Ranges, JoinersFree, Methods
  <2>1. CASE UNCHANGED threadVars
    BY <2>1 DEF threadVars
  <2>2. ASSUME NEW u \in Users, NEW c \in Methods, Enter(u, c) PROVE JoinersFree'
    BY <2>2 DEF Enter
  <2>3. ASSUME NEW u \in Users, Guard(u) PROVE JoinersFree'
    BY <2>3 DEF Guard, LeaveMethod
  <2>4. ASSUME NEW u \in Users, DropGuard(u) PROVE JoinersFree'
    BY <2>4 DEF DropGuard
  <2>5. ASSUME NEW u \in Users, \/ TakeMutex(u, "acquire", "inside") \/ TakeMutex(u, "again", "joined")
                                \/ GiveUpMutex(u) \/ WaitFor(u) \/ Signalled(u) \/ PthreadJoin(u)
        PROVE JoinersFree'
    BY <2>5 DEF TakeMutex, GiveUpMutex, LeaveMethod, WaitFor, Signalled, PthreadJoin
  <2>6. ASSUME NEW u \in Users, Start(u) \/ Shutdown(u) \/ JoinBegin(u) \/ Joined(u) PROVE JoinersFree'
    BY <2>6 DEF Start, Shutdown, JoinBegin, Joined, Inside, ReturnFrom
  <2>7. ASSUME PthreadMain PROVE JoinersFree'
    BY <2>7 DEF PthreadMain, SetUp, MainEnds, TakeMutex, EndThread
  <2>8. QED
    BY <2>1, <2>2, <2>3, <2>4, <2>5, <2>6, <2>7 DEF ThreadNext, UserStep
<1>3. QED
  BY <1>1, <1>2, MutexInvAlways, PTL DEF ThreadSpec

(* A thread that may need the mutex of a TThread gets it: it is had only   *)
(* by who has a lock or is inside a method, and never by one that waits in *)
(* Join, because Join gives it back before pthread_join.                   *)
THEOREM MutexIsKept ==
  ASSUME "JoinHolding" \notin Uses
  PROVE  ThreadSpec => []MutexKept
<1>1. MutexInv /\ JoinersFree => HolderGoesOn
  <2> SUFFICES ASSUME MutexInv, JoinersFree, ~torn, NEW u \in Users, locked = u, place[u] \in {"join", "again"}
               PROVE  FALSE
    BY DEF HolderGoesOn
  <2>1. Holds(u) > 0
    BY ThreadAssumption DEF MutexInv, Ranges, OwnerHas, CountsExact, Holds, InMethod,
        Threads
  <2>2. Holds(u) = 0
    BY DEF MutexInv, PlacesMatch, JoinersFree, Holds, InMethod
  <2>3. QED
    BY <2>1, <2>2
<1>2. QED
  BY <1>1, GuardsHold, MutexInvAlways, JoinersFreeAlways, PTL DEF MutexKept

-----------------------------------------------------------------------------
(* The thread as a child task: one Join at a time                          *)

(* Each step keeps the one who joins and the thread in accord. *)
LEMMA JoinKept ==
  ASSUME "SecondJoin" \notin Uses, MutexInv, JoinInv, ThreadNext
  PROVE  JoinInv'
<1> USE ThreadAssumption, "SecondJoin" \notin Uses DEF MutexInv, Ranges, PlacesMatch,
    JoinInv, Joins, UserPlaces, SelfPlaces, Threads, mutex, child, Move, Joiners, States
<1>1. ASSUME NEW u \in Users, NEW c \in Methods, Enter(u, c) PROVE JoinInv'
  BY <1>1 DEF Enter, Joiners
<1>2. ASSUME NEW u \in Users, TakeMutex(u, "acquire", "inside") PROVE JoinInv'
  BY <1>2 DEF TakeMutex
<1>3. ASSUME NEW u \in Users, TakeMutex(u, "again", "joined") PROVE JoinInv'
  BY <1>3 DEF TakeMutex
<1>4. ASSUME NEW u \in Users, GiveUpMutex(u) \/ Guard(u) \/ DropGuard(u) PROVE JoinInv'
  BY <1>4 DEF GiveUpMutex, Guard, DropGuard, LeaveMethod
<1>5. ASSUME NEW u \in Users, WaitFor(u) \/ Signalled(u) \/ Shutdown(u) PROVE JoinInv'
  BY <1>5 DEF WaitFor, Signalled, LeaveMethod, Shutdown, Inside, ReturnFrom
<1>6. ASSUME NEW u \in Users, Start(u) PROVE JoinInv'
  BY <1>6 DEF Start, Inside, ReturnFrom
<1>7. ASSUME NEW u \in Users, JoinBegin(u) PROVE JoinInv'
  BY <1>7 DEF JoinBegin, Inside, ReturnFrom
<1>8. ASSUME NEW u \in Users, PthreadJoin(u) PROVE JoinInv'
  BY <1>8 DEF PthreadJoin
<1>9. ASSUME NEW u \in Users, Joined(u) PROVE JoinInv'
  BY <1>9 DEF Joined, ReturnFrom
<1>10. ASSUME SetUp PROVE JoinInv'
  BY <1>10 DEF SetUp
<1>11. ASSUME MainEnds PROVE JoinInv'
  BY <1>11 DEF MainEnds
<1>12. ASSUME TakeMutex(Self, "acquire", "inside") PROVE JoinInv'
  BY <1>12 DEF TakeMutex
<1>13. ASSUME EndThread PROVE JoinInv'
  BY <1>13 DEF EndThread
<1>14. QED
  BY <1>1, <1>2, <1>3, <1>4, <1>5, <1>6, <1>7, <1>8, <1>9, <1>10, <1>11, <1>12,
      <1>13 DEF ThreadNext, PthreadMain, UserStep

(* Each step keeps what the thread leaves in accord with how it ended. *)
LEMMA FateKept ==
  ASSUME "SecondJoin" \notin Uses, MutexInv, JoinInv, FateInv, ThreadNext
  PROVE  FateInv'
<1> USE ThreadAssumption, "SecondJoin" \notin Uses DEF MutexInv, Ranges, PlacesMatch,
    JoinInv, Joins, UserPlaces, SelfPlaces, Threads, mutex, child, Move, FateInv, Told
<1>1. ASSUME NEW u \in Users, NEW c \in Methods, Enter(u, c) PROVE FateInv'
  BY <1>1 DEF Enter, Joiners
<1>2. ASSUME NEW u \in Users, TakeMutex(u, "acquire", "inside") PROVE FateInv'
  BY <1>2 DEF TakeMutex
<1>3. ASSUME NEW u \in Users, TakeMutex(u, "again", "joined") PROVE FateInv'
  BY <1>3 DEF TakeMutex
<1>4. ASSUME NEW u \in Users, GiveUpMutex(u) \/ Guard(u) \/ DropGuard(u) PROVE FateInv'
  BY <1>4 DEF GiveUpMutex, Guard, DropGuard, LeaveMethod
<1>5. ASSUME NEW u \in Users, WaitFor(u) \/ Signalled(u) \/ Shutdown(u) PROVE FateInv'
  BY <1>5 DEF WaitFor, Signalled, LeaveMethod, Shutdown, Inside, ReturnFrom
<1>6. ASSUME NEW u \in Users, Start(u) PROVE FateInv'
  BY <1>6 DEF Start, Inside, ReturnFrom
<1>7. ASSUME NEW u \in Users, JoinBegin(u) PROVE FateInv'
  BY <1>7 DEF JoinBegin, Inside, ReturnFrom
<1>8. ASSUME NEW u \in Users, PthreadJoin(u) PROVE FateInv'
  BY <1>8 DEF PthreadJoin
<1>9. ASSUME NEW u \in Users, Joined(u) PROVE FateInv'
  BY <1>9 DEF Joined, ReturnFrom
<1>10. ASSUME SetUp PROVE FateInv'
  BY <1>10 DEF SetUp
<1>11. ASSUME MainEnds PROVE FateInv'
  BY <1>11 DEF MainEnds
<1>12. ASSUME TakeMutex(Self, "acquire", "inside") PROVE FateInv'
  BY <1>12 DEF TakeMutex
<1>13. ASSUME EndThread PROVE FateInv'
  BY <1>13 DEF EndThread
<1>14. QED
  BY <1>1, <1>2, <1>3, <1>4, <1>5, <1>6, <1>7, <1>8, <1>9, <1>10, <1>11, <1>12,
      <1>13 DEF ThreadNext, PthreadMain, UserStep

(* One user joins, and what the thread has left is the outcome of the run. *)
LEMMA ChildInvAlways ==
  ASSUME "SecondJoin" \notin Uses
  PROVE  ThreadSpec => [](MutexInv /\ JoinInv /\ FateInv)
<1>1. ThreadInit => JoinInv /\ FateInv
  BY ThreadAssumption DEF ThreadInit, JoinInv, FateInv, Joins, Threads
<1>2. MutexInv /\ JoinInv /\ FateInv /\ [ThreadNext]_threadVars => JoinInv' /\ FateInv'
  <2>1. ASSUME UNCHANGED threadVars, JoinInv, FateInv PROVE JoinInv' /\ FateInv'
    BY <2>1 DEF threadVars, mutex, child, JoinInv, FateInv, Joins, Told
  <2>2. QED
    BY <2>1, JoinKept, FateKept
<1>3. QED
  BY <1>1, <1>2, MutexInvAlways, PTL DEF ThreadSpec

(* Shutdown signals a pthread only while there is one, and Start overwrites *)
(* no handle of one that has not been joined.                              *)
THEOREM HandleStaysValid ==
  ASSUME "SecondJoin" \notin Uses
  PROVE  ThreadSpec => []HandleValid
<1>1. JoinInv => HandleValid
  BY DEF JoinInv, HandleValid, Joins
<1>2. QED
  BY <1>1, ChildInvAlways, PTL

(* Each step is one of the child task, or none: Start begins a run,        *)
(* PthreadMain ends it, and the end of Join takes its outcome away.        *)
LEMMA StepsOfChild ==
  ASSUME MutexInv, JoinInv, FateInv, ThreadNext
  PROVE  CT!Next \/ UNCHANGED CT!vars
<1> USE ThreadAssumption DEF MutexInv, Ranges, PlacesMatch, JoinInv, Joins, FateInv, Told,
    SelfPlaces, Threads, child, Move, phase, outcome, CT!vars, CT!Pending
<1>1. ASSUME NEW u \in Users, NEW c \in Methods, Enter(u, c) PROVE CT!Next \/ UNCHANGED CT!vars
  BY <1>1 DEF Enter, Joiners
<1>2. ASSUME NEW u \in Users, TakeMutex(u, "acquire", "inside") PROVE CT!Next \/ UNCHANGED CT!vars
  BY <1>2 DEF TakeMutex
<1>3. ASSUME NEW u \in Users, TakeMutex(u, "again", "joined") PROVE CT!Next \/ UNCHANGED CT!vars
  BY <1>3 DEF TakeMutex
<1>4. ASSUME NEW u \in Users, GiveUpMutex(u) \/ Guard(u) \/ DropGuard(u) PROVE CT!Next \/ UNCHANGED CT!vars
  BY <1>4 DEF GiveUpMutex, Guard, DropGuard, LeaveMethod
<1>5. ASSUME NEW u \in Users, WaitFor(u) \/ Signalled(u) \/ Shutdown(u) PROVE CT!Next \/ UNCHANGED CT!vars
  BY <1>5 DEF WaitFor, Signalled, LeaveMethod, Shutdown, Inside, ReturnFrom
<1>6. ASSUME NEW u \in Users, Start(u) PROVE CT!Next \/ UNCHANGED CT!vars
  <2>1. CASE state = "CONSTRUCTED"
    BY <1>6, <2>1 DEF Start, Inside, ReturnFrom, CT!Next, CT!Start
  <2>2. CASE state # "CONSTRUCTED"
    BY <1>6, <2>2 DEF Start, Inside, ReturnFrom
  <2>3. QED
    BY <2>1, <2>2
<1>7. ASSUME NEW u \in Users, JoinBegin(u) PROVE CT!Next \/ UNCHANGED CT!vars
  BY <1>7 DEF JoinBegin, Inside, ReturnFrom
<1>8. ASSUME NEW u \in Users, PthreadJoin(u) PROVE CT!Next \/ UNCHANGED CT!vars
  BY <1>8 DEF PthreadJoin
<1>9. ASSUME NEW u \in Users, Joined(u) PROVE CT!Next \/ UNCHANGED CT!vars
  <2>1. CT!Join(u)
    BY <1>9 DEF Joined, ReturnFrom, CT!Join
  <2>2. QED
    BY <2>1 DEF CT!Next
<1>10. ASSUME SetUp PROVE CT!Next \/ UNCHANGED CT!vars
  <2>1. CASE Move(Self, "main") /\ UNCHANGED <<exit_code, fate>>
    BY <1>10, <2>1 DEF SetUp
  <2>2. CASE Move(Self, "over") /\ exit_code' = TRUE /\ fate' = "unknown"
    <3>1. CT!End("unknown")
      BY <1>10, <2>2 DEF SetUp, CT!End
    <3>2. QED
      BY <3>1 DEF CT!Next, Outcomes
  <2>3. QED
    BY <1>10, <2>1, <2>2 DEF SetUp
<1>11. ASSUME MainEnds PROVE CT!Next \/ UNCHANGED CT!vars
  BY <1>11 DEF MainEnds
<1>12. ASSUME TakeMutex(Self, "acquire", "inside") PROVE CT!Next \/ UNCHANGED CT!vars
  BY <1>12 DEF TakeMutex
<1>13. ASSUME EndThread PROVE CT!Next \/ UNCHANGED CT!vars
  <2>1. CT!End(fate)
    BY <1>13 DEF EndThread, CT!End
  <2>2. QED
    BY <2>1 DEF CT!Next
<1>14. QED
  BY <1>1, <1>2, <1>3, <1>4, <1>5, <1>6, <1>7, <1>8, <1>9, <1>10, <1>11, <1>12,
      <1>13 DEF ThreadNext, PthreadMain, UserStep

(* A TThread is a child task: each run is joined once, by one caller, who  *)
(* gets the outcome of that run, before the next begins.                   *)
THEOREM ThreadIsChildTask ==
  ASSUME "SecondJoin" \notin Uses
  PROVE  ThreadSpec => KeepsChildTask
<1>1. ThreadInit => CT!Init
  BY DEF ThreadInit, CT!Init, CT!Pending, phase, outcome
<1>2. MutexInv /\ JoinInv /\ FateInv /\ [ThreadNext]_threadVars => [CT!Next]_CT!vars
  <2>1. ASSUME UNCHANGED threadVars PROVE UNCHANGED CT!vars
    BY <2>1 DEF threadVars, child, CT!vars, phase, outcome
  <2>2. QED
    BY <2>1, StepsOfChild
<1>3. QED
  BY <1>1, <1>2, ChildInvAlways, PTL DEF ThreadSpec, KeepsChildTask, CT!Spec

-----------------------------------------------------------------------------
(* Sequences of one and of two.  Append makes a pair of a single.          *)
LEMMA Pair == ASSUME NEW a, NEW b PROVE Append(<<a>>, b) = <<a, b>>
<1> DEFINE S == {a, b}
           s == Append(<<a>>, b)
           t == <<a, b>>
<1>1. s \in Seq(S) /\ Len(s) = 2 /\ s[1] = a /\ s[2] = b
  OBVIOUS
<1>2. t \in Seq(S) /\ Len(t) = 2 /\ t[1] = a /\ t[2] = b
  OBVIOUS
<1> HIDE DEF s, t, S
<1>3. \A i \in 1..Len(s) : s[i] = t[i]
  BY <1>1, <1>2
<1>4. s = t
  BY <1>1, <1>2, <1>3, SeqEqual
<1>5. QED
  BY <1>4 DEF s, t

(* The operators of the model on a single.                                 *)
LEMMA Single ==
  ASSUME NEW a
  PROVE  /\ Append(<<>>, a) = <<a>> /\ <<>> \o <<a>> = <<a>> /\ <<a>> # <<>>
         /\ Len(<<a>>) = 1 /\ <<a>>[1] = a /\ Head(<<a>>) = a /\ Tail(<<a>>) = <<>>
         /\ RemoveAt(<<a>>, 1) = <<>> /\ SubSeq(<<a>>, 2, Len(<<a>>)) = <<>>
         /\ \A b : [<<a>> EXCEPT ![1] = b] = <<b>>
         /\ DOMAIN <<a>> = {1}
<1>1. RemoveAt(<<a>>, 1) = <<>>
  BY DEF RemoveAt
<1>2. ASSUME NEW b PROVE [<<a>> EXCEPT ![1] = b] = <<b>>
  OBVIOUS
<1>3. SubSeq(<<a>>, 2, Len(<<a>>)) = <<>>
  OBVIOUS
<1>4. DOMAIN <<a>> = {1}
  OBVIOUS
<1>5. QED
  BY <1>1, <1>2, <1>3, <1>4

(* And on a pair.                                                          *)
LEMMA Double ==
  ASSUME NEW a, NEW b
  PROVE  Head(<<a, b>>) = a /\ Tail(<<a, b>>) = <<b>> /\ <<a, b>> # <<>>
OBVIOUS

-----------------------------------------------------------------------------
(* The bus.  The inductive invariant: while nothing has disturbed it, at   *)
(* most one fiber calls, and what is on the line, in the input and in its  *)
(* buffer is its request, its echo and the answer to it.                   *)
Tables ==
    /\ DOMAIN pc = BusFibers /\ DOMAIN call = BusFibers /\ DOMAIN buffer = BusFibers
    /\ DOMAIN returned = BusFibers /\ DOMAIN done = BusFibers
    /\ bank \in [Devices -> [Registers -> Values]]

Given(f) ==
    IF call[f].function \in Reads
    THEN done[f] \in Seq(Nat) /\ Len(done[f]) = call[f].count /\ done[f] # RB!NotDone
    ELSE done[f] = <<>>

(* A frame that answers the call of f, an answer only to what was done.    *)
Fits(f, x) ==
    /\ x.kind \in {"garbage", "refusal", "answer"}
    /\ x.kind = "answer" =>
         /\ x.request = call[f] /\ Given(f)
         /\ call[f].function \in Reads => x.words = done[f]

Under(f) ==
    \/ line = <<>>
    \/ line = <<Request(f)>> /\ done[f] = RB!NotDone
    \/ \E x : line = <<x>> /\ Fits(f, x)

Resting(f) == pc[f] = "idle" /\ call[f] = NoCall /\ done[f] = RB!NotDone /\ buffer[f] = <<>>

InGap(f) == pc[f] = "gap" /\ input = <<>> /\ line = <<>> /\ buffer[f] = <<>> /\ done[f] = RB!NotDone
InEcho(f) ==
    /\ pc[f] = "echo" /\ buffer[f] = <<>>
    /\ \/ input = <<>> /\ Under(f)
       \/ \E e \in {Request(f), Garbage} : input = <<e>> /\ Under(f)
       \/ \E e \in {Request(f), Garbage} : \E x : input = <<e, x>> /\ line = <<>> /\ Fits(f, x)
       \/ \E x : input = <<x>> /\ line = <<>> /\ Fits(f, x)
InWait(f) ==
    /\ pc[f] = "wait" /\ buffer[f] = <<>>
    /\ \/ input = <<>> /\ Under(f)
       \/ \E x : input = <<x>> /\ line = <<>> /\ Fits(f, x)
InCollect(f) ==
    /\ pc[f] = "collect" /\ input = <<>> /\ line = <<>>
    /\ \E x : buffer[f] = <<x>> /\ Fits(f, x)
Calling(f) ==
    /\ call[f] \in Requests
    /\ InGap(f) \/ InEcho(f) \/ InWait(f) \/ InCollect(f)

AllAtRest == input = <<>> /\ line = <<>> /\ \A f \in BusFibers : Resting(f)
Alone(f) == Calling(f) /\ \A g \in BusFibers \ {f} : Resting(g)
Quiet == Tables /\ (AllAtRest \/ \E f \in BusFibers : Alone(f))
BusInv == ~disturbed => Quiet

(* A step of the bus of registers, or none.                                *)
BankStep == RB!Next \/ UNCHANGED RB!vars

(* No request is NoCall.                                                   *)
LEMMA CallsAreNone == NoCall \notin Requests
BY RequestsAssumption DEF NoCall, RB!NoCall, Reads, Writes

(* A call begins on a bus at rest.                                         *)
LEMMA BeginKeeps ==
  ASSUME Tables, AllAtRest, NEW f \in BusFibers, NEW r \in Requests, Begin(f, r)
  PROVE  Quiet' /\ BankStep
<1>1. /\ pc' = [pc EXCEPT ![f] = "gap"] /\ call' = [call EXCEPT ![f] = r]
      /\ returned' = [returned EXCEPT ![f] = <<>>] /\ UNCHANGED <<input, line, buffer, done, bank>>
  BY DEF Begin, outside
<1>2. Tables'
  BY <1>1 DEF Tables
<1>3. Resting(f) /\ \A g \in BusFibers \ {f} : Resting(g)'
  BY <1>1 DEF AllAtRest, Resting, Tables
<1>4. pc'[f] = "gap" /\ call'[f] = r
  BY <1>1 DEF Tables
<1>5. Calling(f)'
  BY <1>1, <1>3, <1>4 DEF Calling, InGap, Resting, AllAtRest
<1>6. RB!Call(f, r)
  BY <1>1, <1>3 DEF RB!Call, Resting, NoCall
<1>7. QED
  BY <1>2, <1>3, <1>5, <1>6 DEF Quiet, Alone, BankStep, RB!Next

(* The end of a call, with what it gives.                                  *)
LEMMA EndKeeps ==
  ASSUME Tables, NEW f \in BusFibers, Alone(f), NEW v, Return(f, v),
         input' = <<>>, line' = <<>>, bank' = bank,
         RB!Return(f) \/ RB!Throw(f)
  PROVE  Quiet' /\ BankStep
<1>1. /\ pc' = [pc EXCEPT ![f] = "idle"] /\ call' = [call EXCEPT ![f] = NoCall]
      /\ buffer' = [buffer EXCEPT ![f] = <<>>] /\ returned' = [returned EXCEPT ![f] = v]
      /\ done' = [done EXCEPT ![f] = RB!NotDone]
  BY DEF Return
<1>2. Tables'
  BY <1>1 DEF Tables
<1>3. AllAtRest'
  BY <1>1 DEF AllAtRest, Resting, Tables, Alone
<1>4. QED
  BY <1>2, <1>3 DEF Quiet, BankStep, RB!Next

(* A call returns what was done.                                           *)
LEMMA ReturnKeeps ==
  ASSUME Tables, NEW f \in BusFibers, Alone(f), Return(f, done[f]), done[f] # RB!NotDone,
         input' = <<>>, line' = <<>>, bank' = bank
  PROVE  Quiet' /\ BankStep
<1>1. call[f] # NoCall
  BY CallsAreNone DEF Alone, Calling
<1>2. RB!Return(f)
  BY <1>1 DEF Return, RB!Return, NoCall
<1>3. QED
  BY <1>2, EndKeeps

(* A call throws, whether it was carried out or not.                       *)
LEMMA ThrowKeeps ==
  ASSUME Tables, NEW f \in BusFibers, Alone(f), Throw(f), input' = <<>>, line' = <<>>, bank' = bank
  PROVE  Quiet' /\ BankStep
<1>1. call[f] # NoCall
  BY CallsAreNone DEF Alone, Calling
<1>2. RB!Throw(f)
  BY <1>1 DEF Throw, Return, RB!Throw, NoCall, Exception
<1>3. Return(f, Exception)
  BY DEF Throw
<1>4. QED
  BY <1>2, <1>3, EndKeeps

(* A step that moves on with the same call.                                *)
LEMMA GoingOn ==
  ASSUME Tables, NEW f \in BusFibers, Alone(f), NEW p, pc' = [pc EXCEPT ![f] = p],
         UNCHANGED <<call, returned, done, bank>>,
         buffer' = buffer \/ \E b : buffer' = [buffer EXCEPT ![f] = b],
         InGap(f)' \/ InEcho(f)' \/ InWait(f)' \/ InCollect(f)'
  PROVE  Quiet' /\ BankStep
<1>1. Tables'
  BY DEF Tables
<1>2. \A g \in BusFibers \ {f} : Resting(g)'
  BY DEF Alone, Resting, Tables
<1>3. Calling(f)'
  BY DEF Calling, Alone
<1>4. QED
  BY <1>1, <1>2, <1>3 DEF Quiet, Alone, BankStep, RB!vars

(* The frames of a call are unlike the request and the noise.              *)
LEMMA RequestIs ==
  ASSUME NEW f
  PROVE  /\ Request(f).kind = "request" /\ Request(f).request = call[f] /\ Request(f).of = f
         /\ Garbage.kind = "garbage" /\ Request(f) # Garbage
BY DEF Request, Frame, Garbage

(* The request leaves, and with tx_echo comes back or not.                 *)
LEMMA SendKeeps ==
  ASSUME Tables, NEW f \in BusFibers, Alone(f), Send(f)
  PROVE  Quiet' /\ BankStep
<1>1. pc[f] = "gap" /\ UNCHANGED <<outside, call, buffer, returned, done, disturbed>>
  BY DEF Send
<1>2. input = <<>> /\ line = <<>> /\ buffer[f] = <<>> /\ done[f] = RB!NotDone
  BY <1>1 DEF Alone, Calling, InGap, InEcho, InWait, InCollect
<1>3. line' = <<Request(f)>> /\ Request(f)' = Request(f)
  BY <1>1, <1>2, Single DEF Send, Request
<1>4. Under(f)' /\ buffer'[f] = <<>>
  BY <1>1, <1>2, <1>3 DEF Under
<1>5. CASE tx_echo
  <2>1. PICK echo \in {<<Request(f)>>, <<Garbage>>, <<>>} : input' = input \o echo
    BY <1>5 DEF Send
  <2>2. input' = echo
    BY <1>2, <2>1, Single
  <2>3. pc' = [pc EXCEPT ![f] = "echo"]
    BY <1>5 DEF Send
  <2>4. InEcho(f)'
    BY <1>3, <1>4, <2>1, <2>2, <2>3 DEF InEcho, Tables
  <2>5. QED
    BY <1>1, <2>3, <2>4, GoingOn DEF outside
<1>6. CASE ~tx_echo
  <2>1. pc' = [pc EXCEPT ![f] = "wait"] /\ input' = <<>>
    BY <1>2, <1>6 DEF Send
  <2>2. InWait(f)'
    BY <1>4, <2>1 DEF InWait, Tables
  <2>3. QED
    BY <1>1, <2>1, <2>2, GoingOn DEF outside
<1>7. QED
  BY <1>5, <1>6

(* The echo is taken: the request itself, or a confirmation like it.       *)
LEMMA EchoKeeps ==
  ASSUME Tables, NEW f \in BusFibers, Alone(f), ReadEcho(f), ~disturbed'
  PROVE  Quiet' /\ BankStep
<1>1. /\ pc[f] = "echo" /\ input # <<>> /\ Repeats(Head(input), call[f])
      /\ input' = Tail(input) /\ pc' = [pc EXCEPT ![f] = "wait"]
      /\ UNCHANGED <<outside, line, call, buffer, returned, done>>
  BY DEF ReadEcho
<1>2. InEcho(f)
  BY <1>1 DEF Alone, Calling, InGap, InEcho, InWait, InCollect
<1>3. ASSUME NEW x PROVE Fits(f, x)' <=> Fits(f, x)
  BY <1>1 DEF Fits, Given
<1>4. Under(f)' <=> Under(f)
  BY <1>1, <1>3 DEF Under, Request
<1>5. pc'[f] = "wait" /\ buffer'[f] = <<>>
  BY <1>1, <1>2 DEF Tables, InEcho
<1>6. ASSUME NEW e \in {Request(f), Garbage}, input = <<e>>, Under(f) PROVE InWait(f)'
  BY <1>1, <1>4, <1>5, <1>6, Single DEF InWait
<1>7. ASSUME NEW e \in {Request(f), Garbage}, NEW x, input = <<e, x>>, line = <<>>, Fits(f, x) PROVE InWait(f)'
  BY <1>1, <1>3, <1>5, <1>7, Double DEF InWait
<1>8. ASSUME NEW x, input = <<x>>, line = <<>>, Fits(f, x) PROVE InWait(f)'
  BY <1>1, <1>5, <1>8, Single DEF InWait, Under
<1>9. InWait(f)'
  BY <1>1, <1>2, <1>6, <1>7, <1>8 DEF InEcho
<1>10. QED
  BY <1>1, <1>9, GoingOn DEF outside

(* The response comes, or fills a buffer of one frame.                     *)
LEMMA ReceiveKeeps ==
  ASSUME Tables, NEW f \in BusFibers, Alone(f), Receive(f)
  PROVE  Quiet' /\ BankStep
<1>1. pc[f] \in {"wait", "collect"} /\ input # <<>> /\ UNCHANGED <<outside, line, disturbed>>
  BY DEF Receive
<1>2. InWait(f)
  BY <1>1 DEF Alone, Calling, InGap, InEcho, InWait, InCollect
<1>3. PICK x : input = <<x>> /\ line = <<>> /\ Fits(f, x)
  BY <1>1, <1>2 DEF InWait
<1>4. buffer[f] = <<>> /\ Len(buffer[f]) = 0 /\ Len(input) = 1
  BY <1>2, <1>3, Single DEF InWait
<1> DEFINE room == BufferFrames - Len(buffer[f])
<1>5. CASE Len(input) < room
  <2>1. /\ buffer' = [buffer EXCEPT ![f] = @ \o input] /\ input' = <<>>
        /\ pc' = [pc EXCEPT ![f] = "collect"] /\ UNCHANGED <<call, returned, done>>
    BY <1>5 DEF Receive
  <2>2. buffer'[f] = <<x>> /\ pc'[f] = "collect"
    BY <1>3, <1>4, <2>1, Single DEF Tables
  <2>3. Fits(f, x)'
    BY <1>3, <2>1 DEF Fits, Given
  <2>4. InCollect(f)'
    BY <1>1, <1>3, <2>1, <2>2, <2>3 DEF InCollect
  <2>5. QED
    BY <1>1, <2>1, <2>4, GoingOn DEF outside
<1>6. CASE ~(Len(input) < room)
  <2>1. input' = SubSeq(input, room + 1, Len(input)) /\ Throw(f)
    BY <1>6 DEF Receive
  <2>2. room = 1
    BY <1>4, <1>6, BufferAssumption
  <2>3. input' = <<>>
    BY <1>3, <2>1, <2>2, Single
  <2>4. QED
    BY <1>1, <1>3, <2>1, <2>3, ThrowKeeps DEF outside
<1>7. QED
  BY <1>5, <1>6

(* Nothing comes, and nothing is under way any more.                       *)
LEMMA TimeoutKeeps ==
  ASSUME Tables, NEW f \in BusFibers, Alone(f), ResponseTimeout(f), ~disturbed'
  PROVE  Quiet' /\ BankStep
<1>1. /\ input' = <<>> /\ line' = <<>> /\ bank' = bank /\ Throw(f)
  BY DEF ResponseTimeout, outside
<1>2. QED
  BY <1>1, ThrowKeeps

(* A call that returns was carried out, and a read returns what was found. *)
LEMMA FinishKeeps ==
  ASSUME Tables, NEW f \in BusFibers, Alone(f), Finish(f)
  PROVE  Quiet' /\ BankStep
<1>1. /\ pc[f] = "collect" /\ input' = <<>> /\ line' = line /\ bank' = bank
  BY DEF Finish, outside
<1>2. InCollect(f) /\ call[f] \in Requests
  BY <1>1 DEF Alone, Calling, InGap, InEcho, InWait, InCollect
<1>3. PICK x : line = <<>> /\ buffer[f] = <<x>> /\ Fits(f, x)
  BY <1>2 DEF InCollect
<1> DEFINE r == call[f]
<1>4. CASE Accepts(r, buffer[f])
  <2>1. buffer[f][1] = x
    BY <1>3, Single
  <2>2. x.kind \in {"request", "answer"}
    BY <1>4, <2>1 DEF Accepts, Plausible
  <2>3. Given(f) /\ (r.function \in Reads => x.words = done[f])
    BY <1>3, <2>2 DEF Fits
  <2>4. CASE r.function \in Reads
    <3>1. done[f] \in Seq(Nat) /\ Len(done[f]) = r.count /\ done[f] # RB!NotDone /\ x.words = done[f]
      BY <2>3, <2>4 DEF Given
    <3>2. ReadArray(r, x) = done[f]
      <4>1. ReadArray(r, x) = [i \in 1..Len(done[f]) |-> done[f][i]]
        BY <3>1 DEF ReadArray
      <4>2. QED
        BY <3>1, <4>1
    <3>3. Return(f, done[f])
      BY <1>4, <2>1, <2>4, <3>2 DEF Finish
    <3>4. QED
      BY <1>1, <1>3, <3>1, <3>3, ReturnKeeps
  <2>5. CASE r.function \notin Reads
    <3>1. done[f] = <<>> /\ done[f] # RB!NotDone
      BY <2>3, <2>5 DEF Given, RB!NotDone
    <3>2. Return(f, done[f])
      BY <1>4, <2>5, <3>1 DEF Finish
    <3>3. QED
      BY <1>1, <1>3, <3>1, <3>2, ReturnKeeps
  <2>6. QED
    BY <2>4, <2>5
<1>5. CASE ~Accepts(r, buffer[f])
  <2>1. Throw(f)
    BY <1>5 DEF Finish
  <2>2. QED
    BY <1>1, <1>3, <2>1, ThrowKeeps
<1>6. QED
  BY <1>4, <1>5

(* A frame is under way while the fiber waits for its echo or its answer.  *)
LEMMA FrameUnderWay ==
  ASSUME Tables, NEW f \in BusFibers, Alone(f), NEW i \in DOMAIN line
  PROVE  /\ i = 1 /\ buffer[f] = <<>> /\ call[f] \in Requests
         /\ \/ line = <<Request(f)>> /\ done[f] = RB!NotDone
            \/ \E x : line = <<x>> /\ Fits(f, x)
         /\ \/ pc[f] = "echo" /\ (input = <<>> \/ \E e \in {Request(f), Garbage} : input = <<e>>)
            \/ pc[f] = "wait" /\ input = <<>>
<1>1. line # <<>>
  OBVIOUS
<1>2. /\ buffer[f] = <<>> /\ call[f] \in Requests /\ Under(f)
      /\ \/ pc[f] = "echo" /\ (input = <<>> \/ \E e \in {Request(f), Garbage} : input = <<e>>)
         \/ pc[f] = "wait" /\ input = <<>>
  BY <1>1 DEF Alone, Calling, InGap, InEcho, InWait, InCollect
<1>3. i = 1
  BY <1>1, <1>2, Single DEF Under
<1>4. QED
  BY <1>1, <1>2, <1>3 DEF Under

(* What is under way changes, and nothing else of the call.                *)
LEMMA UnderChanges ==
  ASSUME Tables, NEW f \in BusFibers, Alone(f), NEW i \in DOMAIN line, UNCHANGED <<fiberState, input>>,
         done' = done \/ \E d : done' = [done EXCEPT ![f] = d],
         Under(f)', Tables'
  PROVE  Quiet'
<1>1. UNCHANGED <<pc, call, buffer, input>> /\ Request(f)' = Request(f)
  BY DEF fiberState, Request
<1>2. InEcho(f)' \/ InWait(f)'
  BY <1>1, FrameUnderWay DEF InEcho, InWait
<1>3. \A g \in BusFibers \ {f} : Resting(g)'
  BY <1>1 DEF Alone, Resting, Tables
<1>4. QED
  BY <1>1, <1>2, <1>3, FrameUnderWay DEF Quiet, Alone, Calling

(* A frame is lost.                                                        *)
LEMMA LoseKeeps ==
  ASSUME Tables, NEW f \in BusFibers, Alone(f), NEW i \in DOMAIN line, Lose(i)
  PROVE  Quiet' /\ BankStep
<1>1. /\ line' = RemoveAt(line, i) /\ UNCHANGED <<fiberState, input, bank, done>>
  BY DEF Lose
<1>2. line' = <<>>
  BY <1>1, FrameUnderWay, Single
<1>3. Tables'
  BY <1>1 DEF Tables, fiberState
<1>4. QED
  BY <1>1, <1>2, <1>3, UnderChanges DEF Under, BankStep, RB!vars, fiberState

(* A frame arrives, perhaps as garbage.                                    *)
LEMMA DeliverKeeps ==
  ASSUME Tables, NEW f \in BusFibers, Alone(f), NEW i \in DOMAIN line, Deliver(i)
  PROVE  Quiet' /\ BankStep
<1>1. /\ line[1].kind # "request" /\ line' = RemoveAt(line, 1)
      /\ UNCHANGED <<fiberState, bank, done>>
      /\ \E frame \in {line[1], Garbage} : input' = Append(input, frame)
  BY FrameUnderWay DEF Deliver
<1>2. PICK x : line = <<x>> /\ Fits(f, x)
  BY <1>1, FrameUnderWay, RequestIs, Single
<1>3. line' = <<>> /\ line[1] = x
  BY <1>1, <1>2, Single
<1>4. PICK y \in {x, Garbage} : input' = Append(input, y)
  BY <1>1, <1>3
<1>5. Fits(f, y)
  BY <1>2, <1>4, RequestIs DEF Fits
<1>6. /\ UNCHANGED <<pc, call, buffer>> /\ Request(f)' = Request(f) /\ Fits(f, y)'
  BY <1>1, <1>5 DEF fiberState, Request, Fits, Given
<1>7. ASSUME input = <<>>, pc[f] = "echo" PROVE InEcho(f)'
  BY <1>3, <1>4, <1>6, <1>7, Single, FrameUnderWay DEF InEcho
<1>8. ASSUME input = <<>>, pc[f] = "wait" PROVE InWait(f)'
  BY <1>3, <1>4, <1>6, <1>8, Single, FrameUnderWay DEF InWait
<1>9. ASSUME NEW e \in {Request(f), Garbage}, input = <<e>>, pc[f] = "echo" PROVE InEcho(f)'
  <2>1. input' = <<e, y>>
    BY <1>4, <1>9, Pair
  <2>2. QED
    BY <1>3, <1>6, <1>9, <2>1, FrameUnderWay DEF InEcho
<1>10. InEcho(f)' \/ InWait(f)'
  BY <1>7, <1>8, <1>9, FrameUnderWay
<1>11. \A g \in BusFibers \ {f} : Resting(g)'
  BY <1>1, <1>6 DEF Alone, Resting
<1>12. Tables'
  BY <1>1 DEF Tables, fiberState
<1>13. QED
  BY <1>1, <1>6, <1>10, <1>11, <1>12, FrameUnderWay
  DEF Quiet, Alone, Calling, BankStep, RB!vars, fiberState

(* What a request of the model looks like.                                 *)
LEMMA RequestParts ==
  ASSUME NEW r \in Requests
  PROVE  /\ r.device \in Devices /\ r.count \in Nat \ {0} /\ r.address \in Nat
         /\ \A i \in 1..r.count : r.address + i - 1 \in Registers
         /\ r.function \in Reads \/ r.function \in Writes
         /\ r.function \in Writes <=> RB!IsWrite(r)
         /\ r.function \in Writes <=> r.function \notin Reads
         /\ r.function \in Writes => r.values \in [1..r.count -> Values]
<1>1. /\ r.device \in Devices /\ r.count \in Nat \ {0} /\ r.address \in Nat
      /\ r.address .. r.address + r.count - 1 \subseteq Registers
      /\ r.function \in Reads \/ r.function \in Writes
      /\ r.values \in Seq(Values) /\ Len(r.values) = IF r.function \in Reads THEN 0 ELSE r.count
  BY RequestsAssumption
<1>2. ASSUME NEW i \in 1..r.count PROVE r.address + i - 1 \in Registers
  BY <1>1, <1>2
<1>3. r.function \in Writes <=> r.function \notin Reads
  BY <1>1 DEF Reads, Writes
<1>4. r.function \in Writes <=> r.values # <<>>
  BY <1>1, <1>3
<1>5. r.function \in Writes => r.values \in [1..r.count -> Values]
  BY <1>1, <1>3
<1>6. QED
  BY <1>1, <1>2, <1>3, <1>4, <1>5 DEF RB!IsWrite

(* A write keeps the bank a bank; a read finds values, never NotDone.      *)
LEMMA WrittenBank ==
  ASSUME bank \in [Devices -> [Registers -> Values]], NEW r \in Requests, r.function \in Writes
  PROVE  RB!Written(bank, r) \in [Devices -> [Registers -> Values]]
<1>1. /\ r.values \in [1..r.count -> Values] /\ r.count \in Nat /\ r.address \in Nat /\ r.device \in Devices
  BY RequestParts
<1>2. ASSUME NEW a \in Registers, a \in RB!Span(r) PROVE r.values[a - r.address + 1] \in Values
  <2>1. a \in Int /\ a - r.address + 1 \in 1..r.count
    BY <1>1, <1>2 DEF RB!Span
  <2>2. QED
    BY <1>1, <2>1
<1> DEFINE row == bank[r.device]
           new == [a \in DOMAIN row |-> IF a \in RB!Span(r) THEN r.values[a - r.address + 1] ELSE row[a]]
<1>3. row \in [Registers -> Values] /\ DOMAIN row = Registers
  BY <1>1
<1>4. new \in [Registers -> Values]
  BY <1>2, <1>3
<1>5. RB!Written(bank, r) = [bank EXCEPT ![r.device] = new]
  BY DEF RB!Written
<1> HIDE DEF new
<1>6. QED
  BY <1>1, <1>4, <1>5

(* What a read finds are values as many as it asked for.                   *)
LEMMA FoundThere ==
  ASSUME bank \in [Devices -> [Registers -> Values]], NEW r \in Requests
  PROVE  /\ RB!Found(bank, r) \in Seq(Nat) /\ Len(RB!Found(bank, r)) = r.count
         /\ RB!Found(bank, r) # RB!NotDone
<1> DEFINE d == RB!Found(bank, r)
<1>1. r.count \in Nat \ {0} /\ r.device \in Devices /\ \A i \in 1..r.count : r.address + i - 1 \in Registers
  BY RequestParts
<1>2. \A i \in 1..r.count : bank[r.device][r.address + i - 1] \in Nat
  <2>1. bank[r.device] \in [Registers -> Values]
    BY <1>1
  <2>2. Values \subseteq Nat
    BY ValuesAssumption
  <2>3. QED
    BY <1>1, <2>1, <2>2
<1>3. d = [i \in 1..r.count |-> bank[r.device][r.address + i - 1]]
  BY DEF RB!Found
<1> HIDE DEF d
<1>4. d \in [1..r.count -> Nat]
  BY <1>2, <1>3
<1>5. d \in Seq(Nat) /\ Len(d) = r.count
  BY <1>1, <1>4
<1>6. d[1] \in Nat
  BY <1>1, <1>4
<1>7. d # RB!NotDone
  BY <1>6 DEF RB!NotDone
<1>8. QED
  BY <1>5, <1>7 DEF d

(* The device carries the request out and answers, or refuses.             *)
LEMMA AnswerKeeps ==
  ASSUME Tables, NEW f \in BusFibers, Alone(f), NEW i \in DOMAIN line, Answer(i)
  PROVE  Quiet' /\ BankStep
<1> DEFINE r == call[f]
           q == line[i]
<1>1. i = 1 /\ r \in Requests /\ q.kind = "request" /\ UNCHANGED <<fiberState, input, disturbed>>
  BY FrameUnderWay DEF Answer
<1>2. line = <<Request(f)>> /\ done[f] = RB!NotDone
  BY <1>1, FrameUnderWay, Single DEF Fits
<1>3. q = Request(f) /\ q.request = r /\ q.of = f
  BY <1>1, <1>2, Single, RequestIs
<1>4. UNCHANGED <<call, returned>>
  BY <1>1 DEF fiberState
<1>5. ASSUME NEW words, CarryOut(r, f), line' = [line EXCEPT ![i] = Frame("answer", r, f, words)],
             words = IF r.function \in Writes THEN Fields(r) ELSE RB!Found(bank, r)
      PROVE  Quiet' /\ BankStep
  <2> DEFINE d == IF r.function \in Writes THEN <<>> ELSE RB!Found(bank, r)
  <2>0. PICK x : x = Frame("answer", r, f, words)
    OBVIOUS
  <2>1. done' = [done EXCEPT ![f] = d] /\ bank' = IF r.function \in Writes THEN RB!Written(bank, r) ELSE bank
    BY <1>2, <1>5 DEF CarryOut
  <2>2. Tables'
    BY <1>1, <2>1, WrittenBank DEF Tables, fiberState
  <2>3. done'[f] = d /\ call'[f] = r
    BY <1>4, <2>1 DEF Tables
  <2>4. x.kind = "answer" /\ x.request = r /\ x.words = words
    BY <2>0 DEF Frame
  <2>5. Given(f)' /\ (r.function \in Reads => words = d)
    <3>1. r.function \in Writes <=> r.function \notin Reads
      BY <1>1, RequestParts
    <3>2. /\ RB!Found(bank, r) \in Seq(Nat) /\ Len(RB!Found(bank, r)) = r.count
          /\ RB!Found(bank, r) # RB!NotDone
      BY <1>1, FoundThere DEF Tables
    <3>3. CASE r.function \in Reads
      <4>1. d = RB!Found(bank, r) /\ words = d
        BY <1>5, <3>1, <3>3
      <4>2. QED
        BY <2>3, <3>2, <3>3, <4>1 DEF Given
    <3>4. CASE r.function \notin Reads
      BY <2>3, <3>1, <3>4 DEF Given
    <3>5. QED
      BY <3>3, <3>4
  <2> HIDE DEF d
  <2>6. Fits(f, x)'
    BY <1>4, <2>3, <2>4, <2>5 DEF Fits
  <2>7. line' = <<x>>
    <3>1. line' = [<<Request(f)>> EXCEPT ![1] = x]
      BY <1>1, <1>2, <1>5, <2>0
    <3>2. QED
      BY <3>1, Single
  <2>8. Under(f)'
    BY <2>6, <2>7 DEF Under
  <2>9. Quiet'
    BY <1>1, <2>1, <2>2, <2>8, UnderChanges
  <2>10. RB!CarryOut(f)
    <3>1. call[f] # RB!NoCall
      BY <1>1, CallsAreNone DEF NoCall
    <3>2. r.function \in Writes <=> RB!IsWrite(r)
      BY <1>1, RequestParts
    <3>3. QED
      BY <1>2, <1>4, <2>1, <3>1, <3>2 DEF RB!CarryOut, d
  <2>11. QED
    BY <2>9, <2>10 DEF BankStep, RB!Next
<1>6. ASSUME line' = [line EXCEPT ![i] = Frame("refusal", r, f, <<>>)], UNCHANGED <<bank, done>>
      PROVE  Quiet' /\ BankStep
  <2>1. PICK x : x = Frame("refusal", r, f, <<>>)
    OBVIOUS
  <2>2. line' = <<x>> /\ x.kind = "refusal"
    <3>1. line' = [<<Request(f)>> EXCEPT ![1] = x]
      BY <1>1, <1>2, <1>6, <2>1
    <3>2. QED
      BY <2>1, <3>1, Single DEF Frame
  <2>3. Under(f)'
    BY <2>2 DEF Under, Fits
  <2>4. Tables'
    BY <1>1, <1>6 DEF Tables, fiberState
  <2>5. QED
    BY <1>1, <1>4, <1>6, <2>3, <2>4, UnderChanges DEF BankStep, RB!vars
<1>7. QED
  BY <1>3, <1>5, <1>6 DEF Answer

(* As long as nothing disturbs the bus, every step keeps it quiet and is   *)
(* one of the bank.                                                        *)
LEMMA QuietSteps ==
  ASSUME Quiet, BusNext, ~disturbed'
  PROVE  Quiet' /\ BankStep
<1>0. Tables
  BY DEF Quiet
<1>1. ASSUME NEW f \in BusFibers, NEW r \in Requests, Begin(f, r) PROVE Quiet' /\ BankStep
  <2>1. \A g \in BusFibers : pc[g] = "idle"
    BY <1>1 DEF Begin, Busy
  <2>2. AllAtRest
    BY <2>1 DEF Quiet, Alone, Calling, InGap, InEcho, InWait, InCollect
  <2>3. QED
    BY <1>0, <1>1, <2>2, BeginKeeps
<1>2. ASSUME NEW f \in BusFibers, FiberStep(f) PROVE Quiet' /\ BankStep
  <2>1. pc[f] # "idle"
    BY <1>2 DEF FiberStep, Send, ReadEcho, EchoTimeout, Receive, ResponseTimeout, Finish
  <2>2. Alone(f)
    BY <2>1 DEF Quiet, AllAtRest, Alone, Resting
  <2>3. ~EchoTimeout(f)
    BY DEF EchoTimeout
  <2>4. QED
    BY <1>0, <1>2, <2>2, <2>3, SendKeeps, EchoKeeps, ReceiveKeeps, TimeoutKeeps, FinishKeeps DEF FiberStep
<1>3. ASSUME NEW i \in DOMAIN line, Answer(i) \/ Lose(i) \/ Deliver(i) PROVE Quiet' /\ BankStep
  <2>1. line # <<>>
    OBVIOUS
  <2>2. PICK f \in BusFibers : Alone(f)
    BY <2>1 DEF Quiet, AllAtRest
  <2>3. QED
    BY <1>0, <1>3, <2>2, AnswerKeeps, LoseKeeps, DeliverKeeps
<1>4. ~Noise
  BY DEF Noise
<1>5. QED
  BY <1>1, <1>2, <1>3, <1>4 DEF BusNext, BeginFunction, ReadCoils, WriteCoil, WriteCoils, ReadDiscreteInputs,
     ReadHoldingRegisters, WriteHoldingRegister, WriteHoldingRegisters, ReadInputRegisters

(* A disturbance is remembered for ever.                                   *)
LEMMA DisturbedStays == ASSUME BusNext, disturbed PROVE disturbed'
<1>1. ASSUME NEW f \in BusFibers, FiberStep(f) PROVE disturbed'
  BY <1>1 DEF FiberStep, Send, ReadEcho, EchoTimeout, Receive, ResponseTimeout, Finish
<1>2. ASSUME NEW i \in DOMAIN line, Answer(i) \/ Lose(i) \/ Deliver(i) PROVE disturbed'
  BY <1>2 DEF Answer, Lose, Deliver
<1>3. ASSUME NEW f \in BusFibers, NEW r \in Requests, Begin(f, r) PROVE disturbed'
  BY <1>3 DEF Begin
<1>4. QED
  BY <1>1, <1>2, <1>3 DEF Noise, BusNext, BeginFunction, ReadCoils, WriteCoil, WriteCoils, ReadDiscreteInputs,
     ReadHoldingRegisters, WriteHoldingRegister, WriteHoldingRegisters, ReadInputRegisters

(* The invariant and the bank at the beginning.                            *)
LEMMA BusStarts == ASSUME BusInit PROVE BusInv /\ RB!Init
<1>1. Tables
  BY ValuesAssumption DEF BusInit, Tables
<1>2. AllAtRest
  BY DEF BusInit, AllAtRest, Resting
<1>3. RB!Init
  BY DEF BusInit, RB!Init, NoCall
<1>4. QED
  BY <1>1, <1>2, <1>3 DEF BusInv, Quiet

(* The inductive step of both theorems.                                    *)
LEMMA BusSteps ==
  BusInv /\ [BusNext]_busVars => BusInv' /\ [~disturbed' => [RB!Next]_(RB!vars)]_busVars
<1>1. ASSUME BusInv, UNCHANGED busVars PROVE BusInv'
  <2>1. UNCHANGED <<input, line, pc, call, buffer, returned, bank, done, disturbed>>
    BY <1>1 DEF busVars
  <2>2. ASSUME NEW f PROVE Request(f)' = Request(f) /\ \A x : Fits(f, x)' <=> Fits(f, x)
    BY <2>1 DEF Request, Fits, Given
  <2>3. ASSUME NEW f PROVE Under(f)' <=> Under(f)
    BY <2>1, <2>2 DEF Under
  <2>4. ASSUME NEW f, Calling(f) PROVE Calling(f)'
    <3>1. InGap(f) => InGap(f)'
      BY <2>1 DEF InGap
    <3>2. InEcho(f) => InEcho(f)'
      BY <2>1, <2>2, <2>3 DEF InEcho
    <3>3. InWait(f) => InWait(f)'
      BY <2>1, <2>2, <2>3 DEF InWait
    <3>4. InCollect(f) => InCollect(f)'
      BY <2>1, <2>2 DEF InCollect
    <3>5. QED
      BY <2>1, <2>4, <3>1, <3>2, <3>3, <3>4 DEF Calling
  <2>5. Tables => Tables'
    BY <2>1 DEF Tables
  <2>6. AllAtRest => AllAtRest'
    BY <2>1 DEF AllAtRest, Resting
  <2>7. \A f : Alone(f) => Alone(f)'
    BY <2>1, <2>4 DEF Alone, Resting
  <2>8. QED
    BY <1>1, <2>1, <2>5, <2>6, <2>7 DEF BusInv, Quiet
<1>2. ASSUME BusInv, BusNext, ~disturbed' PROVE Quiet' /\ BankStep
  BY <1>2, DisturbedStays, QuietSteps DEF BusInv
<1>3. ASSUME BusInv, BusNext PROVE BusInv' /\ (~disturbed' => [RB!Next]_(RB!vars))
  BY <1>2, <1>3 DEF BusInv, BankStep
<1>4. QED
  BY <1>1, <1>3

(* The invariant of the bus holds for ever.                                *)
LEMMA BusInvAlways == BusSpec => []BusInv
<1>1. BusInit => BusInv
  BY BusStarts
<1>2. BusInv /\ [BusNext]_busVars => BusInv'
  BY BusSteps
<1>3. QED
  BY <1>1, <1>2, PTL DEF BusSpec

(* Between calls that do not overlap nothing is left over, whatever was    *)
(* lost, garbled or refused, for any number of fibers and any requests.    *)
THEOREM BusIsLeftClean == BusSpec => []NothingLeftBehind
<1>1. BusInv => NothingLeftBehind
  BY DEF BusInv, Quiet, NothingLeftBehind, AllAtRest, Alone, Calling, InGap, InEcho, InWait, InCollect, Busy
<1>2. QED
  BY <1>1, BusInvAlways, PTL

(* Under the same conditions the bus is a bank of registers: a call that   *)
(* returns was carried out once, and a read returns what it then found.    *)
THEOREM BusIsBank == BusSpec => BankWhileUndisturbed
<1>1. BusInit => RB!Init
  BY BusStarts
<1>2. BusInv /\ [BusNext]_busVars => [~disturbed' => [RB!Next]_(RB!vars)]_busVars
  BY BusSteps
<1>3. QED
  BY <1>1, <1>2, BusInvAlways, PTL DEF BusSpec, BankWhileUndisturbed

-----------------------------------------------------------------------------
(* Types                                                                   *)

OnLine == {x \in [kind : {"request", "answer", "refusal"}, request : Requests, of : BusFibers, words : Seq(Nat)] :
             x.kind = "answer" /\ x.request.function \in Reads => x.words \in Seq(Values)}
Arriving == OnLine \cup {Garbage}
CallOutcomes == Seq(Values) \cup {Exception, RB!NotDone}
CallTypes ==
    /\ pc \in [BusFibers -> {"idle", "gap", "echo", "wait", "collect"}]
    /\ call \in [BusFibers -> Requests \cup {NoCall}]
    /\ \A f \in BusFibers : call[f] = NoCall <=> pc[f] = "idle"
    /\ returned \in [BusFibers -> CallOutcomes] /\ done \in [BusFibers -> CallOutcomes]
WayTypes ==
    /\ input \in Seq(Arriving) /\ line \in Seq(OnLine)
    /\ buffer \in [BusFibers -> {b \in Seq(Arriving) : Len(b) < BufferFrames}]
    /\ bank \in [Devices -> [Registers -> Values]]
BusTypes == CallTypes /\ WayTypes

(* A sequence over a set stays one under the operators of the model.       *)
LEMMA SeqParts ==
  ASSUME NEW S, NEW s \in Seq(S)
  PROVE  /\ \A i \in DOMAIN s : RemoveAt(s, i) \in Seq(S) /\ s[i] \in S
         /\ \A i \in DOMAIN s, x \in S : [s EXCEPT ![i] = x] \in Seq(S)
         /\ s # <<>> => Tail(s) \in Seq(S) /\ Head(s) \in S
         /\ \A x \in S : Append(s, x) \in Seq(S)
<1>1. ASSUME NEW i \in DOMAIN s PROVE RemoveAt(s, i) \in Seq(S) /\ s[i] \in S
  <2>1. i \in 1..Len(s)
    OBVIOUS
  <2>2. SubSeq(s, 1, i - 1) \in Seq(S) /\ SubSeq(s, i + 1, Len(s)) \in Seq(S)
    BY <2>1
  <2>3. QED
    BY <2>1, <2>2 DEF RemoveAt
<1>2. ASSUME NEW i \in DOMAIN s, NEW x \in S PROVE [s EXCEPT ![i] = x] \in Seq(S)
  BY ExceptSeq
<1>3. QED
  BY <1>1, <1>2

(* A single is a sequence over the set of its element.                     *)
LEMMA SingleIn == ASSUME NEW S, NEW x \in S PROVE <<x>> \in Seq(S)
OBVIOUS

(* The frames a call puts on the line.                                     *)
LEMMA FramesAre ==
  ASSUME NEW r \in Requests, NEW f \in BusFibers
  PROVE  /\ Fields(r) \in Seq(Nat)
         /\ \A kind \in {"request", "refusal"}, words \in Seq(Nat) : Frame(kind, r, f, words) \in OnLine
         /\ \A words \in Seq(Nat) : (r.function \in Reads => words \in Seq(Values))
              => Frame("answer", r, f, words) \in OnLine
<1>1. /\ r.address \in Nat /\ r.count \in Nat \ {0} /\ r.values \in Seq(Values)
      /\ r.function \in Singles => r.function \notin Reads /\ Len(r.values) = 1
  BY RequestsAssumption DEF Singles, Reads
<1>2. CASE r.function \in Singles
  <2>1. r.values[1] \in Values
    <3>1. r.values \in Seq(Values) /\ Len(r.values) = 1
      BY <1>1, <1>2
    <3>2. QED
      BY <3>1
  <2>2. CoilWord(r.values[1]) \in Nat /\ r.values[1] \in Nat
    <3>1. PICK v : v = r.values[1]
      OBVIOUS
    <3>2. v \in Nat
      BY <2>1, <3>1, ValuesAssumption
    <3>3. CoilWord(v) \in Nat
      BY <3>2 DEF CoilWord
    <3>4. QED
      BY <3>1, <3>2, <3>3
  <2>3. QED
    BY <1>1, <1>2, <2>2 DEF Fields, Singles, Frame, OnLine
<1>3. CASE r.function \notin Singles
  BY <1>1, <1>3 DEF Fields, Singles, Frame, OnLine
<1>4. QED
  BY <1>2, <1>3

(* How the sets of frames and of results include one another.              *)
LEMMA SortsOfFrames ==
  /\ Garbage \in Arriving /\ OnLine \subseteq Arriving /\ <<>> \in CallOutcomes
  /\ Exception \in CallOutcomes /\ RB!NotDone \in CallOutcomes
  /\ Seq(Values) \subseteq CallOutcomes /\ Seq(Values) \subseteq Seq(Nat)
<1>1. ASSUME NEW s \in Seq(Values) PROVE s \in Seq(Nat)
  BY SeqMonotonic, ValuesAssumption
<1>2. QED
  BY <1>1 DEF Arriving, CallOutcomes

(* What a read finds are values.                                           *)
LEMMA FoundValues ==
  ASSUME bank \in [Devices -> [Registers -> Values]], NEW r \in Requests
  PROVE  RB!Found(bank, r) \in Seq(Values)
<1>1. r.count \in Nat \ {0} /\ r.device \in Devices /\ \A i \in 1..r.count : r.address + i - 1 \in Registers
  BY RequestParts
<1>2. bank[r.device] \in [Registers -> Values]
  BY <1>1
<1>3. \A i \in 1..r.count : bank[r.device][r.address + i - 1] \in Values
  BY <1>1, <1>2
<1>4. QED
  BY <1>1, <1>3 DEF RB!Found

(* A step that moves on with the same call keeps the types of calls.       *)
LEMMA CallTypesKept ==
  ASSUME BusTypes, NEW f \in BusFibers,
         NEW p \in {"gap", "echo", "wait", "collect"}, pc[f] # "idle", pc' = [pc EXCEPT ![f] = p],
         UNCHANGED <<call, returned, done>>
  PROVE  CallTypes'
BY DEF BusTypes, CallTypes

(* Each step keeps the types.  A call ends.                                *)
LEMMA EndTypes ==
  ASSUME BusTypes, NEW f \in BusFibers, NEW v \in CallOutcomes, Return(f, v), UNCHANGED <<line, bank>>,
         input' \in Seq(Arriving)
  PROVE  BusTypes'
<1>1. /\ pc' = [pc EXCEPT ![f] = "idle"] /\ call' = [call EXCEPT ![f] = NoCall]
      /\ buffer' = [buffer EXCEPT ![f] = <<>>] /\ returned' = [returned EXCEPT ![f] = v]
      /\ done' = [done EXCEPT ![f] = RB!NotDone]
  BY DEF Return
<1>2. CallTypes'
  BY <1>1, SortsOfFrames DEF BusTypes, CallTypes
<1>3. <<>> \in {b \in Seq(Arriving) : Len(b) < BufferFrames}
  BY BufferAssumption
<1>4. WayTypes'
  BY <1>1, <1>3 DEF BusTypes, WayTypes
<1>5. QED
  BY <1>2, <1>4 DEF BusTypes

(* It ends by throwing.                                                    *)
LEMMA ThrowTypes ==
  ASSUME BusTypes, NEW f \in BusFibers, Throw(f), UNCHANGED <<line, bank>>, input' \in Seq(Arriving)
  PROVE  BusTypes'
<1>1. Return(f, Exception)
  BY DEF Throw
<1>2. QED
  BY <1>1, EndTypes, SortsOfFrames

(* It begins.                                                              *)
LEMMA BeginTypes ==
  ASSUME BusTypes, NEW f \in BusFibers, NEW r \in Requests, Begin(f, r)
  PROVE  BusTypes'
<1>1. /\ pc' = [pc EXCEPT ![f] = "gap"] /\ call' = [call EXCEPT ![f] = r]
      /\ returned' = [returned EXCEPT ![f] = <<>>] /\ UNCHANGED <<input, line, buffer, done, bank>>
  BY DEF Begin, outside
<1>2. CallTypes'
  BY <1>1, CallsAreNone, SortsOfFrames DEF BusTypes, CallTypes
<1>3. WayTypes'
  BY <1>1 DEF BusTypes, WayTypes
<1>4. QED
  BY <1>2, <1>3 DEF BusTypes

(* The request of a call is a frame.                                       *)
LEMMA RequestSent ==
  ASSUME BusTypes, NEW f \in BusFibers, pc[f] # "idle"
  PROVE  call[f] \in Requests /\ Request(f) \in OnLine
<1>1. call[f] \in Requests
  BY DEF BusTypes, CallTypes
<1>2. QED
  BY <1>1, FramesAre DEF Request

(* Its request leaves.                                                     *)
LEMMA SendTypes ==
  ASSUME BusTypes, NEW f \in BusFibers, Send(f)
  PROVE  BusTypes'
<1>1. pc[f] = "gap" /\ line' = Append(line, Request(f)) /\ UNCHANGED <<outside, call, buffer, returned, done>>
  BY DEF Send
<1>2. Request(f) \in OnLine /\ Request(f) \in Arriving
  BY <1>1, RequestSent, SortsOfFrames
<1>3. input \in Seq(Arriving) /\ line' \in Seq(OnLine)
  BY <1>1, <1>2 DEF BusTypes, WayTypes
<1>4. \E p \in {"echo", "wait"} : pc' = [pc EXCEPT ![f] = p]
  BY DEF Send
<1>5. input' \in Seq(Arriving)
  <2>1. CASE tx_echo
    <3>1. PICK echo \in {<<Request(f)>>, <<Garbage>>, <<>>} : input' = input \o echo
      BY <2>1 DEF Send
    <3>2. <<Request(f)>> \in Seq(Arriving) /\ <<Garbage>> \in Seq(Arriving)
      <4>1. ASSUME NEW x \in Arriving PROVE <<x>> \in Seq(Arriving)
        OBVIOUS
      <4>2. QED
        BY <1>2, <4>1, SortsOfFrames
    <3>3. echo \in Seq(Arriving)
      <4>1. <<>> \in Seq(Arriving)
        OBVIOUS
      <4>2. QED
        BY <3>1, <3>2, <4>1, Zenon
    <3>4. QED
      BY <1>3, <3>1, <3>3
  <2>2. CASE ~tx_echo
    BY <1>3, <2>2 DEF Send
  <2>3. QED
    BY <2>1, <2>2
<1>6. CallTypes'
  BY <1>1, <1>4, CallTypesKept
<1>7. WayTypes'
  BY <1>1, <1>3, <1>5 DEF BusTypes, WayTypes, outside
<1>8. QED
  BY <1>6, <1>7 DEF BusTypes

(* The echo is taken, or something else is taken for it.                   *)
LEMMA EchoTypes ==
  ASSUME BusTypes, NEW f \in BusFibers, ReadEcho(f)
  PROVE  BusTypes'
<1>1. pc[f] = "echo" /\ input # <<>> /\ UNCHANGED <<outside, line>>
  BY DEF ReadEcho
<1>2. input \in Seq(Arriving) /\ Tail(input) \in Seq(Arriving)
  BY <1>1, SeqParts DEF BusTypes, WayTypes
<1>3. CASE Repeats(Head(input), call[f])
  <2>1. /\ input' = Tail(input) /\ pc' = [pc EXCEPT ![f] = "wait"]
        /\ UNCHANGED <<call, buffer, returned, done>>
    BY <1>3 DEF ReadEcho
  <2>2. CallTypes'
    BY <1>1, <2>1, CallTypesKept
  <2>3. WayTypes'
    BY <1>1, <1>2, <2>1 DEF BusTypes, WayTypes, outside
  <2>4. QED
    BY <2>2, <2>3 DEF BusTypes
<1>4. CASE ~Repeats(Head(input), call[f])
  <2>1. /\ input' \in {Tail(input), <<Garbage>> \o Tail(input)}
                          \cup (IF Len(input) > 1
                                THEN {<<Garbage>> \o Tail(Tail(input))} ELSE {})
        /\ Throw(f)
    BY <1>4 DEF ReadEcho
  <2>2. <<Garbage>> \in Seq(Arriving)
    <3>1. ASSUME NEW x \in Arriving PROVE <<x>> \in Seq(Arriving)
      OBVIOUS
    <3>2. QED
      BY <3>1, SortsOfFrames
  <2>3. ASSUME Len(input) > 1 PROVE Tail(Tail(input)) \in Seq(Arriving)
    <3>1. Len(Tail(input)) = Len(input) - 1
      BY <1>1, <1>2, SeqParts DEF BusTypes, WayTypes
    <3>2. Tail(input) # <<>>
      BY <2>3, <3>1
    <3>3. QED
      BY <1>2, <3>2, SeqParts
  <2>4. input' \in Seq(Arriving)
    BY <1>2, <2>1, <2>2, <2>3, ConcatProperties
  <2>5. QED
    BY <1>1, <2>1, <2>4, ThrowTypes DEF outside
<1>5. QED
  BY <1>3, <1>4

(* Frames join the buffer, or overflow it and the call throws.             *)
LEMMA ReceiveTypes ==
  ASSUME BusTypes, NEW f \in BusFibers, Receive(f)
  PROVE  BusTypes'
<1>1. pc[f] \in {"wait", "collect"} /\ input # <<>> /\ UNCHANGED <<outside, line, disturbed>>
  BY DEF Receive
<1>2. input \in Seq(Arriving) /\ buffer[f] \in Seq(Arriving) /\ Len(buffer[f]) < BufferFrames
  BY DEF BusTypes, WayTypes
<1> DEFINE room == BufferFrames - Len(buffer[f])
<1>3. room \in Nat \ {0}
  BY <1>2, BufferAssumption
<1>4. CASE Len(input) < room
  <2>1. /\ buffer' = [buffer EXCEPT ![f] = @ \o input] /\ input' = <<>>
        /\ pc' = [pc EXCEPT ![f] = "collect"] /\ UNCHANGED <<call, returned, done>>
    BY <1>4 DEF Receive
  <2>2. buffer[f] \o input \in Seq(Arriving) /\ Len(buffer[f] \o input) < BufferFrames
    BY <1>2, <1>4, BufferAssumption
  <2>3. WayTypes'
    BY <1>1, <2>1, <2>2 DEF BusTypes, WayTypes, outside
  <2>4. CallTypes'
    BY <1>1, <2>1, CallTypesKept
  <2>5. QED
    BY <2>3, <2>4 DEF BusTypes
<1>5. CASE ~(Len(input) < room)
  <2>1. input' = SubSeq(input, room + 1, Len(input)) /\ Throw(f)
    BY <1>5 DEF Receive
  <2>2. input' \in Seq(Arriving)
    BY <1>2, <1>3, <2>1
  <2>3. QED
    BY <1>1, <2>1, <2>2, ThrowTypes DEF outside
<1>6. QED
  BY <1>4, <1>5

(* The pause ends the response, which is accepted or not.                  *)
LEMMA FinishTypes ==
  ASSUME BusTypes, NEW f \in BusFibers, Finish(f)
  PROVE  BusTypes'
<1>1. pc[f] = "collect" /\ UNCHANGED <<outside, input, line>>
  BY DEF Finish
<1>2. input' \in Seq(Arriving) /\ buffer[f] \in Seq(Arriving) /\ UNCHANGED <<line, bank>>
  BY <1>1 DEF BusTypes, WayTypes, outside
<1> DEFINE r == call[f]
<1>3. r \in Requests /\ r.count \in Nat
  BY <1>1, RequestSent, RequestParts
<1>4. CASE Accepts(r, buffer[f])
  <2>1. CASE r.function \in Reads
    <3>1. /\ Len(buffer[f]) = 1 /\ buffer[f][1].kind = "answer"
          /\ buffer[f][1].request.function = r.function
      BY <1>4, <2>1 DEF Accepts, Plausible, ArrayFits
    <3>2. buffer[f][1] \in Arriving
      BY <1>2, <3>1
    <3>3. PICK x : x = buffer[f][1]
      OBVIOUS
    <3>4. x.words \in Seq(Values)
      BY <2>1, <3>1, <3>2, <3>3 DEF Arriving, OnLine, Garbage
    <3>5. ASSUME NEW i \in 1..r.count PROVE (IF i <= Len(x.words) THEN x.words[i] ELSE 0) \in Values
      <4>1. CASE i <= Len(x.words)
        BY <1>3, <3>4, <4>1
      <4>2. CASE ~(i <= Len(x.words))
        BY <4>2, ValuesAssumption
      <4>3. QED
        BY <4>1, <4>2
    <3>6. ReadArray(r, x) \in Seq(Values)
      BY <1>3, <3>5 DEF ReadArray
    <3>7. Return(f, ReadArray(r, x))
      BY <1>4, <2>1, <3>3 DEF Finish
    <3>8. ReadArray(r, x) \in CallOutcomes
      BY <3>6, SortsOfFrames
    <3>9. QED
      BY <1>2, <3>7, <3>8, EndTypes
  <2>2. CASE r.function \notin Reads
    <3>1. Return(f, <<>>)
      BY <1>4, <2>2 DEF Finish
    <3>2. QED
      BY <1>2, <3>1, EndTypes, SortsOfFrames
  <2>3. QED
    BY <2>1, <2>2
<1>5. CASE ~Accepts(r, buffer[f])
  <2>1. Throw(f)
    BY <1>5 DEF Finish
  <2>2. QED
    BY <1>2, <2>1, ThrowTypes
<1>6. QED
  BY <1>4, <1>5

(* Steps of the line and of the devices.                                   *)
LEMMA LineTypes ==
  ASSUME BusTypes, NEW i \in DOMAIN line, Answer(i) \/ Lose(i) \/ Deliver(i)
  PROVE  BusTypes'
<1>1. /\ line \in Seq(OnLine) /\ RemoveAt(line, i) \in Seq(OnLine) /\ line[i] \in OnLine /\ input \in Seq(Arriving)
      /\ UNCHANGED <<pc, call, buffer, returned>>
  BY SeqParts DEF BusTypes, WayTypes, Answer, Lose, Deliver, fiberState
<1>2. ASSUME UNCHANGED <<bank, done>>, input' \in Seq(Arriving), line' \in Seq(OnLine) PROVE BusTypes'
  BY <1>1, <1>2 DEF BusTypes, CallTypes, WayTypes
<1>3. CASE Lose(i)
  BY <1>1, <1>2, <1>3 DEF Lose
<1>4. CASE Deliver(i)
  <2>1. PICK frame \in {line[i], Garbage} : input' = Append(input, frame)
    BY <1>4 DEF Deliver
  <2>2. frame \in Arriving
    BY <1>1, <2>1, SortsOfFrames
  <2>3. input' \in Seq(Arriving)
    BY <1>1, <2>1, <2>2
  <2>4. QED
    BY <1>1, <1>2, <1>4, <2>3 DEF Deliver
<1>5. CASE Answer(i)
  <2> DEFINE q == line[i]
             r == q.request
  <2>1. r \in Requests /\ q.of \in BusFibers
    BY <1>1 DEF OnLine
  <2>2. \A x \in OnLine : [line EXCEPT ![i] = x] \in Seq(OnLine)
    BY <1>1, SeqParts
  <2>3. RB!Found(bank, r) \in Seq(Values) /\ bank \in [Devices -> [Registers -> Values]]
    BY <2>1, FoundValues DEF BusTypes, WayTypes
  <2>4. ASSUME CarryOut(r, q.of) PROVE done' \in [BusFibers -> CallOutcomes] /\ bank' \in [Devices -> [Registers -> Values]]
    <3>1. done' \in [BusFibers -> CallOutcomes]
      BY <2>1, <2>3, <2>4, SortsOfFrames DEF CarryOut, BusTypes, CallTypes
    <3>2. bank' = IF r.function \in Writes THEN RB!Written(bank, r) ELSE bank
      BY <2>4 DEF CarryOut
    <3> HIDE DEF r
    <3>3. bank' \in [Devices -> [Registers -> Values]]
      BY <2>1, <2>3, <3>2, WrittenBank
    <3>4. QED
      BY <3>1, <3>3
  <2>5. ASSUME NEW words, words = IF r.function \in Writes THEN Fields(r) ELSE RB!Found(bank, r)
        PROVE  Frame("answer", r, q.of, words) \in OnLine
    <3>1. r.function \in Writes <=> r.function \notin Reads
      BY <2>1, RequestParts
    <3>2. words \in Seq(Nat) /\ (r.function \in Reads => words \in Seq(Values))
      BY <2>1, <2>3, <2>5, <3>1, FramesAre, SortsOfFrames
    <3>3. QED
      BY <2>1, <3>2, FramesAre
  <2>6. Frame("refusal", r, q.of, <<>>) \in OnLine
    <3>1. <<>> \in Seq(Nat)
      OBVIOUS
    <3>2. QED
      BY <2>1, <3>1, FramesAre
  <2>7. CASE CarryOut(r, q.of) /\ line' = [line EXCEPT ![i] =
                    Frame("answer", r, q.of,
                          IF r.function \in Writes THEN Fields(r) ELSE RB!Found(bank, r))]
    <3>1. line' \in Seq(OnLine)
      BY <2>2, <2>5, <2>7
    <3>2. input' = input
      BY <1>5 DEF Answer
    <3>3. QED
      BY <1>1, <2>4, <2>7, <3>1, <3>2 DEF BusTypes, CallTypes, WayTypes
  <2>8. CASE line' = [line EXCEPT ![i] = Frame("refusal", r, q.of, <<>>)] /\ UNCHANGED <<bank, done>>
    <3>1. line' \in Seq(OnLine)
      BY <2>2, <2>6, <2>8
    <3>2. input' = input
      BY <1>5 DEF Answer
    <3>3. QED
      BY <1>1, <1>2, <2>8, <3>1, <3>2
  <2>9. QED
    BY <1>5, <2>7, <2>8 DEF Answer
<1>6. QED
  BY <1>3, <1>4, <1>5

(* Noise and time-outs.                                                    *)
LEMMA OtherTypes ==
  ASSUME BusTypes, Noise \/ \E f \in BusFibers : EchoTimeout(f) \/ ResponseTimeout(f)
  PROVE  BusTypes'
<1>1. CASE Noise
  <2>1. input' = Append(input, Garbage) /\ UNCHANGED <<fiberState, line, bank, done>>
    BY <1>1 DEF Noise
  <2>2. input' \in Seq(Arriving)
    BY <2>1, SortsOfFrames, SeqParts DEF BusTypes, WayTypes
  <2>3. QED
    BY <2>1, <2>2 DEF BusTypes, CallTypes, WayTypes, fiberState
<1>2. ASSUME NEW f \in BusFibers, EchoTimeout(f) \/ ResponseTimeout(f) PROVE BusTypes'
  <2>1. Throw(f) /\ UNCHANGED <<line, bank, input>>
    BY <1>2 DEF EchoTimeout, ResponseTimeout, outside
  <2>2. input' \in Seq(Arriving)
    BY <2>1 DEF BusTypes, WayTypes
  <2>3. QED
    BY <2>1, <2>2, ThrowTypes
<1>3. QED
  BY <1>1, <1>2

(* The types are inductive.                                                *)
LEMMA BusTypesStep == BusTypes /\ [BusNext]_busVars => BusTypes'
<1>1. ASSUME BusTypes, UNCHANGED busVars PROVE BusTypes'
  BY <1>1 DEF busVars, BusTypes, CallTypes, WayTypes
<1>2. ASSUME BusTypes, NEW f \in BusFibers, FiberStep(f) PROVE BusTypes'
  BY <1>2, SendTypes, EchoTypes, ReceiveTypes, FinishTypes, OtherTypes DEF FiberStep
<1>3. ASSUME BusTypes, BusNext PROVE BusTypes'
  BY <1>2, <1>3, BeginTypes, LineTypes, OtherTypes
  DEF BusNext, BeginFunction, ReadCoils, WriteCoil, WriteCoils, ReadDiscreteInputs,
     ReadHoldingRegisters, WriteHoldingRegister, WriteHoldingRegisters, ReadInputRegisters
<1>4. QED
  BY <1>1, <1>3

(* The types at the beginning.                                             *)
LEMMA BusTypesInit == BusInit => BusTypes
<1> SUFFICES ASSUME BusInit PROVE BusTypes
  OBVIOUS
<1>1. CallTypes
  BY SortsOfFrames DEF BusInit, CallTypes
<1>2. <<>> \in {b \in Seq(Arriving) : Len(b) < BufferFrames}
  BY BufferAssumption
<1>3. WayTypes
  BY <1>2, ValuesAssumption DEF BusInit, WayTypes
<1>4. QED
  BY <1>1, <1>3 DEF BusTypes

(* Every variable of the bus stays in its range, and the buffer of a       *)
(* response never overflows, also while calls overlap.                     *)
THEOREM BusTypesHold == BusSpec => []BusTypeOK
<1>1. BusTypes => BusTypeOK
  <2> SUFFICES ASSUME BusTypes PROVE BusTypeOK
    OBVIOUS
  <2>1. Values \cup Nat = Nat
    BY ValuesAssumption
  <2>2. Garbage \in Frames /\ Arriving \subseteq Frames /\ OnLine \subseteq Frames \ {Garbage}
    BY <2>1 DEF Frames, Arriving, OnLine, Garbage
  <2>3. input \in Seq(Frames) /\ line \in Seq(Frames \ {Garbage})
    BY <2>2, SeqMonotonic DEF BusTypes, WayTypes
  <2>4. ASSUME NEW f \in BusFibers PROVE buffer[f] \in Seq(Frames) /\ Len(buffer[f]) < BufferFrames
    <3>1. buffer[f] \in Seq(Arriving) /\ Len(buffer[f]) < BufferFrames
      BY DEF BusTypes, WayTypes
    <3>2. QED
      BY <2>2, <3>1, SeqMonotonic
  <2>5. ASSUME NEW f \in BusFibers PROVE call[f] \in Requests \cup {NoCall} /\ (call[f] = NoCall) = (pc[f] = "idle")
    BY DEF BusTypes, CallTypes
  <2>6. QED
    BY <2>3, <2>4, <2>5 DEF BusTypeOK, BusTypes, CallTypes, WayTypes, Results, CallOutcomes
<1>2. QED
  BY <1>1, BusTypesInit, BusTypesStep, PTL DEF BusSpec

-----------------------------------------------------------------------------
(* The servo.  The queue of the bus, of which at most one call of each     *)
(* fiber is part.                                                          *)
OnlyUser    == <<"user">>
OnlyControl == <<"control">>
UserFirst   == <<"user", "control">>
UserLast    == <<"control", "user">>
WithUser    == {OnlyUser, UserFirst, UserLast}
WithControl == {OnlyControl, UserFirst, UserLast}
Queues      == {<<>>} \cup WithUser \cup WithControl

(* The queues differ.                                                      *)
LEMMA QueuesDiffer ==
  /\ OnlyUser # <<>> /\ OnlyControl # <<>> /\ UserFirst # <<>> /\ UserLast # <<>>
  /\ OnlyUser # OnlyControl /\ OnlyUser # UserFirst /\ OnlyUser # UserLast
  /\ OnlyControl # UserFirst /\ OnlyControl # UserLast /\ UserFirst # UserLast
BY DEF OnlyUser, OnlyControl, UserFirst, UserLast

(* Their heads and tails, and the queues that a call makes longer.         *)
LEMMA QueueParts ==
  /\ Head(OnlyUser) = "user" /\ Head(OnlyControl) = "control"
  /\ Head(UserFirst) = "user" /\ Head(UserLast) = "control"
  /\ Tail(OnlyUser) = <<>> /\ Tail(OnlyControl) = <<>>
  /\ Tail(UserFirst) = OnlyControl /\ Tail(UserLast) = OnlyUser
  /\ Append(<<>>, "user") = OnlyUser /\ Append(<<>>, "control") = OnlyControl
  /\ Append(OnlyUser, "control") = UserFirst /\ Append(OnlyControl, "user") = UserLast
<1>1. /\ Head(OnlyUser) = "user" /\ Head(OnlyControl) = "control"
      /\ Head(UserFirst) = "user" /\ Head(UserLast) = "control"
  BY DEF OnlyUser, OnlyControl, UserFirst, UserLast
<1>2. Tail(OnlyUser) = <<>> /\ Tail(OnlyControl) = <<>>
  BY DEF OnlyUser, OnlyControl
<1>3. Tail(UserFirst) = OnlyControl
  BY DEF OnlyControl, UserFirst
<1>4. Tail(UserLast) = OnlyUser
  BY DEF OnlyUser, UserLast
<1>5. /\ Append(<<>>, "user") = OnlyUser /\ Append(<<>>, "control") = OnlyControl
  BY DEF OnlyUser, OnlyControl
<1>6. /\ Append(OnlyUser, "control") = UserFirst /\ Append(OnlyControl, "user") = UserLast
  BY Pair DEF OnlyUser, OnlyControl, UserFirst, UserLast
<1>7. QED
  BY <1>1, <1>2, <1>3, <1>4, <1>5, <1>6

(* A fiber that leaves the queue, and one that stands in it again.         *)
LEMMA Leaving ==
  ASSUME bus \in Queues
  PROVE  /\ Others("control") = IF bus \in WithUser THEN OnlyUser ELSE <<>>
         /\ Others("user") = IF bus \in WithControl THEN OnlyControl ELSE <<>>
         /\ Append(Others("control"), "control") = IF bus \in WithUser THEN UserFirst ELSE OnlyControl
<1>1. /\ Others("control") = IF bus \in WithUser THEN OnlyUser ELSE <<>>
      /\ Others("user") = IF bus \in WithControl THEN OnlyControl ELSE <<>>
  <2> USE QueuesDiffer, QueueParts DEF Others, WithUser, WithControl
  <2>1. CASE bus = <<>>
    BY <2>1
  <2>2. CASE bus = OnlyUser
    BY <2>2 DEF OnlyUser
  <2>3. CASE bus = OnlyControl
    BY <2>3 DEF OnlyControl
  <2>4. CASE bus = UserFirst
    BY <2>4 DEF OnlyUser
  <2>5. CASE bus = UserLast
    BY <2>5 DEF OnlyControl
  <2>6. QED
    BY <2>1, <2>2, <2>3, <2>4, <2>5 DEF Queues
<1>2. QED
  BY <1>1, QueueParts

(* A call of the user joins at the end.                                    *)
LEMMA Joining ==
  ASSUME bus \in Queues, bus \notin WithUser
  PROVE  Append(bus, "user") = IF bus \in WithControl THEN UserLast ELSE OnlyUser
BY QueuesDiffer, QueueParts DEF Queues, WithUser, WithControl

(* Who is served waits, and in order waits first.                          *)
LEMMA Serving ==
  ASSUME bus \in Queues
  PROVE  /\ Served("user") => bus \in WithUser /\ (InOrder => bus # UserLast)
         /\ Served("control") => bus \in WithControl /\ (InOrder => bus # UserFirst)
<1> USE DEF Served, WithUser, WithControl, Queues
<1>1. CASE bus = <<>>
  BY <1>1
<1>2. CASE bus = OnlyUser
  BY <1>2, QueuesDiffer DEF OnlyUser
<1>3. CASE bus = OnlyControl
  BY <1>3, QueuesDiffer DEF OnlyControl
<1>4. CASE bus = UserFirst
  <2>1. UserFirst[1] = "user" /\ Head(UserFirst) = "user"
    BY DEF UserFirst
  <2>2. QED
    BY <1>4, <2>1, QueuesDiffer
<1>5. CASE bus = UserLast
  <2>1. UserLast[1] = "control" /\ Head(UserLast) = "control"
    BY DEF UserLast
  <2>2. QED
    BY <1>5, <2>1, QueuesDiffer
<1>6. QED
  BY <1>1, <1>2, <1>3, <1>4, <1>5

-----------------------------------------------------------------------------
(* The inductive invariant.                                                *)

(* ServoRanges, and who waits for the bus.                                      *)
Drives == [mode : Modes, goal : Targets, motion : {"IDLE", "ACTIVE", "ERROR"}]
ServoRanges ==
    /\ servo_enabled \in BOOLEAN /\ mc_enabled \in BOOLEAN /\ vfoc_enabled \in BOOLEAN
    /\ bus_lax_response \in BOOLEAN /\ mc_prev \in BOOLEAN
    /\ servo_target \in Targets /\ target \in Targets
    /\ user \in ModeCalls \cup {None} /\ mode_write \in ModeCalls \cup {None}
    /\ fiber \in {"CONSTRUCTED", "RUNNING", "STOPPED", "CRASHED"}
    /\ drive \in Drives
Waiting ==
    /\ at \in Waits
    /\ fiber # "RUNNING" => at = "start"
    /\ mode_write # None <=> at \in WriteWaits
    /\ bus \in Queues
    /\ user # None <=> bus \in WithUser
    /\ at \notin {"start", "sleep"} <=> bus \in WithControl

(* mc_prev is what ProcessServoTargets found, and has been restored or is  *)
(* being restored wherever the control fiber is not inside of it.          *)
Restoring == at \in {"start", "restore", "unwind"} => mc_enabled = mc_prev

ServoInv == ServoRanges /\ Waiting /\ Restoring

(* The last of the writes of the work mode that wait asks for the mode of  *)
(* the flags; if none waits, the drive is in it.                           *)
Asked == Mode(servo_enabled, vfoc_enabled, mc_enabled)
LastAsks ==
    ~bus_fails =>
        /\ mode_write # None /\ bus # UserLast => mode_write.mode = Asked
        /\ user # None /\ (mode_write = None \/ bus = UserLast) => user.mode = Asked
        /\ user = None /\ mode_write = None => drive.mode = Asked

(* What a step of the control fiber is made of: it leaves the user alone,  *)
(* has an effect on the drive, and goes on to a wait, to a switch of the   *)
(* motion controller or to an end.                                         *)
Goes(w) == w \in Waits \ (WriteWaits \cup {"start"}) /\ WaitAt(w)
Switches(mc, w) ==
    /\ mc \in BOOLEAN /\ w \in WriteWaits /\ Switch(mc, w)
    /\ w \in {"restore", "unwind"} => mc = mc_prev'
Ends(s) == s \in {"STOPPED", "CRASHED"} /\ End(s) /\ mc_enabled = mc_prev'
ServoMove ==
    \/ \E w \in Waits : Goes(w)
    \/ \E mc \in BOOLEAN, w \in WriteWaits : Switches(mc, w)
    \/ \E s \in {"STOPPED", "CRASHED"} : Ends(s)
(* The drive after the step, if no call fails and the user waits for none. *)
Settled == ~bus_fails => IF user # None THEN user.mode = Asked ELSE drive'.mode = Asked

(* The waits by kind.                                                      *)
LEMMA WaitsAre ==
  /\ WriteWaits \subseteq Waits /\ "start" \in Waits /\ "start" \notin WriteWaits
  /\ {"before", "send", "poll", "sleep", "disabled"} \subseteq Waits \ (WriteWaits \cup {"start"})
  /\ {"enter", "halt", "resume", "halt off", "resume off", "restore", "unwind"} = WriteWaits
BY DEF Waits, WriteWaits

(* The drive in a mode it has taken.                                       *)
LEMMA TakenMode ==
  ASSUME ServoRanges, NEW m \in Modes
  PROVE  TakesMode(m) \in Drives /\ TakesMode(m).mode = m
BY DEF TakesMode, ServoRanges, Drives

(* No call of WorkMode is None.                                            *)
LEMMA NoneIsNoCall == None \notin ModeCalls
BY DEF None, ModeCalls

(* Waiting for the mode, the control fiber is served: the drive takes it.  *)
LEMMA ControlWrites ==
  ASSUME ServoInv, Served("control"), mode_write # None, NEW b \in BOOLEAN, WritesMode(mode_write, b)
  PROVE  /\ drive' \in Drives /\ fiber = "RUNNING"
         /\ InOrder /\ LastAsks => Settled
<1>1. mode_write \in ModeCalls /\ mode_write.mode \in Modes
  BY DEF ServoInv, ServoRanges, ModeCalls
<1>2. drive' \in Drives
  BY <1>1, TakenMode DEF WritesMode, ServoInv, ServoRanges
<1>3. ~bus_fails => drive' = TakesMode(mode_write.mode)
  BY DEF WritesMode
<1>4. bus \in WithControl /\ (InOrder => bus # UserFirst)
  BY Serving DEF ServoInv, Waiting
<1>5. fiber = "RUNNING"
  BY <1>4 DEF ServoInv, Waiting
<1>6. ASSUME InOrder, LastAsks, ~bus_fails
      PROVE  IF user # None THEN user.mode = Asked ELSE drive'.mode = Asked
  <2>1. CASE user # None
    <3>1. bus = UserLast
      BY <1>4, <1>6, <2>1, QueuesDiffer DEF ServoInv, Waiting, WithUser, WithControl
    <3>2. QED
      BY <1>6, <2>1, <3>1 DEF LastAsks
  <2>2. CASE user = None
    <3>1. bus # UserLast
      BY <2>2 DEF ServoInv, Waiting, WithUser
    <3>2. QED
      BY <1>1, <1>3, <1>6, <2>2, <3>1, TakenMode DEF LastAsks, ServoInv
  <2>3. QED
    BY <2>1, <2>2
<1>7. QED
  BY <1>2, <1>5, <1>6 DEF Settled

(* Anywhere else the drive is as it was, or has been sent a target.        *)
LEMMA ControlReads ==
  ASSUME ServoInv, mode_write = None, drive'.mode = drive.mode,
         Served("control") \/ at \in {"start", "sleep"}
  PROVE  InOrder /\ LastAsks => Settled
BY DEF LastAsks, Settled

(* What Leave, Unwind, NextTarget and Follow come to.                      *)
LEMMA LeavesByMove ==
  ASSUME ServoInv, mc_prev' = mc_prev, Leave \/ Unwind
  PROVE  ServoMove
<1>1. mc_prev \in BOOLEAN
  BY DEF ServoInv, ServoRanges
<1>2. CASE Leave
  <2>1. CASE mc_enabled = mc_prev
    BY <1>2, <2>1 DEF Leave, ServoMove, Ends
  <2>2. CASE mc_enabled # mc_prev
    BY <1>1, <1>2, <2>2, WaitsAre DEF Leave, ServoMove, Switches
  <2>3. QED
    BY <2>1, <2>2
<1>3. CASE Unwind
  <2>1. CASE mc_enabled = mc_prev
    BY <1>3, <2>1 DEF Unwind, ServoMove, Ends
  <2>2. CASE mc_enabled # mc_prev
    BY <1>1, <1>3, <2>2, WaitsAre DEF Unwind, ServoMove, Switches
  <2>3. QED
    BY <2>1, <2>2
<1>4. QED
  BY <1>2, <1>3

(* The loop over the targets goes on by a move.                            *)
LEMMA TargetsByMove ==
  ASSUME ServoInv, mc_prev' = mc_prev, NextTarget \/ Follow
  PROVE  ServoMove /\ target' \in Targets
<1>1. servo_target \in Targets /\ target \in Targets
  BY DEF ServoInv, ServoRanges
<1>2. ASSUME NextTarget PROVE ServoMove /\ target' \in Targets
  <2>1. CASE servo_enabled
    BY <1>1, <1>2, <2>1, WaitsAre DEF NextTarget, ServoMove, Goes
  <2>2. CASE ~servo_enabled
    BY <1>1, <1>2, <2>2, LeavesByMove DEF NextTarget
  <2>3. QED
    BY <2>1, <2>2
<1>3. ASSUME Follow PROVE ServoMove /\ target' \in Targets
  <2>1. CASE servo_enabled /\ target # servo_target
    BY <1>2, <1>3, <2>1 DEF Follow
  <2>2. CASE ~(servo_enabled /\ target # servo_target)
    <3>1. target' = target /\ WaitAt(IF servo_enabled THEN "poll" ELSE "disabled")
      BY <1>3, <2>2 DEF Follow
    <3>2. (IF servo_enabled THEN "poll" ELSE "disabled") \in Waits \ (WriteWaits \cup {"start"})
      BY WaitsAre
    <3>3. QED
      BY <1>1, <3>1, <3>2 DEF ServoMove, Goes
  <2>3. QED
    BY <2>1, <2>2
<1>4. QED
  BY <1>2, <1>3

Effect ==
    /\ fiber = "RUNNING" /\ UNCHANGED ofUser
    /\ mc_prev' \in BOOLEAN /\ target' \in Targets /\ drive' \in Drives
    /\ ServoMove

(* Every step of the control fiber is such a move.                         *)
LEMMA StepsAreMoves ==
  ASSUME ServoInv, ControlStep
  PROVE  Effect /\ (InOrder /\ LastAsks => Settled)
<1>0. /\ mc_prev \in BOOLEAN /\ mc_enabled \in BOOLEAN /\ target \in Targets /\ drive \in Drives
      /\ servo_enabled \in BOOLEAN
      /\ mode_write # None <=> at \in WriteWaits
      /\ fiber # "RUNNING" => at = "start"
  BY DEF ServoInv, ServoRanges, Waiting
<1>1. CASE BeginLoop
  <2>1. /\ fiber = "RUNNING" /\ at = "start" /\ UNCHANGED <<ofUser, drive>> /\ mode_write = None
        /\ mc_enabled = mc_prev
    BY <1>0, <1>1, WaitsAre DEF BeginLoop, ServoInv, Restoring
  <2>2. InOrder /\ LastAsks => Settled
    BY <2>1, ControlReads
  <2>3. CASE ~servo_enabled
    BY <1>0, <1>1, <2>1, <2>2, <2>3 DEF BeginLoop, Effect, ServoMove, Ends
  <2>4. CASE servo_enabled /\ mc_enabled
    <3>1. mc_prev' = mc_prev /\ NextTarget
      BY <1>1, <2>1, <2>4 DEF BeginLoop
    <3>2. QED
      BY <1>0, <2>1, <2>2, <3>1, TargetsByMove DEF Effect
  <2>5. CASE servo_enabled /\ ~mc_enabled
    <3>1. target' = target /\ Switch(TRUE, "enter") /\ mc_prev' = mc_enabled
      BY <1>1, <2>5 DEF BeginLoop
    <3>2. QED
      BY <1>0, <2>1, <2>2, <3>1, WaitsAre DEF Effect, ServoMove, Switches
  <2>6. QED
    BY <1>0, <2>3, <2>4, <2>5
<1>2. ASSUME NEW w \in WriteWaits, Written(w)
      PROVE  /\ fiber = "RUNNING" /\ UNCHANGED ofUser /\ mc_prev' = mc_prev /\ drive' \in Drives
             /\ InOrder /\ LastAsks => Settled
  BY <1>0, <1>2, ControlWrites DEF Written
<1>3. CASE AfterEnter
  BY <1>0, <1>2, <1>3, TargetsByMove, WaitsAre DEF AfterEnter, Effect
<1>4. ASSUME NEW w \in {"before", "poll", "disabled"}, Read(w)
      PROVE  /\ fiber = "RUNNING" /\ UNCHANGED ofUser /\ mc_prev' = mc_prev /\ drive' \in Drives
             /\ InOrder /\ LastAsks => Settled
  BY <1>0, <1>4, ControlReads, WaitsAre DEF Read
<1>5. CASE AfterBefore
  <2>1. Read("before") /\ target' = target
    BY <1>5 DEF AfterBefore, Kept
  <2>2. Unwind \/ Switch(FALSE, "halt") \/ WaitAt("send")
    BY <1>0, <1>5 DEF AfterBefore, Drives
  <2>3. CASE Unwind
    BY <1>0, <1>4, <2>1, <2>3, LeavesByMove DEF Effect
  <2>4. CASE Switch(FALSE, "halt")
    BY <1>0, <1>4, <2>1, <2>4, WaitsAre DEF Effect, ServoMove, Switches
  <2>5. CASE WaitAt("send")
    BY <1>0, <1>4, <2>1, <2>5, WaitsAre DEF Effect, ServoMove, Goes
  <2>6. QED
    BY <2>2, <2>3, <2>4, <2>5
<1>6. CASE AfterHalt
  BY <1>0, <1>2, <1>6, WaitsAre DEF AfterHalt, Kept, Effect, ServoMove, Switches
<1>7. CASE AfterResume
  BY <1>0, <1>2, <1>7, WaitsAre DEF AfterResume, Kept, Effect, ServoMove, Goes
<1>8. CASE AfterSend
  <2>1. /\ at = "send" /\ Served("control") /\ Follow /\ UNCHANGED <<ofUser, mc_prev>>
        /\ drive' \in Drives /\ drive'.mode = drive.mode
    BY <1>0, <1>8 DEF AfterSend, Drives
  <2>2. QED
    BY <1>0, <2>1, ControlReads, TargetsByMove, WaitsAre DEF Effect
<1>9. CASE AfterPoll
  <2>1. Read("poll") /\ target' = target
    BY <1>9 DEF AfterPoll, Kept
  <2>2. Unwind \/ WaitAt("sleep") \/ Leave
    BY <1>0, <1>9 DEF AfterPoll, Drives
  <2>3. CASE Unwind \/ Leave
    BY <1>0, <1>4, <2>1, <2>3, LeavesByMove DEF Effect
  <2>4. CASE WaitAt("sleep")
    BY <1>0, <1>4, <2>1, <2>4, WaitsAre DEF Effect, ServoMove, Goes
  <2>5. QED
    BY <2>2, <2>3, <2>4
<1>10. CASE AfterSleep
  <2>1. at = "sleep" /\ Follow /\ UNCHANGED <<ofUser, mc_prev, drive>> /\ mode_write = None
    BY <1>0, <1>10, WaitsAre DEF AfterSleep
  <2>2. QED
    BY <1>0, <2>1, ControlReads, TargetsByMove DEF Effect
<1>11. CASE AfterDisabled
  <2>1. Read("disabled") /\ target' = target /\ (Switch(FALSE, "halt off") \/ Leave)
    BY <1>11 DEF AfterDisabled, Kept
  <2>2. CASE Switch(FALSE, "halt off")
    BY <1>0, <1>4, <2>1, <2>2, WaitsAre DEF Effect, ServoMove, Switches
  <2>3. CASE Leave
    BY <1>0, <1>4, <2>1, <2>3, LeavesByMove DEF Effect
  <2>4. QED
    BY <2>1, <2>2, <2>3
<1>12. CASE AfterHaltOff
  BY <1>0, <1>2, <1>12, WaitsAre DEF AfterHaltOff, Kept, Effect, ServoMove, Switches
<1>13. CASE AfterResumeOff
  BY <1>0, <1>2, <1>13, LeavesByMove, WaitsAre DEF AfterResumeOff, Kept, Effect
<1>14. CASE AfterRestore \/ AfterUnwind
  <2>1. /\ at \in {"restore", "unwind"} /\ Written(at) /\ target' = target
        /\ \E s \in {"STOPPED", "CRASHED"} : End(s)
    BY <1>14 DEF AfterRestore, AfterUnwind, Written, Kept
  <2>2. mc_enabled = mc_prev
    BY <2>1 DEF ServoInv, Restoring
  <2>3. QED
    BY <1>0, <1>2, <2>1, <2>2, WaitsAre DEF Effect, ServoMove, Ends
<1>15. CASE Fails
  <2>1. Served("control") /\ target' = target /\ UNCHANGED <<ofUser, mc_prev>>
    BY <1>15 DEF Fails, Kept
  <2>2. ServoMove
    <3>1. CASE at \in {"restore", "unwind"}
      <4>1. mc_enabled = mc_prev
        BY <3>1 DEF ServoInv, Restoring
      <4>2. QED
        BY <1>15, <2>1, <3>1, <4>1 DEF Fails, ServoMove, Ends
    <3>2. CASE at \notin {"restore", "unwind"}
      BY <1>15, <2>1, <3>2, LeavesByMove DEF Fails
    <3>3. QED
      BY <3>1, <3>2
  <2>3. CASE mode_write # None
    BY <1>0, <1>15, <2>1, <2>2, <2>3, ControlWrites DEF Fails, Effect
  <2>4. CASE mode_write = None
    <3>1. bus_fails /\ drive' = drive
      BY <1>15, <2>4 DEF Fails
    <3>2. fiber = "RUNNING"
      BY <2>1, Serving DEF ServoInv, Waiting
    <3>3. QED
      BY <1>0, <2>1, <2>2, <2>4, <3>1, <3>2 DEF Effect, Settled
  <2>5. QED
    BY <2>3, <2>4
<1>16. QED
  BY <1>1, <1>3, <1>5, <1>6, <1>7, <1>8, <1>9, <1>10, <1>11, <1>12, <1>13, <1>14, <1>15 DEF ControlStep

(* What the moves do to the queue and to the flags.                        *)
LEMMA MovesKeep ==
  ASSUME ServoInv, Effect
  PROVE  ServoInv' /\ (LastAsks /\ Settled => LastAsks')
<1>0. /\ UNCHANGED ofUser /\ fiber = "RUNNING" /\ ServoRanges /\ Waiting /\ Restoring
      /\ mc_prev' \in BOOLEAN /\ target' \in Targets /\ drive' \in Drives
  BY DEF Effect, ServoInv
<1>1. /\ servo_enabled' \in BOOLEAN /\ vfoc_enabled' \in BOOLEAN /\ servo_target' \in Targets
      /\ user' \in ModeCalls \cup {None} /\ (user' # None <=> user # None)
      /\ servo_enabled' = servo_enabled /\ vfoc_enabled' = vfoc_enabled /\ user' = user
      /\ bus_fails' = bus_fails
  BY <1>0 DEF ofUser, ServoRanges
<1>2. /\ Others("control") = IF bus \in WithUser THEN OnlyUser ELSE <<>>
      /\ Append(Others("control"), "control") = IF bus \in WithUser THEN UserFirst ELSE OnlyControl
      /\ user # None <=> bus \in WithUser
  BY <1>0, Leaving DEF Waiting
<1>3. Lax \in BOOLEAN
  BY <1>0 DEF Lax, ServoRanges, ModeCalls
<1>4. ASSUME NEW w \in Waits, Goes(w) PROVE ServoInv' /\ (LastAsks /\ Settled => LastAsks')
  <2>1. /\ w \in Waits \ (WriteWaits \cup {"start"}) /\ at' = w /\ bus_lax_response' = Lax
        /\ mode_write' = None /\ fiber' = fiber /\ mc_enabled' = mc_enabled
        /\ bus' = IF w = "sleep" THEN Others("control") ELSE Append(Others("control"), "control")
    BY <1>4 DEF Goes, WaitAt
  <2>2. ServoRanges'
    BY <1>0, <1>1, <1>3, <2>1 DEF ServoRanges
  <2>3. Waiting'
    BY <1>0, <1>1, <1>2, <2>1, QueuesDiffer DEF Waiting, Queues, WithUser, WithControl
  <2>4. Restoring'
    BY <2>1, WaitsAre DEF Restoring
  <2>5. LastAsks /\ Settled => LastAsks'
    BY <1>1, <2>1 DEF Settled, LastAsks, Asked
  <2>6. QED
    BY <2>2, <2>3, <2>4, <2>5 DEF ServoInv
<1>5. ASSUME NEW mc \in BOOLEAN, NEW w \in WriteWaits, Switches(mc, w)
      PROVE  ServoInv' /\ (LastAsks /\ Settled => LastAsks')
  <2>1. /\ w \in Waits /\ w # "start" /\ w # "sleep" /\ at' = w /\ bus_lax_response' = TRUE
        /\ mode_write' = [of |-> "control", mode |-> Mode(servo_enabled, vfoc_enabled, mc), lax |-> Lax]
        /\ fiber' = fiber /\ mc_enabled' = mc /\ bus' = Append(Others("control"), "control")
        /\ w \in {"restore", "unwind"} => mc = mc_prev'
    BY <1>5, WaitsAre DEF Switches, Switch
  <2>2. mode_write' \in ModeCalls
    <3>1. Mode(servo_enabled, vfoc_enabled, mc) \in Modes
      BY <1>0 DEF Mode, Modes, ServoRanges
    <3>2. QED
      BY <1>3, <2>1, <3>1 DEF ModeCalls
  <2>3. mode_write' # None
    BY <2>2, NoneIsNoCall
  <2>4. ServoRanges'
    BY <1>0, <1>1, <2>1, <2>2 DEF ServoRanges
  <2>5. Waiting'
    BY <1>0, <1>1, <1>2, <2>1, <2>3, QueuesDiffer DEF Waiting, Queues, WithUser, WithControl
  <2>6. Restoring'
    BY <2>1 DEF Restoring
  <2>7. LastAsks'
    <3>1. mode_write'.mode = Asked'
      BY <1>1, <2>1 DEF Asked
    <3>2. bus' # UserLast
      BY <1>2, <2>1, QueuesDiffer
    <3>3. QED
      BY <2>3, <3>1, <3>2 DEF LastAsks
  <2>8. QED
    BY <2>4, <2>5, <2>6, <2>7 DEF ServoInv
<1>6. ASSUME NEW s \in {"STOPPED", "CRASHED"}, Ends(s) PROVE ServoInv' /\ (LastAsks /\ Settled => LastAsks')
  <2>1. /\ at' = "start" /\ bus_lax_response' = Lax /\ mode_write' = None /\ fiber' = s
        /\ mc_enabled' = mc_enabled /\ bus' = Others("control") /\ mc_enabled = mc_prev'
    BY <1>6 DEF Ends, End
  <2>2. ServoRanges'
    BY <1>0, <1>1, <1>3, <2>1 DEF ServoRanges
  <2>3. Waiting'
    BY <1>0, <1>1, <1>2, <2>1, WaitsAre, QueuesDiffer DEF Waiting, Queues, WithUser, WithControl
  <2>4. Restoring'
    BY <2>1 DEF Restoring
  <2>5. LastAsks /\ Settled => LastAsks'
    BY <1>1, <2>1 DEF Settled, LastAsks, Asked
  <2>6. QED
    BY <2>2, <2>3, <2>4, <2>5 DEF ServoInv
<1>7. QED
  BY <1>4, <1>5, <1>6 DEF Effect, ServoMove

(* What the user's fiber does.                                             *)
LEMMA UserKeeps ==
  ASSUME ServoInv,
         \/ \E t \in Targets : TargetPosition(t)
         \/ \E b \in BOOLEAN : Enabled(b) \/ VFOC(b) \/ UserReturns(b)
  PROVE  ServoInv' /\ (InOrder /\ LastAsks => LastAsks')
<1>0. /\ ServoRanges /\ Waiting /\ Restoring /\ fiber \in {"CONSTRUCTED", "RUNNING", "STOPPED", "CRASHED"}
      /\ fiber # "RUNNING" => at = "start"
  BY DEF ServoInv, ServoRanges, Waiting
<1>1. ASSUME NEW e, Wake(e)
      PROVE  fiber' \in {"CONSTRUCTED", "RUNNING", "STOPPED", "CRASHED"} /\ (fiber' # "RUNNING" => at = "start")
  BY <1>0, <1>1 DEF Wake
<1>2. ASSUME NEW t \in Targets, TargetPosition(t) PROVE ServoInv' /\ (LastAsks => LastAsks')
  <2>1. /\ servo_target' = t /\ Wake(servo_enabled)
        /\ UNCHANGED <<ofControl, servo_enabled, vfoc_enabled, bus_lax_response, user, at, bus, drive>>
    BY <1>2 DEF TargetPosition
  <2>2. fiber' \in {"CONSTRUCTED", "RUNNING", "STOPPED", "CRASHED"} /\ (fiber' # "RUNNING" => at = "start")
    BY <1>1, <2>1
  <2>3. QED
    BY <1>0, <2>1, <2>2 DEF ServoInv, ServoRanges, Waiting, Restoring, LastAsks, Asked, ofControl
<1>3. ASSUME NEW of \in {"Enabled", "VFOC"}, NEW servo \in BOOLEAN, NEW vfoc \in BOOLEAN, UserWrites(of, servo, vfoc)
      PROVE  ServoInv' /\ (LastAsks => LastAsks')
  <2>1. /\ user = None /\ servo_enabled' = servo /\ vfoc_enabled' = vfoc /\ bus_lax_response' = TRUE
        /\ user' = [of |-> of, mode |-> Mode(servo, vfoc, mc_enabled), lax |-> bus_lax_response]
        /\ bus' = Append(bus, "user") /\ UNCHANGED <<ofControl, servo_target, fiber, at, drive>>
    BY <1>3 DEF UserWrites
  <2>2. user' \in ModeCalls
    <3>1. Mode(servo, vfoc, mc_enabled) \in Modes
      BY <1>0 DEF Mode, Modes, ServoRanges
    <3>2. QED
      BY <1>0, <2>1, <3>1 DEF ModeCalls, ServoRanges
  <2>3. user' # None /\ user'.mode = Asked'
    BY <2>1, <2>2, NoneIsNoCall DEF Asked, ofControl
  <2>4. bus \in Queues \ WithUser /\ bus' = IF bus \in WithControl THEN UserLast ELSE OnlyUser
    BY <1>0, <2>1, Joining DEF Waiting
  <2>5. ServoRanges'
    BY <1>0, <2>1, <2>2 DEF ServoRanges, ofControl
  <2>6. Waiting'
    BY <1>0, <2>1, <2>3, <2>4, QueuesDiffer DEF Waiting, Queues, WithUser, WithControl, ofControl
  <2>7. Restoring'
    BY <1>0, <2>1 DEF Restoring, ofControl
  <2>8. LastAsks'
    <3>1. mode_write' # None => bus' = UserLast
      BY <1>0, <2>1, <2>4, WaitsAre DEF Waiting, ofControl, WriteWaits
    <3>2. QED
      BY <2>3, <3>1 DEF LastAsks
  <2>9. QED
    BY <2>5, <2>6, <2>7, <2>8 DEF ServoInv
<1>4. ASSUME NEW b \in BOOLEAN, Enabled(b) \/ VFOC(b) PROVE ServoInv' /\ (LastAsks => LastAsks')
  BY <1>0, <1>3, <1>4 DEF Enabled, VFOC, ServoRanges
<1>5. ASSUME NEW b \in BOOLEAN, UserReturns(b) PROVE ServoInv' /\ (InOrder /\ LastAsks => LastAsks')
  <2>1. /\ Served("user") /\ bus' = Others("user") /\ WritesMode(user, b)
        /\ Wake(b /\ user.of = "Enabled" /\ user.mode.loop # "OPEN")
        /\ bus_lax_response' = user.lax /\ user' = None
        /\ UNCHANGED <<ofControl, servo_enabled, vfoc_enabled, servo_target, at>>
    BY <1>5 DEF UserReturns
  <2>2. bus \in WithUser /\ (InOrder => bus # UserLast)
    BY <1>0, <2>1, Serving DEF Waiting
  <2>3. user \in ModeCalls /\ user.mode \in Modes /\ user.lax \in BOOLEAN /\ user # None
    BY <1>0, <2>2 DEF Waiting, ServoRanges, ModeCalls
  <2>4. drive' \in Drives /\ (~bus_fails => drive'.mode = user.mode)
    BY <1>0, <2>1, <2>3, TakenMode DEF WritesMode, ServoRanges
  <2>5. fiber' \in {"CONSTRUCTED", "RUNNING", "STOPPED", "CRASHED"} /\ (fiber' # "RUNNING" => at = "start")
    BY <1>1, <2>1
  <2>6. bus' = IF bus \in WithControl THEN OnlyControl ELSE <<>>
    BY <1>0, <2>1, Leaving DEF Waiting
  <2>7. ServoRanges'
    BY <1>0, <2>1, <2>3, <2>4, <2>5 DEF ServoRanges, ofControl
  <2>8. Waiting'
    BY <1>0, <2>1, <2>2, <2>5, <2>6, QueuesDiffer DEF Waiting, Queues, WithUser, WithControl, ofControl
  <2>9. Restoring'
    BY <1>0, <2>1 DEF Restoring, ofControl
  <2>10. InOrder /\ LastAsks => LastAsks'
    BY <2>1, <2>2, <2>3, <2>4, <2>6, QueuesDiffer DEF LastAsks, Asked, ofControl
  <2>11. QED
    BY <2>7, <2>8, <2>9, <2>10 DEF ServoInv
<1>6. QED
  BY <1>2, <1>4, <1>5

(* The drive moves on its own.                                             *)
LEMMA DriveKeeps ==
  ASSUME ServoInv, Moved
  PROVE  ServoInv' /\ (LastAsks => LastAsks')
<1>1. UNCHANGED <<ofUser, ofControl, fiber, at, bus_lax_response, bus>>
  BY DEF Moved
<1>2. drive' \in Drives /\ drive'.mode = drive.mode
  BY DEF Moved, ServoInv, ServoRanges, Drives
<1>3. QED
  BY <1>1, <1>2 DEF ServoInv, ServoRanges, Waiting, Restoring, LastAsks, Asked, ofUser, ofControl

(* The constructor leaves the servo consistent.                            *)
LEMMA ServoStarts == ServoInit => ServoInv /\ LastAsks
<1> SUFFICES ASSUME ServoInit PROVE ServoInv /\ LastAsks
  OBVIOUS
<1>1. drive \in Drives
  BY DEF ServoInit, Mode, Modes, Drives
<1>2. ServoRanges
  BY <1>1 DEF ServoInit, ServoRanges
<1>3. Waiting
  BY QueuesDiffer, WaitsAre DEF ServoInit, Waiting, Queues, WithUser, WithControl
<1>4. Restoring /\ LastAsks
  BY DEF ServoInit, Restoring, LastAsks, Asked
<1>5. QED
  BY <1>2, <1>3, <1>4 DEF ServoInv

(* The inductive step; the flags need the order of the bus.                *)
LEMMA ServoSteps ==
  ServoInv /\ [ServoNext]_servoVars => ServoInv' /\ (InOrder /\ LastAsks => LastAsks')
<1>1. ASSUME ServoInv, UNCHANGED servoVars PROVE ServoInv' /\ (LastAsks => LastAsks')
  BY <1>1 DEF servoVars, ServoInv, ServoRanges, Waiting, Restoring, LastAsks, Asked
<1>2. ASSUME ServoInv, ServoNext PROVE ServoInv' /\ (InOrder /\ LastAsks => LastAsks')
  BY <1>2, UserKeeps, StepsAreMoves, MovesKeep, DriveKeeps DEF ServoNext
<1>3. QED
  BY <1>1, <1>2

(* The invariant of the servo holds for ever.                              *)
LEMMA ServoInvAlways == ServoSpec => []ServoInv
BY ServoStarts, ServoSteps, PTL DEF ServoSpec

(* Every variable of the servo stays in its range.                         *)
THEOREM ServoTypesHold == ServoSpec => []ServoTypeOK
<1>1. ServoInv => ServoTypeOK
  <2> SUFFICES ASSUME ServoInv PROVE ServoTypeOK
    OBVIOUS
  <2>0. ServoRanges /\ Waiting
    BY DEF ServoInv
  <2>1. /\ "user" \in {bus[i] : i \in DOMAIN bus} <=> bus \in WithUser
        /\ "control" \in {bus[i] : i \in DOMAIN bus} <=> bus \in WithControl
        /\ Len(bus) <= 2
    <3> USE QueuesDiffer DEF WithUser, WithControl
    <3>1. CASE bus = <<>>
      BY <3>1
    <3>2. CASE bus = OnlyUser
      BY <3>2 DEF OnlyUser, OnlyControl, UserFirst, UserLast
    <3>3. CASE bus = OnlyControl
      BY <3>3 DEF OnlyUser, OnlyControl, UserFirst, UserLast
    <3>4. CASE bus = UserFirst
      <4>1. UserFirst[1] = "user" /\ UserFirst[2] = "control" /\ DOMAIN UserFirst = 1..2 /\ Len(UserFirst) = 2
        BY DEF UserFirst
      <4>2. QED
        BY <3>4, <4>1
    <3>5. CASE bus = UserLast
      <4>1. UserLast[1] = "control" /\ UserLast[2] = "user" /\ DOMAIN UserLast = 1..2 /\ Len(UserLast) = 2
        BY DEF UserLast
      <4>2. QED
        BY <3>5, <4>1
    <3>6. QED
      BY <2>0, <3>1, <3>2, <3>3, <3>4, <3>5 DEF Waiting, Queues
  <2>2. {servo_enabled, mc_enabled, vfoc_enabled, bus_lax_response, mc_prev} \subseteq BOOLEAN
    BY <2>0 DEF ServoRanges
  <2>3. drive.goal \in Targets /\ drive.mode \in Modes /\ drive.motion \in {"IDLE", "ACTIVE", "ERROR"}
    BY <2>0 DEF ServoRanges, Drives
  <2>4. /\ (mode_write # None) = (at \in WriteWaits)
        /\ ("user" \in {bus[i] : i \in DOMAIN bus}) = (user # None)
        /\ ("control" \in {bus[i] : i \in DOMAIN bus}) = (at \notin {"start", "sleep"})
    BY <2>0, <2>1 DEF Waiting
  <2>5. QED
    BY <2>0, <2>1, <2>2, <2>3, <2>4 DEF ServoTypeOK, ServoRanges, Waiting
<1>2. QED
  BY <1>1, ServoInvAlways, PTL

(* However the control fiber ends, the motion controller is as it found it,*)
(* in whatever order the calls on the bus take effect.                     *)
THEOREM ControllerIsRestored == ServoSpec => []ControllerRestored
<1>1. ServoInv => ControllerRestored
  BY DEF ServoInv, Waiting, Restoring, ControllerRestored
<1>2. QED
  BY <1>1, ServoInvAlways, PTL

(* If calls on the bus take effect in the order in which they began, the   *)
(* drive is in the mode of the flags when nobody changes it.               *)
THEOREM ServoStaysConsistent ==
  ASSUME InOrder
  PROVE  ServoSpec => []ServoConsistent
<1>1. ServoInit => ServoInv /\ LastAsks
  BY ServoStarts
<1>2. ServoInv /\ LastAsks /\ [ServoNext]_servoVars => ServoInv' /\ LastAsks'
  BY ServoSteps
<1>3. ServoInv /\ LastAsks => ServoConsistent
  BY DEF ServoInv, Waiting, Restoring, LastAsks, Asked, ServoConsistent, ControllerRestored, ModeMatchesFlags
<1>4. QED
  BY <1>1, <1>2, <1>3, PTL DEF ServoSpec
=============================================================================
