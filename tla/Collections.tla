---------------------------- MODULE Collections ----------------------------
(***************************************************************************)
(* io_collection_array, io_collection_list, io_collection_map: TList, the  *)
(* views and searches of array_t, and TSortedMap, which keeps its pairs in *)
(* a TList by binary search.                                               *)
(*                                                                         *)
(* A list is its memory and the number of items in it; indices are those   *)
(* of the code, from 0.  Constructors and destructors of items, and the    *)
(* amount of memory beyond what is needed, are left out.                   *)
(***************************************************************************)
EXTENDS Integers, Sequences, FiniteSets, Folds, SequencesExt

CONSTANTS Values,    \* the items, numbers that StdSorter compares
          Keys,      \* the keys of a map
          MaxCount,  \* bound: items of a list, pairs of a map
          Memory     \* bound: items the memory of a list has room for

VARIABLES list,  \* a TList<int>
          map    \* a TSortedMap<int, int>

NEG1 == -1       \* (usys_t)-1, which no index reaches
Hole == [free |-> TRUE]
NoList == [n |-> 0, mem |-> [i \in 0..(Memory - 1) |-> Hole]]
Done(x) == [ok |-> TRUE, value |-> x]
Thrown == [ok |-> FALSE]

-----------------------------------------------------------------------------
(* array_t *)

AbsoluteIndex(n, rel, tail) ==
    LET beyond == IF tail THEN 0 ELSE 1
        before == IF tail THEN 1 ELSE 0
    IN CASE rel >= 0 -> IF rel > n - beyond THEN Thrown ELSE Done(rel)
         [] rel < 0  -> IF -rel > n + before THEN Thrown
                        ELSE IF -rel > n THEN Done(n + rel + 1) ELSE Done(n + rel)

\* A view is where it begins and how many items it has.
Slice(l, index, count) ==
    LET idx == AbsoluteIndex(l.n, index, TRUE) IN
    IF ~idx.ok THEN Thrown
    ELSE LET n == IF count = NEG1 THEN l.n - idx.value ELSE count IN
         IF n > l.n - idx.value THEN Thrown ELSE Done([from |-> idx.value, n |-> n])
HeadView(l, count) == IF count > l.n THEN Thrown ELSE Done([from |-> 0, n |-> count])
TailView(l, count) == IF count > l.n THEN Thrown ELSE Done([from |-> l.n - count, n |-> count])
SplitAt(l, index) ==
    LET idx == AbsoluteIndex(l.n, index, TRUE) IN
    IF ~idx.ok THEN Thrown
    ELSE Done(<<[from |-> 0, n |-> idx.value], [from |-> idx.value, n |-> l.n - idx.value]>>)

\* The runs of items that equal needle, cut off when max are found.
RECURSIVE FindFrom(_, _, _, _)
FindFrom(l, needle, i, left) ==
    CASE left = 0 \/ i >= l.n   -> <<>>
      [] i < l.n /\ l.mem[i] # needle -> FindFrom(l, needle, i + 1, left)
      [] OTHER ->
           LET end == CHOOSE e \in i..l.n :
                        /\ \A j \in i..(e - 1) : l.mem[j] = needle
                        /\ e < l.n => l.mem[e] # needle
               count == IF left # NEG1 /\ end - i > left THEN left ELSE end - i
           IN <<[index |-> i, count |-> count]>>
              \o FindFrom(l, needle, end + 1, IF left = NEG1 THEN NEG1 ELSE left - count)
Find(l, needle, max) == FindFrom(l, needle, 0, max)

\* For the runs that check the properties: the right half begins at the pivot.
RECURSIVE BinarySearchIn_Pivot(_, _, _, _, _)
BinarySearchIn_Pivot(l, key, closest, start, n) ==
    LET pivot == start + n \div 2
        item == l.mem[pivot].key
        right == (n - 1) \div 2
    IN CASE item = key                  -> pivot
         [] item < key /\ right > 0     -> BinarySearchIn_Pivot(l, key, closest, pivot, right)
         [] item > key /\ n \div 2 > 0  -> BinarySearchIn_Pivot(l, key, closest, start, n \div 2)
         [] OTHER                       -> IF closest THEN pivot ELSE NEG1
RECURSIVE BinarySearchIn(_, _, _, _, _)
BinarySearchIn(l, key, closest, start, n) ==
    LET pivot == start + n \div 2
        item == l.mem[pivot].key
        right == (n - 1) \div 2
    IN CASE item = key                  -> pivot
         [] item < key /\ right > 0     -> BinarySearchIn(l, key, closest, pivot + 1, right)
         [] item > key /\ n \div 2 > 0  -> BinarySearchIn(l, key, closest, start, n \div 2)
         [] OTHER                       -> IF closest THEN pivot ELSE NEG1
BinarySearch(l, key, closest) == IF l.n = 0 THEN NEG1 ELSE BinarySearchIn(l, key, closest, 0, l.n)

Swap(l, i, j) == [l EXCEPT !.mem[i] = l.mem[j], !.mem[j] = l.mem[i]]
Reversed(l) == IF l.n <= 1 THEN l ELSE FoldLeft(LAMBDA x, i : Swap(x, i - 1, l.n - i), l, [i \in 1..(l.n \div 2) |-> i])

\* Heap sort; Follows(a, b) is item_should_follow.
Follows(order, a, b) == IF order = "DESCENDING" THEN a < b ELSE a > b
RECURSIVE SiftDown(_, _, _, _)
SiftDown(l, order, root, end) ==
    LET left == 2 * root + 1
        first == IF left < end /\ Follows(order, l.mem[left], l.mem[root]) THEN left ELSE root
        swap == IF left + 1 < end /\ Follows(order, l.mem[left + 1], l.mem[first]) THEN left + 1 ELSE first
    IN IF swap = root THEN l ELSE SiftDown(Swap(l, root, swap), order, swap, end)
Sort(l, order) ==
    LET heap == FoldLeft(LAMBDA x, k : SiftDown(x, order, (l.n \div 2) - k, l.n), l, [k \in 1..(l.n \div 2) |-> k])
    IN FoldLeft(LAMBDA x, k : SiftDown(Swap(x, 0, l.n - k), order, 0, l.n - k),
                heap, [k \in 1..(IF l.n = 0 THEN 0 ELSE l.n - 1) |-> k])

-----------------------------------------------------------------------------
(* TList *)

Move(l, to, from, k) ==
    [l EXCEPT !.mem = [i \in DOMAIN @ |-> IF i \in to..(to + k - 1) THEN @[i - to + from] ELSE @[i]]]
Destruct(l, index, k) == [l EXCEPT !.mem = [i \in DOMAIN @ |-> IF i \in index..(index + k - 1) THEN Hole ELSE @[i]]]
Shrink(l, k) == Destruct([l EXCEPT !.n = @ - k], l.n - k, k)

\* Insert, Append, FillInsert, Inflate; a constructor may throw after some items.
GeneratorInsert(l, index, new, made) ==
    LET idx == AbsoluteIndex(l.n, index, TRUE)
        at == idx.value
        k == Len(new)
        opened == Destruct(Move(l, at + k, at, l.n - at), at, k)
        filled == [opened EXCEPT !.mem = [i \in DOMAIN @ |-> IF i \in at..(at + made - 1) THEN new[i - at + 1] ELSE @[i]]]
    IN CASE ~idx.ok -> [list |-> l, ok |-> FALSE]
         [] idx.ok /\ made = k -> [list |-> [filled EXCEPT !.n = @ + k], ok |-> TRUE]
         [] idx.ok /\ made < k -> [list |-> [Move(filled, at + made + 1, at + k, l.n - at) EXCEPT !.n = @ + made],
                                   ok |-> FALSE]
Insert(l, index, new) == GeneratorInsert(l, index, new, Len(new))
AppendItems(l, new) == Insert(l, l.n, new).list

RemoveRange(l, start, k) ==
    LET idx == AbsoluteIndex(l.n, start, FALSE) IN
    IF ~idx.ok \/ (idx.ok /\ idx.value + k > l.n) THEN Thrown
    ELSE Done(Shrink(Move(Destruct(l, idx.value, k), idx.value, idx.value + k, l.n - idx.value - k), k))
PopHead(l) == IF l.n = 0 THEN Thrown ELSE Done([item |-> l.mem[0], list |-> RemoveRange(l, 0, 1).value])
Cut(l, start, end) ==
    IF start + end > l.n THEN Thrown
    ELSE Done(Shrink(Move(Destruct(Destruct(l, 0, start), l.n - end, end), 0, start, l.n - start - end), start + end))
SetCount(l, count) ==
    IF count < l.n THEN Cut(l, 0, l.n - count).value ELSE AppendItems(l, [i \in 1..(count - l.n) |-> 0])

\* The items between two runs move to where the first run began.
RemoveItem(l, needle, max) ==
    LET runs == Find(l, needle, max)
        Next(i) == IF i < Len(runs) THEN runs[i + 1].index ELSE l.n
        step(x, i) == LET r == runs[i] IN
            [list |-> Move(Destruct(x.list, r.index, r.count), r.index - x.removed, r.index + r.count,
                           Next(i) - r.index - r.count),
             removed |-> x.removed + r.count]
        all == FoldLeft(step, [list |-> l, removed |-> 0], [i \in 1..Len(runs) |-> i])
    IN [list |-> Shrink(all.list, all.removed), removed |-> all.removed]

RECURSIVE RemoveItemsFrom(_, _, _)
RemoveItemsFrom(l, items, i) ==
    CASE i >= l.n                     -> l
      [] i < l.n /\ l.mem[i] \in items -> RemoveItemsFrom(RemoveRange(l, i, 1).value, items, i)
      [] OTHER                        -> RemoveItemsFrom(l, items, i + 1)

\* Sorted: the equals that follow an item at once; otherwise all that follow it.
RECURSIVE RemoveDuplicatesFrom(_, _, _)
RemoveDuplicatesFrom(l, sorted, i) ==
    IF i >= l.n THEN l
    ELSE LET end == CHOOSE e \in i..l.n : /\ \A j \in i..(e - 1) : l.mem[j] = l.mem[i - 1]
                                          /\ e < l.n => l.mem[e] # l.mem[i - 1]
             others == Cut(l, i, 0).value
             rest == RemoveItemsFrom(others, {l.mem[i - 1]}, 0)
         IN RemoveDuplicatesFrom(IF sorted THEN RemoveRange(l, i, end - i).value
                                 ELSE AppendItems(Cut(l, 0, l.n - i).value, [j \in 1..rest.n |-> rest.mem[j - 1]]),
                                 sorted, i + 1)
RemoveDuplicateItems(l, sorted) == RemoveDuplicatesFrom(l, sorted, 1)

\* TListSink::ReadIn: the source gives at most chunk items at a time; when the
\* memory is full it is asked for prealloc items more.
RECURSIVE ReadInto(_, _, _, _, _, _)
ReadInto(l, source, max, chunk, room, prealloc) ==
    LET have == IF room = 0 THEN prealloc ELSE room
        r == CHOOSE k \in {have, chunk, Len(source), max} : k <= have /\ k <= chunk /\ k <= Len(source) /\ k <= max
    IN IF max = 0 \/ r = 0 THEN l
       ELSE ReadInto(AppendItems(l, SubSeq(source, 1, r)), SubSeq(source, r + 1, Len(source)), max - r, chunk,
                     have - r, prealloc)
ReadIn(l, source, max, chunk, room) ==
    ReadInto(l, source, max, chunk, room, IF max < 2 THEN max ELSE 2)

\* TListSource and TArraySource: what is left begins at pos.
WriteOut(l, pos, max, room) ==
    LET left == l.n - pos
        n == IF max = NEG1 \/ max > left THEN left ELSE max
        taken == IF n > room THEN room ELSE n
    IN [written |-> [i \in 1..taken |-> l.mem[pos + i - 1]], pos |-> pos + taken]
ShiftSource(l, pos, n) == IF n > l.n - pos THEN Thrown ELSE Done(pos + n)

-----------------------------------------------------------------------------
(* TSortedMap *)

Pair(k, v) == [key |-> k, value |-> v]
MapGet(m, key) ==
    LET i == BinarySearch(m, key, FALSE) IN IF i = NEG1 THEN Thrown ELSE Done(m.mem[i].value)

\* Where a new pair goes, next to the pair the search ended at.
Place(m, key) ==
    LET i == BinarySearch(m, key, TRUE) IN
    IF i = NEG1 THEN m.n ELSE IF m.mem[i].key > key THEN i ELSE i + 1
MapAdd(m, key, value) ==
    IF MapGet(m, key).ok THEN Thrown ELSE Done(Insert(m, Place(m, key), <<Pair(key, value)>>).list)
MapSet(m, key, value) ==
    LET i == BinarySearch(m, key, TRUE) IN
    IF i # NEG1 /\ m.n > 0 /\ MapGet(m, key).ok THEN [m EXCEPT !.mem[i].value = value]
    ELSE Insert(m, Place(m, key), <<Pair(key, value)>>).list
MapRemove(m, key) ==
    LET i == BinarySearch(m, key, FALSE) IN
    IF i = NEG1 THEN [map |-> m, found |-> FALSE] ELSE [map |-> RemoveRange(m, i, 1).value, found |-> TRUE]
GetOrInsertDefault(m, key, value) == IF MapGet(m, key).ok THEN m ELSE MapAdd(m, key, value).value

\* TSortedMap(items): sorted by key (pairs are numbered here as the sorter sees
\* them), and none twice.
MapOf(l) ==
    LET s == Sort(l, "ASCENDING")
        pairs == [s EXCEPT !.mem = [i \in DOMAIN @ |-> IF i < s.n THEN Pair(@[i], @[i]) ELSE Hole]]
    IN IF \E i \in 1..(s.n - 1) : s.mem[i - 1] = s.mem[i] THEN Thrown ELSE Done(pairs)

-----------------------------------------------------------------------------
(* A list and a map in use *)

Init == list = NoList /\ map = NoList

\* One of the two at a time: they do not touch each other.
ListGrows == map.n = 0 /\ \E x \in Values, i \in -(list.n + 1)..list.n :
    list.n < MaxCount /\ list' = Insert(list, i, <<x>>).list /\ UNCHANGED map
ListShrinks == \E i \in -list.n..(list.n - 1) : list' = RemoveRange(list, i, 1).value /\ UNCHANGED map
MapPut == list.n = 0 /\ \E k \in Keys, v \in Values :
    (map.n < MaxCount \/ MapGet(map, k).ok) /\ map' = MapSet(map, k, v) /\ UNCHANGED list
MapDrop == \E k \in Keys : MapGet(map, k).ok /\ map' = MapRemove(map, k).map /\ UNCHANGED list

Next == ListGrows \/ ListShrinks \/ MapPut \/ MapDrop
Spec == Init /\ [][Next]_<<list, map>>

-----------------------------------------------------------------------------
(* What they promise, in terms of sequences and functions *)

Items(l) == [i \in 1..l.n |-> l.mem[i - 1]]
Viewed(l, v) == SubSeq(Items(l), v.from + 1, v.from + v.n)
Without(s, S) == SelectSeq(s, LAMBDA x : x \notin S)
Counted(s, x) == Cardinality({i \in DOMAIN s : s[i] = x})

\* The position an index names: from the end if it is negative.
Position(n, i) == IF i >= 0 THEN i ELSE n + i

ViewsExact ==
    LET n == list.n  s == Items(list) IN
    \A i \in -(n + 2)..(n + 2), k \in -1..(n + 1) :
        /\ LET v == Slice(list, i, k)  at == IF i = -(n + 1) THEN 0 ELSE Position(n, i) IN
             /\ v.ok = (at \in 0..n /\ (k >= 0 => at + k <= n))
             /\ v.ok => Viewed(list, v.value) = SubSeq(s, at + 1, IF k < 0 THEN n ELSE at + k)
        /\ LET v == SplitAt(list, i) IN
             v.ok => Viewed(list, v.value[1]) \o Viewed(list, v.value[2]) = s
        /\ k >= 0 => LET h == HeadView(list, k)  t == TailView(list, k) IN
             /\ h.ok = (k <= n) /\ t.ok = (k <= n)
             /\ h.ok => /\ Viewed(list, h.value) = SubSeq(s, 1, k)
                        /\ Viewed(list, t.value) = SubSeq(s, n - k + 1, n)

InsertExact ==
    LET n == list.n  s == Items(list) IN
    \A i \in -(n + 2)..(n + 2), new \in {<<>>} \cup {<<x, y>> : x, y \in Values} :
        LET at == IF i = -(n + 1) THEN 0 ELSE Position(n, i)
            r == Insert(list, i, new)
        IN /\ r.ok = (at \in 0..n)
           /\ Items(r.list) = IF r.ok THEN SubSeq(s, 1, at) \o new \o SubSeq(s, at + 1, n) ELSE s
           /\ \A made \in 0..1 : new # <<>> /\ at = n =>
                Items(GeneratorInsert(list, i, new, made).list) = s \o SubSeq(new, 1, made)

RemoveExact ==
    LET n == list.n  s == Items(list) IN
    /\ \A i \in -(n + 1)..(n + 1), k \in 0..(n + 1) :
         LET r == RemoveRange(list, i, k)  at == Position(n, i) IN
         /\ r.ok = (at \in 0..(n - 1) /\ at + k <= n)
         /\ r.ok => Items(r.value) = SubSeq(s, 1, at) \o SubSeq(s, at + k + 1, n)
    /\ \A i, k \in 0..(n + 1) :
         LET r == Cut(list, i, k) IN r.ok = (i + k <= n) /\ (r.ok => Items(r.value) = SubSeq(s, i + 1, n - k))
    /\ n > 0 => PopHead(list).value.item = s[1] /\ Items(PopHead(list).value.list) = Tail(s)
    /\ \A k \in 0..(n + 2) : Items(SetCount(list, k)) = SubSeq(s, 1, IF k < n THEN k ELSE n) \o [i \in 1..(k - n) |-> 0]
    /\ \A x \in Values, max \in -1..n :
         LET r == RemoveItem(list, x, max)
             gone == IF max = NEG1 \/ max > Counted(s, x) THEN Counted(s, x) ELSE max
             kept == [i \in DOMAIN s |-> s[i] # x \/ Counted(SubSeq(s, 1, i), x) > gone]
         IN r.removed = gone /\ Items(r.list) = [j \in 1..(n - gone) |->
                s[CHOOSE i \in DOMAIN s : kept[i] /\ Cardinality({h \in 1..i : kept[h]}) = j]]
    /\ \A S \in SUBSET Values : Items(RemoveItemsFrom(list, S, 0)) = Without(s, S)
    /\ \A sorted \in BOOLEAN :
         LET r == Items(RemoveDuplicateItems(list, sorted)) IN
         (sorted => \A i \in 1..(n - 1) : s[i] <= s[i + 1]) =>
             /\ ToSet(r) = ToSet(s) /\ Cardinality(ToSet(r)) = Len(r)
             /\ \A x, y \in ToSet(s) :
                  (\E i \in DOMAIN r : r[i] = x /\ \E j \in DOMAIN r : i < j /\ r[j] = y) =>
                  (\E i \in DOMAIN s : s[i] = x /\ \A j \in 1..i : s[j] # y)

OrderExact ==
    LET s == Items(list) IN
    /\ Items(Reversed(list)) = [i \in 1..list.n |-> s[list.n - i + 1]]
    /\ \A order \in {"ASCENDING", "DESCENDING"} :
         LET r == Items(Sort(list, order)) IN
         /\ \A x \in Values : Counted(r, x) = Counted(s, x)
         /\ \A i \in 1..(list.n - 1) : ~Follows(order, r[i], r[i + 1])
    /\ LET m == MapOf(list) IN
         /\ m.ok = (Cardinality(ToSet(s)) = Len(s))
         /\ m.ok => \A k \in Values : MapGet(m.value, k).ok = (k \in ToSet(s))

StreamsExact ==
    LET s == Items(list) IN
    \A pos \in 0..list.n, max \in -1..3, room \in 0..3 :
        LET w == WriteOut(list, pos, max, room)
            all == IF max = NEG1 THEN SubSeq(s, pos + 1, list.n) ELSE SubSeq(s, pos + 1, pos + max)
            left == SubSeq(s, pos + 1, list.n)
        IN /\ IsPrefix(w.written, left) /\ w.written \o SubSeq(s, w.pos + 1, list.n) = left
           /\ max # NEG1 => Len(w.written) <= max
           /\ max # NEG1 /\ room > 0 =>
                Items(ReadIn(NoList, left, max, room, 1)) = SubSeq(left, 1, IF max < Len(left) THEN max ELSE Len(left))
           /\ ShiftSource(list, pos, room).ok = (room <= Len(left))

\* ListExact: every operation of a list does what its sequence of items says,
\* with indices from either end, at every boundary, and an index beyond a
\* boundary changes nothing; items that are found, removed, sorted or streamed
\* are neither lost nor doubled.
ListExact == ViewsExact /\ InsertExact /\ RemoveExact /\ OrderExact /\ StreamsExact

\* The function a map stands for.
Pairs(m) == {Items(m)[i] : i \in 1..m.n}
Stands(m) == [k \in {p.key : p \in Pairs(m)} |-> (CHOOSE p \in Pairs(m) : p.key = k).value]

\* MapExact: whatever pairs were put and removed in whatever order, a map is
\* sorted, finds every key it has and no other, and puts, adds and removes what
\* it is told and nothing else.
MapExact ==
    /\ \A i \in 1..(map.n - 1) : map.mem[i - 1].key < map.mem[i].key
    /\ \A k \in Keys :
         LET has == k \in DOMAIN Stands(map)
             others == DOMAIN Stands(map) \ {k}
             Puts(m, v) == Stands(m) = [x \in others \cup {k} |-> IF x = k THEN v ELSE Stands(map)[x]]
         IN /\ MapGet(map, k).ok = has
            /\ has => MapGet(map, k).value = Stands(map)[k]
            /\ MapRemove(map, k).found = has
            /\ Stands(MapRemove(map, k).map) = [x \in others |-> Stands(map)[x]]
            /\ map.n < MaxCount => \A v \in Values :
                 /\ Puts(MapSet(map, k, v), v)
                 /\ MapAdd(map, k, v).ok = ~has
                 /\ ~has => Puts(MapAdd(map, k, v).value, v)
                 /\ Puts(GetOrInsertDefault(map, k, v), IF has THEN Stands(map)[k] ELSE v)
=============================================================================
