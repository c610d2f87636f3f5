------------------------------ MODULE Streams ------------------------------
(***************************************************************************)
(* io_stream: sources, sinks, and the pipes that are put together from     *)
(* them; TPullBuffer (io_stream_buffer).                                   *)
(*                                                                         *)
(* A source is what it will deliver: items, and a Gap wherever it has      *)
(* nothing until its waitable was waited for.  A sink is what it has got,  *)
(* and how much it will take: room for so many items at a time, and 0      *)
(* where it takes nothing until its waitable was waited for.               *)
(***************************************************************************)
EXTENDS Integers, Sequences, FiniteSets, Folds, SequencesExt

CONSTANTS Items,      \* positive integers
          MaxScript,  \* bound: items and gaps of a source
          MaxPipes,   \* bound: pipes around a source
          Rooms,      \* what the sinks will take
          BufferSize  \* N_ITEMS_BUFFER, and the size of the other buffers

VARIABLES flow  \* a pipe

Gap == 0
NEG1 == -1
Lesser(a, b) == IF a <= b THEN a ELSE b
ItemsOf(script) == SelectSeq(script, LAMBDA x : x # Gap)

-----------------------------------------------------------------------------
(* Sources *)

\* Read(): what is there before the next gap, n items at the most; OnInputReady():
\* a waitable at a gap, nullptr when the source is dry.
UntilGap(script) == LET gaps == {i \in DOMAIN script : script[i] = Gap} IN
                    IF gaps = {} THEN Len(script) ELSE (CHOOSE i \in gaps : \A j \in gaps : i <= j) - 1
Read(script, n) ==
    LET k == Lesser(n, UntilGap(script)) IN [got |-> SubSeq(script, 1, k), source |-> SubSeq(script, k + 1, Len(script))]
Blocked(script) == script # <<>> /\ script[1] = Gap
WaitFor(script) == IF Blocked(script) THEN Tail(script) ELSE script

\* BlockingRead(): until n items are there or the source is dry, or the time is
\* over at a gap after so many.
RECURSIVE BlockingRead(_, _, _)
BlockingRead(script, n, patience) ==
    LET r == Read(script, n) IN
    CASE n = 0 -> [got |-> <<>>, source |-> script]
      [] n > 0 /\ r.got # <<>> ->
           LET rest == BlockingRead(r.source, n - Len(r.got), patience) IN [rest EXCEPT !.got = r.got \o @]
      [] n > 0 /\ r.got = <<>> /\ Blocked(script) /\ patience # 0 -> BlockingRead(Tail(script), n, patience - 1)
      [] OTHER -> [got |-> <<>>, source |-> script]
\* ReadAll(): TStreamDryException if there are fewer.
ReadAll(script, n) == LET r == BlockingRead(script, n, NEG1) IN
                      [got |-> r.got, source |-> r.source, ok |-> Len(r.got) = n]
\* Discard(), by so many items that fit into its buffer.
RECURSIVE Discard(_, _)
Discard(script, n) ==
    LET r == ReadAll(script, Lesser(n, BufferSize)) IN
    IF n = 0 THEN [source |-> script, ok |-> TRUE]
    ELSE IF r.ok THEN Discard(r.source, n - Len(r.got)) ELSE [source |-> r.source, ok |-> FALSE]

\* TLimitSource: a source and the items that may still be read from it.
LimitSource(script, n) == [source |-> script, remaining |-> n]
LimitRead(l, n) == LET r == Read(l.source, Lesser(l.remaining, n)) IN
                   [got |-> r.got, source |-> LimitSource(r.source, l.remaining - Len(r.got))]
LimitBlocked(l) == l.remaining # 0 /\ Blocked(l.source)

-----------------------------------------------------------------------------
(* Sinks *)

Sink(room) == [got |-> <<>>, room |-> room]
Full(sink) == sink.room # <<>> /\ sink.room[1] = 0
Closed(sink) == sink.room = <<>>
Write(sink, items) ==
    LET k == IF Closed(sink) THEN 0 ELSE Lesser(Len(items), sink.room[1])
        left == IF k = 0 THEN sink.room
                ELSE (IF k = sink.room[1] THEN <<>> ELSE <<sink.room[1] - k>>) \o Tail(sink.room)
    IN [taken |-> k, sink |-> [got |-> sink.got \o SubSeq(items, 1, k), room |-> left]]
Room(sink) == [sink EXCEPT !.room = IF Full(sink) THEN Tail(@) ELSE @]  \* WaitFor()

\* WriteAll(): TSinkFloodedException if the sink takes no more.
RECURSIVE WriteAll(_, _)
WriteAll(sink, items) ==
    LET w == Write(sink, items) IN
    CASE items = <<>>                      -> [sink |-> sink, ok |-> TRUE]
      [] items # <<>> /\ w.taken > 0       -> WriteAll(w.sink, SubSeq(items, w.taken + 1, Len(items)))
      [] items # <<>> /\ w.taken = 0 /\ Full(sink) -> WriteAll(Room(sink), items)
      [] OTHER                             -> [sink |-> sink, ok |-> FALSE]
\* BlockingWrite(): as much as the sink takes before the time is over.
RECURSIVE BlockingWrite(_, _, _)
BlockingWrite(sink, items, patience) ==
    LET w == Write(sink, items) IN
    CASE items # <<>> /\ w.taken > 0 -> BlockingWrite(w.sink, SubSeq(items, w.taken + 1, Len(items)), patience)
      [] items # <<>> /\ w.taken = 0 /\ Full(sink) /\ patience # 0 -> BlockingWrite(Room(sink), items, patience - 1)
      [] OTHER -> sink
\* TLimitSink: TLimitExceededException, before anything is written.
LimitWrite(sink, limit, written, items) ==
    IF limit # NEG1 /\ Len(items) > limit - written THEN [ok |-> FALSE, sink |-> sink]
    ELSE [ok |-> TRUE, sink |-> Write(sink, items).sink]

\* TCopyCatStream::Read(): n items of the array go to the copy, those behind what
\* was read as they were before.
Stale == 99
CopyCatRead(script, n, copy) ==
    LET r == Read(script, n) IN
    [got |-> r.got, source |-> r.source, copy |-> WriteAll(copy, r.got \o [i \in 1..(n - Len(r.got)) |-> Stale])]

\* _Pump(): a buffer at a time while it has moved less than n.  Both ReadIn() and
\* WriteOut() of a source and a sink that know no better way come down to it.
RECURSIVE Pump(_, _, _, _)
Pump(script, sink, n, blocking) ==
    LET r == IF blocking THEN BlockingRead(script, BufferSize, NEG1) ELSE Read(script, BufferSize)
        w == WriteAll(sink, r.got)
    IN IF n <= 0 \/ r.got = <<>> THEN [moved |-> 0, source |-> script, sink |-> sink, ok |-> TRUE]
       ELSE IF ~w.ok THEN [moved |-> 0, source |-> r.source, sink |-> w.sink, ok |-> FALSE]
       ELSE LET rest == Pump(r.source, w.sink, n - Len(r.got), blocking) IN [rest EXCEPT !.moved = @ + Len(r.got)]

-----------------------------------------------------------------------------
(* TPullBuffer *)

PullBuffer(script) == [source |-> script, buffer |-> <<>>, pos |-> 0]
Count(b) == Len(b.buffer) - b.pos
\* All that the source has, again and again until there is enough.
RECURSIVE Fill(_, _)
Fill(b, count) ==
    LET r == Read(b.source, Len(b.source)) IN
    CASE Len(b.buffer) >= count \/ b.source = <<>> -> b
      [] Len(b.buffer) < count /\ r.got # <<>> -> Fill([b EXCEPT !.buffer = @ \o r.got, !.source = r.source], count)
      [] OTHER -> Fill([b EXCEPT !.source = WaitFor(@)], count)
Ensure_Unshifted(b, count) == IF count <= Count(b) THEN b ELSE Fill([b EXCEPT !.pos = 0], count)
Ensure(b, count) ==
    IF count <= Count(b) THEN b
    ELSE Fill([b EXCEPT !.buffer = SubSeq(@, b.pos + 1, Len(@)), !.pos = 0], count)
Shift(b, count) == [b EXCEPT !.pos = @ + count]  \* count <= Count(b)
At(b, index) == b.buffer[b.pos + index + 1]
\* IBufferedSource::Read()
RECURSIVE BufferRead(_, _)
BufferRead(b, n) ==
    LET e == IF Count(b) = 0 THEN Ensure(b, 1) ELSE b
        k == Lesser(Count(e), n)
    IN IF n = 0 \/ Count(e) = 0 THEN [got |-> <<>>, buffer |-> e]
       ELSE LET rest == BufferRead(Shift(e, k), n - k)
            IN [rest EXCEPT !.got = [i \in 1..k |-> At(e, i - 1)] \o @]

-----------------------------------------------------------------------------
(* Pipes *)

SourcePipe(script) == [op |-> "source", source |-> script, buffer |-> <<>>]
FilterPipe(p, keep) == [op |-> "filter", of |-> p, keep |-> keep]
MapPipe(p, add) == [op |-> "map", of |-> p, add |-> add]
LimitPipe(p, n) == [op |-> "limit", of |-> p, remaining |-> n]
\* A transformator may take any number of items for each that it gives: here two.
TransformPipe(p) == [op |-> "transform", of |-> p]
ConcatPipe(p, q) == [op |-> "concat", of |-> p, then |-> q]

Item(x, p) == [item |-> <<x>>, pipe |-> p]
NoItem(p) == [item |-> <<>>, pipe |-> p]
\* NextItem(): an item, or nullptr.
RECURSIVE NextItem(_)
NextItem(p) ==
    CASE p.op = "source" ->
           IF p.buffer # <<>> THEN Item(Head(p.buffer), [p EXCEPT !.buffer = Tail(@)])
           ELSE IF p.source = <<>> THEN NoItem(p)
           ELSE LET r == Read(WaitFor(p.source), BufferSize) IN NextItem([p EXCEPT !.source = r.source, !.buffer = r.got])
      [] p.op = "filter" ->
           LET x == NextItem(p.of) IN
           IF x.item = <<>> \/ x.item[1] \in p.keep THEN [x EXCEPT !.pipe = [p EXCEPT !.of = x.pipe]]
           ELSE NextItem([p EXCEPT !.of = x.pipe])
      [] p.op = "map" ->
           LET x == NextItem(p.of) IN [item |-> [i \in DOMAIN x.item |-> x.item[i] + p.add], pipe |-> [p EXCEPT !.of = x.pipe]]
      [] p.op = "limit" ->
           IF p.remaining = 0 THEN NoItem(p)
           ELSE LET x == NextItem(p.of) IN [x EXCEPT !.pipe = [p EXCEPT !.of = x.pipe, !.remaining = @ - 1]]
      [] p.op = "transform" ->
           LET x == NextItem(p.of)  y == NextItem(x.pipe) IN
           IF x.item = <<>> THEN NoItem([p EXCEPT !.of = x.pipe])
           ELSE IF y.item = <<>> THEN NoItem([p EXCEPT !.of = y.pipe])
           ELSE Item(x.item[1] + y.item[1], [p EXCEPT !.of = y.pipe])
      [] p.op = "concat" ->
           LET x == NextItem(p.of)  y == NextItem(p.then) IN
           IF x.item # <<>> THEN [x EXCEPT !.pipe = [p EXCEPT !.of = x.pipe]]
           ELSE [y EXCEPT !.pipe = [p EXCEPT !.of = x.pipe, !.then = y.pipe]]

\* TPipeSource::Read(), AppendTo(), ForEach(): up to n items.
RECURSIVE Take(_, _)
Take(p, n) ==
    LET x == NextItem(p) IN
    IF n = 0 THEN [got |-> <<>>, pipe |-> p]
    ELSE IF x.item = <<>> THEN [got |-> <<>>, pipe |-> x.pipe]
    ELSE LET rest == Take(x.pipe, n - 1) IN [rest EXCEPT !.got = x.item \o @]
Many == 3 * MaxScript
Collect(p) == Take(p, Many).got
CountItems(p) == Len(Collect(p))
Aggregate(p, init) == FoldLeft(LAMBDA sum, x : sum + x, init, Collect(p))
First(p) == NextItem(p).item  \* TStreamDryException if there is none
\* ToStream(): a buffer full of items at a time, until one is not full.
RECURSIVE ToStream(_, _)
ToStream(p, sink) ==
    LET x == Take(p, BufferSize)
        w == WriteAll(sink, x.got)
    IN IF ~w.ok \/ Len(x.got) < BufferSize THEN w ELSE ToStream(x.pipe, w.sink)

Scripts == UNION {[1..n -> Items \cup {Gap}] : n \in 0..MaxScript}
RECURSIVE Pipes(_)
Pipes(p) == CASE p.op = "source" -> 0
              [] p.op = "concat" -> 1 + Pipes(p.of) + Pipes(p.then)
              [] OTHER -> 1 + Pipes(p.of)
Small == {SourcePipe(s) : s \in {<<>>, <<Gap, 1>>}} \cup {LimitPipe(SourcePipe(<<2, 1>>), 1)}
Init == flow \in {SourcePipe(s) : s \in Scripts}
Connect ==
    /\ Pipes(flow) < MaxPipes
    /\ \/ flow' \in {FilterPipe(flow, {1, 3}), MapPipe(flow, 1), TransformPipe(flow)}
       \/ \E n \in 0..2 : flow' = LimitPipe(flow, n)
       \/ \E p \in Small : flow' \in {ConcatPipe(flow, p), ConcatPipe(p, flow)}
Next == Connect
Spec == Init /\ [][Next]_flow

-----------------------------------------------------------------------------
(* Properties *)

\* What a pipe means: a sequence of items, whatever comes when.
RECURSIVE Meaning(_)
Meaning(p) ==
    CASE p.op = "source"    -> p.buffer \o ItemsOf(p.source)
      [] p.op = "filter"    -> SelectSeq(Meaning(p.of), LAMBDA x : x \in p.keep)
      [] p.op = "map"       -> LET s == Meaning(p.of) IN [i \in DOMAIN s |-> s[i] + p.add]
      [] p.op = "limit"     -> LET s == Meaning(p.of) IN SubSeq(s, 1, Lesser(p.remaining, Len(s)))
      [] p.op = "transform" -> LET s == Meaning(p.of) IN [i \in 1..(Len(s) \div 2) |-> s[2 * i - 1] + s[2 * i]]
      [] p.op = "concat"    -> Meaning(p.of) \o Meaning(p.then)

\* A pipe gives the items it means, taken at once or in two goes, and no more
\* items behind the last; a sink gets them in that order, as many as it takes.
PipesExact ==
    \A s \in {Meaning(flow)} :
        /\ \A n \in 0..(Len(s) + 1) : \A t \in {Take(flow, n)} :
              /\ t.got = SubSeq(s, 1, Lesser(n, Len(s)))
              /\ n > Len(s) => NextItem(t.pipe).item = <<>>
              /\ Meaning(t.pipe) = SubSeq(s, Len(t.got) + 1, Len(s))
        /\ Aggregate(flow, 0) = FoldLeft(LAMBDA a, x : a + x, 0, s) /\ CountItems(flow) = Len(s)
        /\ First(flow) = SubSeq(s, 1, Lesser(1, Len(s)))
        /\ \A room \in Rooms : \A w \in {ToStream(flow, Sink(room))} :
              IF w.ok THEN w.sink.got = s ELSE IsPrefix(w.sink.got, s) /\ Closed(w.sink)

Total(room) == FoldLeft(LAMBDA a, k : a + k, 0, room)
\* Nothing is lost or doubled between a source and a sink, if neither is closed
\* or reads too early; a limit is never passed.
SourcesExact ==
    flow.op = "source" => \A script \in {flow.source}, all \in {ItemsOf(flow.source)} :
        /\ \A n \in 0..MaxScript, patience \in {NEG1, 0, 1} : \A r \in {BlockingRead(script, n, patience)} :
              /\ r.got \o ItemsOf(r.source) = all /\ Len(r.got) <= n
              /\ patience = NEG1 => Len(r.got) = Lesser(n, Len(all))
        /\ \A n \in 0..MaxScript : \A d \in {Discard(script, n)} :
              /\ d.ok = (n <= Len(all))
              /\ d.ok => ItemsOf(d.source) = SubSeq(all, n + 1, Len(all))
        /\ \A n, m \in 0..3 : \A r \in {LimitRead(LimitSource(script, n), m)} : \A q \in {LimitRead(r.source, n)} :
              /\ IsPrefix(r.got \o q.got, all) /\ Len(r.got \o q.got) <= n
              /\ LimitBlocked(q.source) => Len(r.got \o q.got) < n
        /\ \A room \in Rooms, n \in 1..2, blocking \in BOOLEAN : \A p \in {Pump(script, Sink(room), n, blocking)} :
              IF p.ok THEN p.sink.got \o ItemsOf(p.source) = all /\ p.moved = Len(p.sink.got)
              ELSE IsPrefix(p.sink.got, all) /\ Closed(p.sink)
        /\ \A room \in Rooms, patience \in {NEG1, 0, 1} : \A s \in {BlockingWrite(Sink(room), all, patience)} :
              /\ IsPrefix(s.got, all)
              /\ patience = NEG1 => Len(s.got) = Lesser(Len(all), Total(room))
        /\ \A limit \in 0..2 : LimitWrite(Sink(<<9>>), limit, 0, all).ok = (Len(all) <= limit)
        \* a copy is exact if the source gives all that was asked for
        /\ \A n \in 0..UntilGap(script) : CopyCatRead(script, n, Sink(<<9>>)).copy.sink.got = SubSeq(script, 1, n)
\* A buffered source shows and gives the items of the source it pulls from.
BufferExact ==
    flow.op = "source" => \A all \in {ItemsOf(flow.source)} :
        \A n, m, k \in 0..MaxScript : \A e \in {Ensure(PullBuffer(flow.source), n)} :
            /\ Count(e) >= Lesser(n, Len(all))
            /\ \A i \in 0..(Count(e) - 1) : At(e, i) = all[i + 1]
            /\ m <= Count(e) => \A r \in {BufferRead(Ensure(Shift(e, m), k), n)} :
                  r.got = SubSeq(all, m + 1, Lesser(m + n, Len(all)))

StreamsExact == PipesExact /\ SourcesExact /\ BufferExact
=============================================================================
