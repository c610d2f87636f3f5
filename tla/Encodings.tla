----------------------------- MODULE Encodings -----------------------------
(***************************************************************************)
(* UTF-8, base64 and the buffered text reader and writer (io_text,         *)
(* io_text_encoding_utf8, io_format_base64): characters become bytes, go   *)
(* through a cache of a few bytes, come out of a source in pieces of any   *)
(* size, are decoded ahead and looked at before they are consumed.         *)
(***************************************************************************)
EXTENDS Integers, Sequences, FiniteSets, Folds, SequencesExt

CONSTANTS Chars,       \* the characters written, code points
          MaxChars,    \* bound: characters written
          WriteCache,  \* buffer_size of the writer, bytes
          ReadCache,   \* buffer_size of the reader, bytes
          Ahead        \* decode_ahead of the reader, characters

VARIABLES written,  \* the text so far
          writer,   \* TStreamTextWriter: the bytes in its buffer
          wire,     \* the bytes in the stream between them
          cache,    \* TByteInput: the bytes not yet decoded
          buffer,   \* TStreamTextReader: decoded characters, the first pos consumed
          pos,
          place     \* character_index, line_index

vars == <<written, writer, wire, cache, buffer, pos, place>>

LF == 10
Bits(x, shift, width) == (x \div 2^shift) % 2^width
Counted(s, c) == Cardinality({i \in DOMAIN s : s[i] = c})

-----------------------------------------------------------------------------
(* UTF-8 *)

EncodedLength(c) == CASE c <= 127 -> 1 [] c > 127 /\ c < 2048 -> 2 [] c >= 2048 /\ c < 65536 -> 3 [] OTHER -> 4
\* TUTF8Encoder; what is 4194304 or more is refused.
Encode(c) ==
    LET Follow(shift) == 128 + Bits(c, shift, 6) IN
    CASE EncodedLength(c) = 1 -> <<c>>
      [] EncodedLength(c) = 2 -> <<192 + Bits(c, 6, 5), Follow(0)>>
      [] EncodedLength(c) = 3 -> <<224 + Bits(c, 12, 4), Follow(6), Follow(0)>>
      [] EncodedLength(c) = 4 -> <<240 + Bits(c, 18, 4), Follow(12), Follow(6), Follow(0)>>

\* How many bytes follow a first byte; a following byte cannot be the first.
ByteType(b) ==
    CASE b < 128             -> [kind |-> "first", need |-> 0, value |-> b]
      [] b >= 128 /\ b < 192 -> [kind |-> "follow", need |-> 0, value |-> b - 128]
      [] b >= 192 /\ b < 224 -> [kind |-> "first", need |-> 1, value |-> b % 64]
      [] b >= 224 /\ b < 240 -> [kind |-> "first", need |-> 2, value |-> b % 32]
      [] b >= 240            -> [kind |-> "first", need |-> 3, value |-> b % 16]
\* For the runs that check the properties: a start byte may stand among the following bytes.
Decode_AnyFollow(s) ==
    LET t == ByteType(s[1]) IN
    IF s = <<>> THEN [r |-> "end"]
    ELSE IF t.kind = "follow" THEN [r |-> "invalid"] ELSE IF Len(s) <= t.need THEN [r |-> "dry"]
    ELSE [r |-> "char", value |-> FoldLeft(LAMBDA x, b : 64 * x + (b % 64), t.value, SubSeq(s, 2, t.need + 1)), n |-> t.need + 1]
\* TUTF8Decoder, one character of the bytes s.
Decode(s) ==
    LET t == ByteType(s[1])
        wrong == {i \in 2..(t.need + 1) : i <= Len(s) /\ ByteType(s[i]).kind # "follow"}
    IN CASE s = <<>> -> [r |-> "end"]
         [] s # <<>> /\ (t.kind = "follow" \/ wrong # {}) -> [r |-> "invalid"]
         [] s # <<>> /\ t.kind = "first" /\ wrong = {} /\ Len(s) <= t.need -> [r |-> "dry"]
         [] OTHER -> [r |-> "char", value |-> FoldLeft(LAMBDA x, b : 64 * x + (b % 64), t.value, SubSeq(s, 2, t.need + 1)),
                      n |-> t.need + 1]

RECURSIVE DecodeAll(_)
DecodeAll(s) ==
    LET x == Decode(s) IN
    IF x.r # "char" THEN [r |-> x.r, text |-> <<>>]
    ELSE LET y == DecodeAll(SubSeq(s, x.n + 1, Len(s))) IN [y EXCEPT !.text = <<x.value>> \o @]

-----------------------------------------------------------------------------
(* base64, symbols 0..63; 64 pads, 65 is the end of the text *)

EncodeBlock(b) ==
    LET x == [i \in 1..3 |-> IF i <= Len(b) THEN b[i] ELSE 0] IN
    <<x[1] \div 4, (x[1] % 4) * 16 + x[2] \div 16,
      IF Len(b) < 2 THEN 64 ELSE (x[2] % 16) * 4 + x[3] \div 64, IF Len(b) < 3 THEN 64 ELSE x[3] % 64>>
RECURSIVE EncodeBase64(_)
EncodeBase64(bytes) ==
    IF bytes = <<>> THEN <<>>
    ELSE LET k == IF Len(bytes) < 3 THEN Len(bytes) ELSE 3 IN
         EncodeBlock(SubSeq(bytes, 1, k)) \o EncodeBase64(SubSeq(bytes, k + 1, Len(bytes)))

DecodeBlock(v) ==
    LET out == <<(v[1] % 64) * 4 + Bits(v[2], 4, 2), (v[2] % 16) * 16 + Bits(v[3], 2, 4), (v[3] % 4) * 64 + (v[4] % 64)>> IN
    CASE v[1] >= 64 -> [ok |-> TRUE, bytes |-> <<>>]
      [] v[1] < 64 /\ v[2] >= 64 -> [ok |-> FALSE, bytes |-> <<>>]
      [] OTHER -> [ok |-> TRUE, bytes |-> SubSeq(out, 1, IF v[3] >= 64 THEN 1 ELSE IF v[4] >= 64 THEN 2 ELSE 3)]
\* A block without bytes ends the stream, whatever is behind it.
RECURSIVE DecodeBase64(_)
DecodeBase64(s) ==
    LET b == DecodeBlock([i \in 1..4 |-> IF i <= Len(s) THEN s[i] ELSE 65])
        rest == DecodeBase64(SubSeq(s, 5, Len(s)))
    IN IF ~b.ok \/ b.bytes = <<>> THEN b ELSE [ok |-> rest.ok, bytes |-> b.bytes \o rest.bytes]

EncodeBase64Url(bytes) == SelectSeq(EncodeBase64(bytes), LAMBDA x : x # 64)
DecodeBase64Url(s) ==
    IF Len(s) % 4 = 1 THEN [ok |-> FALSE, bytes |-> <<>>]
    ELSE DecodeBase64(s \o [i \in 1..((4 - (Len(s) % 4)) % 4) |-> 64])

-----------------------------------------------------------------------------
(* TStreamTextWriter *)

Init ==
    /\ written = <<>> /\ writer = <<>> /\ wire = <<>>
    /\ cache = <<>> /\ buffer = <<>> /\ pos = 0 /\ place = [character |-> 0, line |-> 0]

\* The cache is written out when it is full.
RECURSIVE Put(_, _, _)
Put(full, out, bytes) ==
    IF bytes = <<>> THEN [full |-> full, out |-> out]
    ELSE LET x == Append(full, Head(bytes)) IN
         IF Len(x) = WriteCache THEN Put(<<>>, out \o x, Tail(bytes)) ELSE Put(x, out, Tail(bytes))
AppendText(c) ==
    /\ Len(written) < MaxChars
    /\ LET r == Put(writer, wire, Encode(c)) IN writer' = r.full /\ wire' = r.out
    /\ written' = Append(written, c)
    /\ UNCHANGED <<cache, buffer, pos, place>>
Flush ==
    /\ writer # <<>>
    /\ wire' = wire \o writer /\ writer' = <<>>
    /\ UNCHANGED <<written, cache, buffer, pos, place>>

-----------------------------------------------------------------------------
(* TStreamTextReader *)

Room(s, k) == SubSeq(s, 1, IF Len(s) < k THEN Len(s) ELSE k)
Rest(s, k) == SubSeq(s, k + 1, Len(s))

\* Decodes ahead as far as the stream goes; there is always more than asked for
\* unless it ends.  The bytes come in pieces of at most ReadCache.
RECURSIVE Decoded(_, _, _, _)
Decoded(have, in, stream, target) ==
    LET x == Decode(in)
        more == Room(stream, ReadCache)
        stop == [buffer |-> have, cache |-> in, wire |-> stream]
    IN CASE Len(have) >= target -> stop
         [] Len(have) < target /\ x.r = "char" ->
              Decoded(Append(have, x.value), Rest(in, x.n), stream, target)
         [] Len(have) < target /\ x.r # "char" /\ stream # <<>> ->
              Decoded(have, in \o more, Rest(stream, Len(more)), target)
         [] OTHER -> stop

\* For the runs that check the properties: the place in the buffer is kept
\* although what was before it is gone.
Ensure_KeepsPos(count) ==
    LET kept == Rest(buffer, pos)
        target == IF count > Len(kept) + Ahead THEN count ELSE Len(kept) + Ahead
        r == Decoded(kept, cache, wire, target)
    IN IF count <= Len(buffer) - pos THEN [buffer |-> buffer, pos |-> pos, cache |-> cache, wire |-> wire]
       ELSE [buffer |-> r.buffer, pos |-> pos, cache |-> r.cache, wire |-> r.wire]
Ensure(count) ==
    LET kept == Rest(buffer, pos)
        target == IF count > Len(kept) + Ahead THEN count ELSE Len(kept) + Ahead
        r == Decoded(kept, cache, wire, target)
    IN IF count <= Len(buffer) - pos THEN [buffer |-> buffer, pos |-> pos, cache |-> cache, wire |-> wire]
       ELSE [buffer |-> r.buffer, pos |-> 0, cache |-> r.cache, wire |-> r.wire]

\* Shift(): consumes count characters, if the text has as many.
ShiftOf(e, count) == Len(e.buffer) - e.pos >= count
Shift(count) ==
    LET e == Ensure(count)  gone == SubSeq(e.buffer, e.pos + 1, e.pos + count) IN
    /\ ShiftOf(e, count)
    /\ buffer' = e.buffer /\ cache' = e.cache /\ wire' = e.wire
    /\ pos' = e.pos + count
    /\ place' = [character |-> place.character + count, line |-> place.line + Counted(gone, LF)]
    /\ UNCHANGED <<written, writer>>
\* Position(): where a character ahead is, or the end of what there is.
Position(offset) ==
    LET e == Ensure(offset)
        k == IF Len(e.buffer) - e.pos < offset THEN Len(e.buffer) - e.pos ELSE offset
    IN [character |-> place.character + k,
        line |-> place.line + Counted(SubSeq(e.buffer, e.pos + 1, e.pos + k), LF)]
Look(count) ==
    LET e == Ensure(count) IN
    /\ buffer' = e.buffer /\ cache' = e.cache /\ wire' = e.wire /\ pos' = e.pos
    /\ UNCHANGED <<written, writer, place>>

\* The reader is used when the writer has written all: it takes what is there
\* for the end of the text.
Ended == Len(written) = MaxChars /\ writer = <<>>
Next ==
    \/ \E c \in Chars : AppendText(c)
    \/ Flush
    \/ Ended /\ \E k \in 1..3 : Shift(k) \/ Look(k)
Spec == Init /\ [][Next]_vars

-----------------------------------------------------------------------------
Taken == SubSeq(written, 1, place.character)

\* TextKept: what was written is what has been read, what lies ahead and what is
\* still in a cache or the stream, in this order, wherever a cache ended in the
\* middle of a character; and the reader knows its place.
TextKept ==
    /\ \E d \in {DecodeAll(cache \o wire \o writer)} :
         d.r = "end" /\ written = Taken \o SubSeq(buffer, pos + 1, Len(buffer)) \o d.text
    /\ place.line = Counted(Taken, LF)
    /\ Ended => \A k \in 0..3 :
         \E p \in {Position(k)} : LET all == Len(written) - place.character IN
         /\ p.character = place.character + (IF k < all THEN k ELSE all)
         /\ p.line = Counted(SubSeq(written, 1, p.character), LF)

\* CodecsInvert: decoding what was encoded gives it back, cut short it is refused
\* or a shorter text, and without one byte it is refused or lacks one whole
\* character.
CodecsInvert ==
    LET bytes == FlattenSeq([i \in DOMAIN written |-> Encode(written[i])]) IN
    /\ DecodeAll(bytes) = [r |-> "end", text |-> written]
    /\ \A k \in 0..Len(bytes) : LET d == DecodeAll(SubSeq(bytes, 1, k)) IN
         d.r \in {"end", "dry"} /\ IsPrefix(d.text, written)
    /\ \A k \in 1..Len(bytes) : LET d == DecodeAll(SubSeq(bytes, 1, k - 1) \o SubSeq(bytes, k + 1, Len(bytes))) IN
         d.r = "end" => \E i \in DOMAIN written : d.text = RemoveAt(written, i)
    /\ DecodeBase64(EncodeBase64(bytes)) = [ok |-> TRUE, bytes |-> bytes]
    /\ DecodeBase64Url(EncodeBase64Url(bytes)) = [ok |-> TRUE, bytes |-> bytes]
    /\ \A k \in 0..Len(EncodeBase64Url(bytes)) : LET d == DecodeBase64Url(SubSeq(EncodeBase64Url(bytes), 1, k)) IN
         d.ok = (k % 4 # 1) /\ (d.ok => d.bytes = SubSeq(bytes, 1, (k * 3) \div 4))
=============================================================================
