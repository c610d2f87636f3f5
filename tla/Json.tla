-------------------------------- MODULE Json --------------------------------
(***************************************************************************)
(* Values that are printed, and texts that are parsed, within bounds.      *)
(***************************************************************************)
EXTENDS JsonValue

CONSTANTS Halves,    \* the doubles are taken from this set
          Letters,   \* the characters of strings
          Pieces,    \* what texts are put together from
          MaxPieces, \* bound: pieces of a text
          MaxSize    \* bound: scalars, arrays and maps in a value

VARIABLES json,  \* a TJsonValue
          text   \* a text to parse, in pieces

Strings == SeqOf(Letters, 2)
Integers == {Integer("signed", n) : n \in -(2^(IntBits - 1))..(2^(IntBits - 1) - 1)}
            \cup {Integer("unsigned", n) : n \in 0..(2^IntBits - 1)}
Numbers == Integers \cup {Number("floating", h) : h \in {x \in Halves : IsDouble(x)}}
Scalars == {Null, Boolean(TRUE), Boolean(FALSE)} \cup Numbers \cup {String(s) : s \in Strings}
\* What arrays and maps are made of.
Leaves == {Null, Boolean(TRUE), Integer("signed", -1), Integer("unsigned", 7), String(<<Quote>>), Array(<<>>)}
Keys == {<<>>, <<97>>, <<97, Backslash>>}

RECURSIVE Size(_)
Size(v) ==
    CASE v.type = "array" -> FoldLeft(LAMBDA n, x : n + Size(x), 1, v.items)
      [] v.type = "map"   -> FoldLeft(LAMBDA n, x : n + Size(x.value), 1, v.pairs)
      [] OTHER            -> 1

Init == json \in Scalars /\ text = <<>>

\* The value becomes an item or a member, or takes another one.
Nest ==
    /\ text = <<>> /\ Size(json) < MaxSize
    /\ \/ json \in Leaves /\ json' = Array(<<json>>)
       \/ json \in Leaves /\ \E k \in Keys : json' = Map(<<[key |-> k, value |-> json]>>)
       \/ json.type \in {"array", "map"} /\ json' \in {Array(<<json>>), Map(<<[key |-> <<97>>, value |-> json]>>)}
       \/ json.type = "array" /\ \E x \in Leaves : json' = Array(Append(json.items, x))
       \/ /\ json.type = "map"
          /\ \E k \in Keys, x \in Leaves :
                /\ k \notin {json.pairs[i].key : i \in DOMAIN json.pairs}
                /\ json' = Map(Append(json.pairs, [key |-> k, value |-> x]))
    /\ text' = text

Write ==
    /\ json = Null /\ Len(text) < MaxPieces
    /\ \E x \in Pieces : text' = Append(text, x)
    /\ json' = json

Next == Nest \/ Write
Spec == Init /\ [][Next]_<<json, text>>

-----------------------------------------------------------------------------
(* Properties *)

Reads(t, tolerant, v) == \A r \in {Parse(t, tolerant)} : r.ok /\ \A x \in {r.value} : Equal(x, v)

\* What a value prints is read back as an equal value, by either parser; a
\* reader stops where the value ends; no control character is printed raw.
ValueReadsBack ==
    \A t \in {ToStream(json)} :
        /\ \A tolerant \in BOOLEAN : Reads(t, tolerant, json)
        /\ \A c \in {Comma, CloseArray, CloseMap} :
              \A u \in {Append(t, c)} : \A r \in {ParseReader(u, FALSE)} : r.ok /\ r.at = Len(t) /\ \A x \in {r.value} : Equal(x, json)
        /\ \A i \in DOMAIN t : t[i] >= 32
        /\ json.type = "string" => \A q \in {JsonQuote(json.chars)} : JsonUnquote(q) = Returned(json.chars)

\* A text that is read prints as a text that is read as the same value; what the
\* strict parser takes the tolerant one takes as well, and for the same; a
\* container or a string that has not been closed is not taken.
TextReadsBack ==
    \A t \in {FlattenSeq(text)} : \A strict \in {Parse(t, FALSE)} : \A lax \in {Parse(t, TRUE)} :
        /\ strict.ok => lax.ok /\ lax.value = strict.value
        /\ lax.ok => \A x \in {lax.value} : \A u \in {ToStream(x)} : Reads(u, FALSE, x)
        /\ strict.ok /\ strict.value.type \in {"array", "map", "string"} =>
              \A end \in 0..(Len(t) - 1) : (\E i \in (end + 1)..Len(t) : t[i] \notin Whitespace)
                                          => \A u \in {SubSeq(t, 1, end)} : ~Parse(u, TRUE).ok

\* Numbers of different representations are equal when they have the same
\* value, and an integer is taken from a number exactly or not at all.
NumbersExact ==
    json \in Numbers =>
        /\ \A a \in Numbers : /\ Equal(json, a) = (json.halves = a.halves)
                              /\ Equal(a, json) = Equal(json, a)
        /\ \A bits \in {IntBits - 1, IntBits}, signed \in BOOLEAN :
              \A r \in {ToInteger(json, bits, signed)} :
                  /\ r.ok => 2 * r.value = json.halves /\ InRange(r.value, bits, signed)
                  /\ ~r.ok => \A n \in -(2^IntBits)..2^IntBits : 2 * n = json.halves => ~InRange(n, bits, signed)
        /\ ToDouble(json).ok /\ IsDouble(ToDouble(json).value)

JsonReadsBack == IF text = <<>> THEN ValueReadsBack /\ NumbersExact ELSE TextReadsBack
=============================================================================
