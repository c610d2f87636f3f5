----------------------------- MODULE JsonValue -----------------------------
(***************************************************************************)
(* io_format_json: TJsonValue, its conversions and comparison, what        *)
(* ToStream prints and what TJsonParser reads, strictly and tolerantly.    *)
(*                                                                         *)
(* A character is its code point.  Integers have IntBits bits.  A number   *)
(* is counted in halves, so that some have a fraction; a double holds the  *)
(* halves that fit into Mantissa bits.  Infinity and NaN, which no text    *)
(* gives, and the memory of a value are left out.                          *)
(***************************************************************************)
EXTENDS Integers, Sequences, FiniteSets, Folds, SequencesExt

CONSTANTS IntBits,     \* width of s64_t and u64_t
          Mantissa,    \* bits of the mantissa of a double
          MaxExponent  \* bound: an exponent of this size is beyond every double

NEG1 == -1
Quote == 34
Comma == 44
Minus == 45
Dot == 46
Colon == 58
Backslash == 92
OpenArray == 91
CloseArray == 93
OpenMap == 123
CloseMap == 125
Digits == 48..57
Whitespace == {32, 9, 10, 13}
TrueWord == <<116, 114, 117, 101>>
FalseWord == <<102, 97, 108, 115, 101>>
NullWord == <<110, 117, 108, 108>>

-----------------------------------------------------------------------------
(* Values *)

Null == [type |-> "null"]
Boolean(b) == [type |-> "boolean", flag |-> b]
String(s) == [type |-> "string", chars |-> s]
Array(items) == [type |-> "array", items |-> items]
\* A map keeps its pairs in the order of their keys.
Before(a, b) == \E i \in 1..Len(b) : /\ i <= Len(a) + 1
                                     /\ SubSeq(a, 1, i - 1) = SubSeq(b, 1, i - 1)
                                     /\ i <= Len(a) => a[i] < b[i]
Map(pairs) == [type |-> "map", pairs |-> SortSeq(pairs, LAMBDA x, y : Before(x.key, y.key))]
Number(rep, halves) == [type |-> "number", rep |-> rep, halves |-> halves]
Integer(rep, n) == Number(rep, 2 * n)

InRange(n, bits, signed) == IF signed THEN n >= -(2^(bits - 1)) /\ n < 2^(bits - 1) ELSE n >= 0 /\ n < 2^bits
Whole(halves) == halves % 2 = 0
Largest == 2^(IntBits + 3)  \* the largest double
IsDouble(halves) == LET abs == IF halves < 0 THEN -halves ELSE halves IN
                    \E e \in 0..IntBits : abs % 2^e = 0 /\ abs \div 2^e < 2^Mantissa
\* The double closest to n/d halves, the even one of two.
Nearest(n, d) ==
    LET Off(h) == IF h * d > n THEN h * d - n ELSE n - h * d
        doubles == {h \in -Largest..Largest : IsDouble(h)}
        Unit(h) == CHOOSE e \in 0..(IntBits + 3) : h % 2^e = 0 /\ (e = IntBits + 3 \/ h % 2^(e + 1) # 0)
        best == {h \in doubles : \A g \in doubles : Off(h) <= Off(g)}
    IN IF n % d = 0 /\ IsDouble(n \div d) THEN n \div d
       ELSE CHOOSE h \in best : \A g \in best : Unit(h) >= Unit(g)

\* For the runs that check the properties: integers compared as doubles.
SameNumber_AsDoubles(a, b) ==
    IF a.rep = "floating" \/ b.rep = "floating" THEN Nearest(a.halves, 1) = Nearest(b.halves, 1) ELSE a.halves = b.halves
\* Equal numbers of any two representations.  A double that is compared with an
\* integer must be whole and in the range of the representation.
SameNumber(a, b) ==
    LET Fits(rep, h) == Whole(h) /\ InRange(h \div 2, IntBits, rep = "signed") IN
    CASE a.rep = b.rep                             -> a.halves = b.halves
      [] a.rep = "floating" /\ b.rep # "floating"  -> Fits(b.rep, a.halves) /\ a.halves = b.halves
      [] b.rep = "floating" /\ a.rep # "floating"  -> Fits(a.rep, b.halves) /\ a.halves = b.halves
      [] a.rep = "signed" /\ b.rep = "unsigned"    -> a.halves >= 0 /\ a.halves = b.halves
      [] a.rep = "unsigned" /\ b.rep = "signed"    -> b.halves >= 0 /\ a.halves = b.halves

RECURSIVE Equal(_, _)
Equal(a, b) ==
    /\ a.type = b.type
    /\ CASE a.type = "null"    -> TRUE
         [] a.type = "boolean" -> a.flag = b.flag
         [] a.type = "number"  -> SameNumber(a, b)
         [] a.type = "string"  -> a.chars = b.chars
         [] a.type = "array"   -> /\ Len(a.items) = Len(b.items)
                                  /\ \A i \in DOMAIN a.items : Equal(a.items[i], b.items[i])
         [] a.type = "map"     -> /\ Len(a.pairs) = Len(b.pairs)
                                  /\ \A i \in DOMAIN a.pairs : /\ a.pairs[i].key = b.pairs[i].key
                                                               /\ Equal(a.pairs[i].value, b.pairs[i].value)

\* ToInteger<T>() and ToInteger<T>(default); Number() and Number(default).
Thrown == [ok |-> FALSE]
Returned(x) == [ok |-> TRUE, value |-> x]
ToInteger(v, bits, signed) ==
    IF v.type # "number" \/ (v.type = "number" /\ ~(Whole(v.halves) /\ InRange(v.halves \div 2, bits, signed)))
    THEN Thrown ELSE Returned(v.halves \div 2)
ToIntegerOr(v, bits, signed, default) == IF v.type = "null" THEN Returned(default) ELSE ToInteger(v, bits, signed)
ToDouble(v) ==
    CASE v.type # "number"                           -> Thrown
      [] v.type = "number" /\ v.rep = "floating"     -> Returned(v.halves)
      [] OTHER                                       -> Returned(Nearest(v.halves, 1))
ToDoubleOr(v, default) == IF v.type # "number" THEN Returned(default) ELSE ToDouble(v)

\* operator()(key): the member, or NULLVALUE.
Member(v, key) ==
    IF v.type = "map" /\ \E i \in DOMAIN v.pairs : v.pairs[i].key = key
    THEN (CHOOSE p \in {v.pairs[i] : i \in DOMAIN v.pairs} : p.key = key).value ELSE Null

-----------------------------------------------------------------------------
(* Printing *)

HexDigit(d) == IF d < 10 THEN 48 + d ELSE 87 + d
Hex4(c) == <<HexDigit(c \div 4096), HexDigit((c \div 256) % 16), HexDigit((c \div 16) % 16), HexDigit(c % 16)>>

\* Control characters do not go through.
JsonQuote(s) ==
    LET Escaped(c) == CASE c \in {Quote, Backslash} -> <<Backslash, c>>
                        [] c = 10 -> <<Backslash, 110>>
                        [] c = 9  -> <<Backslash, 116>>
                        [] c < 32 /\ c \notin {9, 10} -> <<Backslash, 117>> \o Hex4(c)
                        [] OTHER  -> <<c>>
    IN <<Quote>> \o FlattenSeq([i \in DOMAIN s |-> Escaped(s[i])]) \o <<Quote>>

RECURSIVE Decimal(_)
Decimal(n) == IF n < 10 THEN <<48 + n>> ELSE Append(Decimal(n \div 10), 48 + (n % 10))
PrintNumber(h) ==
    IF h < 0 THEN <<Minus>> \o Decimal((-h) \div 2) \o (IF Whole(h) THEN <<>> ELSE <<Dot, 53>>)
    ELSE Decimal(h \div 2) \o (IF Whole(h) THEN <<>> ELSE <<Dot, 53>>)

Separated(parts) == FlattenSeq([i \in DOMAIN parts |-> IF i = 1 THEN parts[i] ELSE <<Comma>> \o parts[i]])
RECURSIVE ToStream(_)
ToStream(v) ==
    CASE v.type = "null"    -> NullWord
      [] v.type = "boolean" -> IF v.flag THEN TrueWord ELSE FalseWord
      [] v.type = "number"  -> PrintNumber(v.halves)
      [] v.type = "string"  -> JsonQuote(v.chars)
      [] v.type = "array"   -> <<OpenArray>> \o Separated([i \in DOMAIN v.items |-> ToStream(v.items[i])]) \o <<CloseArray>>
      [] v.type = "map"     ->
           <<OpenMap>> \o Separated([i \in DOMAIN v.pairs |->
                              JsonQuote(v.pairs[i].key) \o <<Colon>> \o ToStream(v.pairs[i].value)]) \o <<CloseMap>>

-----------------------------------------------------------------------------
(* Parsing.  A parser returns No, or what it read and where it ended.  A   *)
(* failed Expect() and a duplicate key throw, which ends in No as well:    *)
(* no branch that is tried later accepts what follows.                     *)

No == [ok |-> FALSE]
Yes(at, value) == [ok |-> TRUE, at |-> at, value |-> value]
\* What follows a parser that has read something.
Then(read, Follow(_)) == CHOOSE r \in {IF x.ok THEN Follow(x) ELSE No : x \in {read}} : TRUE
At(t, p) == IF p < Len(t) THEN t[p + 1] ELSE NEG1
First(t, p, Stops(_)) == CHOOSE q \in p..Len(t) : /\ q = Len(t) \/ Stops(t[q + 1])
                                                  /\ \A r \in p..(q - 1) : ~Stops(t[r + 1])
Skip(t, p) == First(t, p, LAMBDA c : c \notin Whitespace)
PastDigits(t, p) == First(t, p, LAMBDA c : c \notin Digits)
Place(p) == Yes(p, <<>>)  \* a position, to go on from

\* ConvertCodeUnit() of four hexadecimal digits.
HexValue(c) == CASE c \in 48..57 -> c - 48 [] c \in 65..70 -> c - 55 [] c \in 97..102 -> c - 87 [] OTHER -> NEG1
CodeUnit(t, p) ==
    IF \E i \in 0..3 : HexValue(At(t, p + i)) = NEG1 THEN No
    ELSE Yes(p + 4, FoldLeft(LAMBDA n, c : 16 * n + HexValue(c), 0, SubSeq(t, p + 1, p + 4)))
\* unicode_scalar, surrogate_pair, invalid_surrogate
UnicodeEscape(t, p) ==
    Then(CodeUnit(t, p), LAMBDA high :
        CASE high.value \notin 55296..57343 -> high
          [] high.value \in 56320..57343    -> No
          [] high.value \in 55296..56319    ->
               IF At(t, high.at) # Backslash \/ At(t, high.at + 1) # 117 THEN No
               ELSE Then(CodeUnit(t, high.at + 2), LAMBDA low :
                        IF low.value \notin 56320..57343 THEN No
                        ELSE Yes(low.at, 65536 + (high.value - 55296) * 1024 + (low.value - 56320))))
SimpleEscape(c) ==
    CASE c \in {34, 92, 47} -> c [] c = 98 -> 8 [] c = 102 -> 12 [] c = 110 -> 10 [] c = 114 -> 13 [] c = 116 -> 9
      [] OTHER -> NEG1
Escape(t, p, tolerant) ==
    CASE SimpleEscape(At(t, p)) # NEG1 -> Yes(p + 1, SimpleEscape(At(t, p)))
      [] At(t, p) = 117                -> UnicodeEscape(t, p + 1)
      [] OTHER                         -> IF tolerant /\ At(t, p) # NEG1 THEN Yes(p + 1, At(t, p)) ELSE No

RECURSIVE CharsFrom(_, _, _, _)
CharsFrom(t, p, tolerant, read) ==
    CASE At(t, p) = Quote     -> Yes(p + 1, read)
      [] At(t, p) = NEG1      -> No
      [] At(t, p) = Backslash -> Then(Escape(t, p + 1, tolerant), LAMBDA e :
                                     CharsFrom(t, e.at, tolerant, Append(read, e.value)))
      [] OTHER                -> IF At(t, p) < 32 /\ ~tolerant THEN No
                                 ELSE CharsFrom(t, p + 1, tolerant, Append(read, t[p + 1]))
RawString(t, p, tolerant) == IF At(t, p) = Quote THEN CharsFrom(t, p + 1, tolerant, <<>>) ELSE No

\* number_token: its integer part, a fraction and an exponent if there are any.
IntegerPart(t, p) == CASE At(t, p) = 48      -> Place(p + 1)
                       [] At(t, p) \in 49..57 -> Place(PastDigits(t, p))
                       [] OTHER              -> No
Fraction(t, p) == IF At(t, p) = Dot /\ At(t, p + 1) \in Digits THEN Place(PastDigits(t, p + 1)) ELSE Place(p)
ExponentPart(t, p, digits) ==
    IF At(t, p) \in {69, 101} /\ At(t, digits) \in Digits THEN Place(PastDigits(t, digits)) ELSE Place(p)
NumberToken(t, p) ==
    Then(IntegerPart(t, IF At(t, p) = Minus THEN p + 1 ELSE p), LAMBDA i :
        Then(Fraction(t, i.at), LAMBDA f :
            Then(ExponentPart(t, f.at, IF At(t, f.at + 1) \in {43, Minus} THEN f.at + 2 ELSE f.at + 1), LAMBDA e :
                Yes(e.at, [sign |-> IF At(t, p) = Minus THEN -1 ELSE 1,
                           whole |-> SelectSeq(SubSeq(t, p + 1, i.at), LAMBDA c : c # Minus),
                           fraction |-> SubSeq(t, i.at + 2, f.at),
                           small |-> At(t, f.at + 1) = Minus /\ e.at > f.at,
                           exponent |-> SelectSeq(SubSeq(t, f.at + 2, e.at), LAMBDA c : c \in Digits),
                           integer |-> e.at = i.at]))))
\* ConvertNumeric(): an integer if it is written as one and fits, or else the
\* closest double; a number beyond the doubles is no number.
DigitsValue(s) == FoldLeft(LAMBDA n, c : 10 * n + (c - 48), 0, s)
Scaled(n, d, end) == IF n > Largest * d \/ n < -(Largest * d) THEN No ELSE Yes(end, Number("floating", Nearest(n, d)))
Floating(x, mantissa, exponent, end) ==
    LET power == IF mantissa = 0 THEN 0 ELSE IF exponent < MaxExponent THEN exponent ELSE MaxExponent IN
    IF x.small THEN Scaled(2 * x.sign * mantissa, 10^(Len(x.fraction) + power), end)
    ELSE Scaled(2 * x.sign * mantissa * 10^power, 10^Len(x.fraction), end)
ConvertNumeric(x, n, end) ==
    IF x.integer /\ InRange(n, IntBits, x.sign < 0)
    THEN Yes(end, Integer(IF x.sign < 0 THEN "signed" ELSE "unsigned", n))
    ELSE Floating(x, DigitsValue(x.whole \o x.fraction), DigitsValue(x.exponent), end)

Literal(t, p, word, value) ==
    IF p + Len(word) <= Len(t) /\ SubSeq(t, p + 1, p + Len(word)) = word THEN Yes(p + Len(word), value) ELSE No
\* A value is followed by one of , ] } or by the end.
Boundary(t, p) == At(t, p) \in {Comma, CloseArray, CloseMap, NEG1}
Bounded(t, p, value) == IF Boundary(t, p) THEN Yes(p, value) ELSE No

RECURSIVE ParseRaw(_, _, _), ParseItems(_, _, _, _), ParseMembers(_, _, _, _)
ParseRaw(t, p, tolerant) ==
    CASE At(t, p) = 110 -> Literal(t, p, NullWord, Null)
      [] At(t, p) = 116 -> Literal(t, p, TrueWord, Boolean(TRUE))
      [] At(t, p) = 102 -> Literal(t, p, FalseWord, Boolean(FALSE))
      [] At(t, p) = Minus \/ At(t, p) \in Digits ->
           Then(NumberToken(t, p), LAMBDA x : ConvertNumeric(x.value, x.value.sign * DigitsValue(x.value.whole), x.at))
      [] At(t, p) = Quote -> Then(RawString(t, p, tolerant), LAMBDA s : Yes(s.at, String(s.value)))
      [] At(t, p) = OpenArray ->
           Then(Place(Skip(t, p + 1)), LAMBDA i :
               IF At(t, i.at) = CloseArray THEN Yes(i.at + 1, Array(<<>>)) ELSE ParseItems(t, i.at, tolerant, <<>>))
      [] At(t, p) = OpenMap ->
           Then(Place(Skip(t, p + 1)), LAMBDA i :
               IF At(t, i.at) = CloseMap THEN Yes(i.at + 1, Map(<<>>)) ELSE ParseMembers(t, i.at, tolerant, <<>>))
      [] OTHER -> No
ParseValue(t, p, tolerant) ==
    Then(Place(Skip(t, p)), LAMBDA i :
        Then(ParseRaw(t, i.at, tolerant), LAMBDA v : Bounded(t, Skip(t, v.at), v.value)))
ParseItems(t, p, tolerant, read) ==
    Then(ParseValue(t, p, tolerant), LAMBDA item :
        CASE At(t, item.at) = Comma      -> ParseItems(t, item.at + 1, tolerant, Append(read, item.value))
          [] At(t, item.at) = CloseArray -> Yes(item.at + 1, Array(Append(read, item.value)))
          [] OTHER                       -> No)
\* A key that comes twice does not go into a TSortedMap.
Distinct(members) == Cardinality({members[i].key : i \in DOMAIN members}) = Len(members)
MapOf(members, at) == IF Distinct(members) THEN Yes(at, Map(members)) ELSE No
ParseMembers(t, p, tolerant, read) ==
    Then(RawString(t, Skip(t, p), tolerant), LAMBDA key :
        IF At(t, Skip(t, key.at)) # Colon THEN No
        ELSE Then(ParseValue(t, Skip(t, key.at) + 1, tolerant), LAMBDA v :
            Then(Yes(v.at, Append(read, [key |-> key.value, value |-> v.value])), LAMBDA m :
                CASE At(t, m.at) = Comma    -> ParseMembers(t, m.at + 1, tolerant, m.value)
                  [] At(t, m.at) = CloseMap -> MapOf(m.value, m.at + 1)
                  [] OTHER                  -> No)))

\* Parse(reader): the value, and how far the reader was shifted.  Parse(str):
\* nothing may be left.
ParseReader(t, tolerant) == ParseValue(t, 0, tolerant)
Parse(t, tolerant) == Then(ParseReader(t, tolerant), LAMBDA v : IF v.at < Len(t) THEN No ELSE v)
JsonUnquote(t) == Then(Parse(t, FALSE), LAMBDA v : IF v.value.type = "string" THEN Returned(v.value.chars) ELSE No)
=============================================================================
