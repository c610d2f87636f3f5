------------------------------ MODULE Strings ------------------------------
(***************************************************************************)
(* io_text_string: searching, comparing, cutting, replacing, splitting and *)
(* escaping TString and TStringView, and TLineReader.                      *)
(*                                                                         *)
(* A string is a sequence of numbers, positions are from 0.  The list that *)
(* TString keeps its characters in is the subject of Collections.          *)
(***************************************************************************)
EXTENDS Integers, Sequences, FiniteSets, Folds, SequencesExt

CONSTANTS Alphabet,   \* the characters
          MaxLength,  \* bound: characters of a string
          MaxDigits   \* the digits ToInteger has room for (22 in the code)

VARIABLE string

NEG1 == -1
Done(x) == [ok |-> TRUE, value |-> x]
Thrown == [ok |-> FALSE]
Sub(s, begin, end) == SubSeq(s, begin + 1, end)
Least(S) == CHOOSE x \in S : \A y \in S : x <= y
Greatest(S) == CHOOSE x \in S : \A y \in S : x >= y

\* AbsoluteIndex(): from the end if it is negative; one beyond it as a tail.
AbsoluteIndex(s, i, tail) ==
    LET n == Len(s)  at == IF i >= 0 THEN i ELSE IF i = -(n + 1) /\ tail THEN 0 ELSE n + i IN
    IF at \in 0..(IF tail THEN n ELSE n - 1) THEN Done(at) ELSE Thrown

-----------------------------------------------------------------------------
(* Searching and comparing *)

Occurs(s, needle, i) == Sub(s, i, i + Len(needle)) = needle
ContainsText(s, needle) ==
    \/ needle = <<>>
    \/ Len(s) >= Len(needle) /\ \E i \in 0..(Len(s) - Len(needle)) : Occurs(s, needle, i)

Nearest(S, reverse) == IF S = {} THEN NEG1 ELSE IF reverse THEN Greatest(S) ELSE Least(S)
Find(s, needle, start, reverse) ==
    LET at == AbsoluteIndex(s, start, FALSE)
        tried == IF reverse THEN 0..(at.value - Len(needle) + 1) ELSE at.value..(Len(s) - Len(needle))
    IN CASE needle = <<>>                       -> Thrown
         [] needle # <<>> /\ Len(needle) > Len(s) -> Done(NEG1)
         [] needle # <<>> /\ Len(needle) <= Len(s) /\ ~at.ok -> Thrown
         [] OTHER -> Done(Nearest({i \in tried : Occurs(s, needle, i)}, reverse))
FindFirst(s, charset, start, reverse) ==
    LET at == AbsoluteIndex(s, start, FALSE)
        tried == IF reverse THEN 0..at.value ELSE at.value..(Len(s) - 1)
    IN IF s = <<>> THEN Done(NEG1) ELSE IF ~at.ok THEN Thrown
       ELSE Done(Nearest({i \in tried : s[i + 1] \in charset}, reverse))
FindChar(s, chr, start, reverse) == FindFirst(s, {chr}, start, reverse)

BeginsWith(s, txt) == Len(s) >= Len(txt) /\ \A i \in DOMAIN txt : s[i] = txt[i]
EndsWith(s, txt) == Len(s) >= Len(txt) /\ \A i \in DOMAIN txt : s[Len(s) - Len(txt) + i] = txt[i]

SliceSL(s, start, length) ==
    LET at == AbsoluteIndex(s, start, TRUE)
        n == IF length = NEG1 THEN Len(s) - at.value ELSE length
    IN IF ~at.ok THEN Thrown ELSE IF n > Len(s) - at.value THEN Thrown ELSE Done(Sub(s, at.value, at.value + n))
SliceBE(s, begin, end) ==
    LET b == AbsoluteIndex(s, begin, TRUE)  e == AbsoluteIndex(s, end, TRUE) IN
    IF ~b.ok \/ ~e.ok THEN Thrown ELSE IF e.value < b.value THEN Thrown ELSE Done(Sub(s, b.value, e.value))

\* The first difference decides, or the length.
Less(a, b) ==
    LET differ == {i \in DOMAIN a \cap DOMAIN b : a[i] # b[i]} IN
    IF differ = {} THEN Len(a) < Len(b) ELSE a[Least(differ)] < b[Least(differ)]
Greater(a, b) ==
    LET differ == {i \in DOMAIN a \cap DOMAIN b : a[i] # b[i]} IN
    IF differ = {} THEN Len(a) > Len(b) ELSE a[Least(differ)] > b[Least(differ)]

\* A minus sign may come first; "-" alone is 0.
Minus == 0
Digits(s) == SelectSeq(s, LAMBDA c : c # Minus)
ToInteger(s) ==
    IF s = <<>> \/ (\E i \in 2..Len(s) : s[i] = Minus) \/ Len(Digits(s)) > MaxDigits THEN Thrown
    ELSE LET number == FoldLeft(LAMBDA n, d : 10 * n + d, 0, Digits(s))
         IN Done(IF s[1] = Minus THEN -number ELSE number)

-----------------------------------------------------------------------------
(* Changing *)

ExtractSequence(s, charset, start, max) ==
    LET at == AbsoluteIndex(s, start, FALSE)
        end == IF max = NEG1 \/ at.value + max > Len(s) THEN Len(s) ELSE at.value + max
    IN IF ~at.ok THEN Thrown
       ELSE Done(Sub(s, at.value, Least({end} \cup {i \in at.value..(end - 1) : s[i + 1] \notin charset})))

Trim(s, start, end, trimmed) ==
    LET kept == {i \in DOMAIN s : s[i] \notin trimmed}
        b == IF ~start THEN 0 ELSE IF kept = {} THEN Len(s) ELSE Least(kept) - 1
        e == IF ~end \/ b = Len(s) THEN Len(s) ELSE IF kept = {} THEN 0 ELSE Greatest(kept)
    IN Sub(s, b, e)

Substitute(s, pos, length, substitute) == Sub(s, 0, pos) \o substitute \o Sub(s, pos + length, Len(s))

\* The next search begins at displacement from what was found: behind it only
\* if the needle is one character; before the beginning of the string it ends.
RECURSIVE ReplaceFrom(_, _, _, _, _, _, _)
ReplaceFrom(s, needle, substitute, pos, reverse, max, count) ==
    LET found == Find(s, needle, pos, reverse).value
        next == found + (IF reverse THEN -1 ELSE Len(substitute) - Len(needle) + 1)
    IN IF count = max \/ pos \notin 0..(Len(s) - 1) \/ found = NEG1 THEN [text |-> s, count |-> count]
       ELSE ReplaceFrom(Substitute(s, found, Len(needle), substitute), needle, substitute, next, reverse, max, count + 1)
Replace(s, needle, substitute, start, reverse, max) ==
    IF needle = <<>> THEN Thrown ELSE IF s = <<>> THEN Done([text |-> s, count |-> 0])
    ELSE IF ~AbsoluteIndex(s, start, FALSE).ok THEN Thrown
    ELSE Done(ReplaceFrom(s, needle, substitute, AbsoluteIndex(s, start, FALSE).value, reverse, max, 0))

\* Aggregate(): no delimiter while what is joined so far is empty.
Join(list, delimiter) == FoldLeft(LAMBDA r, x : r \o (IF r = <<>> THEN <<>> ELSE delimiter) \o x, <<>>, list)

\* A delimiter that stands for k characters; Hit(i) is whether one is at i.
RECURSIVE SplitFrom(_, _, _, _, _, _, _)
SplitFrom(s, Hit(_), k, start, list, max, skip) ==
    LET hits == {i \in start..(Len(s) - k) : Hit(i)}
        put(end) == IF skip /\ start = end THEN list ELSE Append(list, Sub(s, start, end))
    IN IF start < Len(s) /\ (max = NEG1 \/ Len(list) + 1 < max) /\ hits # {}
       THEN SplitFrom(s, Hit, k, Least(hits) + k, put(Least(hits)), max, skip)
       ELSE put(Len(s))
SplitText(s, delimiter, max, skip) ==
    SplitFrom(s, LAMBDA i : Occurs(s, delimiter, i), Len(delimiter), 0, <<>>, max, skip)
SplitChars(s, charset, max, skip) ==
    SplitFrom(s, LAMBDA i : s[i + 1] \in charset, 1, 0, <<>>, max, skip)
SplitKV(s, delimiter) ==
    LET at == Find(s, delimiter, 0, FALSE).value IN
    IF s = <<>> \/ at = NEG1 THEN Thrown ELSE Done([key |-> Sub(s, 0, at), value |-> Sub(s, at + Len(delimiter), Len(s))])

\* A word goes on the line if the two fit without the blank between them.
BlockFormat(s, blank, width) ==
    LET Put(x, word) ==
            IF Len(x.line) + Len(word) <= width
            THEN [x EXCEPT !.line = @ \o (IF @ = <<>> THEN <<>> ELSE <<blank>>) \o word]
            ELSE [lines |-> Append(x.lines, x.line), line |-> word]
        all == FoldLeft(Put, [lines |-> <<>>, line |-> <<>>], SplitChars(s, {blank}, NEG1, TRUE))
    IN IF all.line = <<>> THEN all.lines ELSE Append(all.lines, all.line)

Pad(s, sign, min, placement) ==
    LET at == CASE placement = "START" -> 0 [] placement = "END" -> Len(s) [] OTHER -> Len(s) \div 2 IN
    IF Len(s) >= min \/ placement = "NONE" THEN s
    ELSE Sub(s, 0, at) \o [i \in 1..(min - Len(s)) |-> sign] \o Sub(s, at, Len(s))
Truncate(s, max) == IF Len(s) > max THEN Sub(s, 0, max) ELSE s

Escape(s, special, escape) ==
    FlattenSeq([i \in DOMAIN s |-> IF s[i] \in special \cup {escape} THEN <<escape, s[i]>> ELSE <<s[i]>>])
\* For the runs that check the properties: an escaped character is looked at again.
RECURSIVE UnescapeFrom_Again(_, _, _, _)
UnescapeFrom_Again(s, special, escape, i) ==
    CASE i >= Len(s) -> Done(s)
      [] i < Len(s) /\ s[i + 1] = escape -> IF i + 1 = Len(s) THEN Thrown
                                            ELSE UnescapeFrom_Again(Substitute(s, i, 1, <<>>), special, escape, i)
      [] i < Len(s) /\ s[i + 1] # escape -> IF s[i + 1] \in special THEN Thrown
                                            ELSE UnescapeFrom_Again(s, special, escape, i + 1)
RECURSIVE UnescapeFrom(_, _, _, _)
UnescapeFrom(s, special, escape, i) ==
    CASE i >= Len(s) -> Done(s)
      [] i < Len(s) /\ s[i + 1] = escape -> IF i + 1 = Len(s) THEN Thrown
                                            ELSE UnescapeFrom(Substitute(s, i, 1, <<>>), special, escape, i + 1)
      [] i < Len(s) /\ s[i + 1] # escape -> IF s[i + 1] \in special THEN Thrown
                                            ELSE UnescapeFrom(s, special, escape, i + 1)
Unescape(s, special, escape) == UnescapeFrom(s, special, escape, 0)
Quote(s, quote, escape) == <<quote>> \o Escape(s, {quote}, escape) \o <<quote>>
Unquote(s, quote, escape) ==
    IF Len(s) < 2 \/ s[1] # quote \/ s[Len(s)] # quote THEN Thrown
    ELSE Unescape(Sub(s, 1, Len(s) - 1), {quote}, escape)

\* Translate(), ToLower(), ToUpper(): the first pair of the map that has it.
Translate(s, map, reverse) ==
    LET from == IF reverse THEN 2 ELSE 1
        Of(c) == LET hits == {i \in DOMAIN map : map[i][from] = c} IN IF hits = {} THEN c ELSE map[Least(hits)][3 - from]
    IN [i \in DOMAIN s |-> Of(s[i])]
ReplaceChars(s, list, replacement, whitelist) ==
    [text |-> [i \in DOMAIN s |-> IF (s[i] \in list) # whitelist THEN replacement ELSE s[i]],
     count |-> Cardinality({i \in DOMAIN s : (s[i] \in list) # whitelist})]

\* TLineReader: one line and what is left; a line that fills the buffer is too
\* long even if it ends there.
Line(s, max, LF, CR) ==
    LET ends == {i \in DOMAIN s : s[i] = LF}
        n == IF ends = {} THEN Len(s) ELSE Least(ends) - 1
        cut == IF ends # {} /\ n > 0 /\ s[n] = CR THEN n - 1 ELSE n
    IN CASE s = <<>> -> [r |-> "end"]
         [] s # <<>> /\ (n > max \/ (n = max /\ ends # {})) -> [r |-> "long"]
         [] OTHER -> [r |-> "line", line |-> Sub(s, 0, cut), rest |-> IF ends = {} THEN <<>> ELSE Sub(s, n + 1, Len(s))]

-----------------------------------------------------------------------------
Init == string = <<>>
Type == Len(string) < MaxLength /\ \E c \in Alphabet : string' = Append(string, c)
Next == Type
Spec == Init /\ [][Next]_string

Short == {<<a>> : a \in Alphabet} \cup {<<a, b>> : a, b \in Alphabet}

SearchesAgree == \A needle \in Short : \A i \in -(Len(string) + 2)..(Len(string) + 1) :
    LET f == Find(string, needle, i, FALSE)  r == Find(string, needle, i, TRUE) IN
    /\ f.ok = r.ok
    /\ string # <<>> => ContainsText(string, needle) = (Find(string, needle, 0, FALSE).value # NEG1)
    /\ (i \in 0..(Len(string) - 1) /\ Len(needle) <= Len(string)) =>
         /\ (f.value = i) = BeginsWith(Sub(string, i, Len(string)), needle)
         /\ i + 1 >= Len(needle) => (r.value = i + 1 - Len(needle)) = EndsWith(Sub(string, 0, i + 1), needle)
         /\ r.value # NEG1 /\ f.value # NEG1 => r.value <= f.value
         /\ Len(needle) = 1 => f = FindChar(string, needle[1], i, FALSE) /\ r = FindChar(string, needle[1], i, TRUE)
    /\ i \in 0..Len(string) /\ string # <<>> =>
         SliceSL(string, 0, i).value \o SliceSL(string, i, NEG1).value = string
    /\ \A e \in 0..Len(string) : i \in 0..Len(string) =>
         SliceBE(string, i, e).ok = (i <= e) /\ (i <= e => SliceBE(string, i, e) = SliceSL(string, i, e - i))

OrderTotal == \A a \in Short \cup {<<>>} :
    /\ Cardinality({x \in {"<", "=", ">"} : CASE x = "<" -> Less(string, a) [] x = "=" -> string = a
                                              [] OTHER -> Greater(string, a)}) = 1
    /\ Less(string, a) = Greater(a, string)
    /\ \A b \in Short : Less(a, string) /\ Less(string, b) => Less(a, b)

\* Splitting loses nothing but the delimiters, and joining puts them back
\* unless the string begins with one, which Join leaves out.
PiecesJoin == \A d \in Short :
    LET all == SplitText(string, d, NEG1, FALSE)  few == SplitText(string, d, 2, FALSE) IN
    /\ ~BeginsWith(string, d) => Join(all, d) = string /\ Join(few, d) = string
    /\ Len(few) <= 2
    /\ SplitText(string, d, NEG1, TRUE) = SelectSeq(all, LAMBDA x : x # <<>>)
    /\ Len(d) = 1 => SplitChars(string, {d[1]}, NEG1, FALSE) = all
    /\ \A k \in 1..Len(all) : string # <<>> => ~ContainsText(all[k], d)
    /\ ContainsText(string, d) => SplitKV(string, d).value.key \o d \o SplitKV(string, d).value.value = string
    /\ \A c \in Alphabet : LET one == Replace(string, <<c>>, d, 0, FALSE, NEG1)
                               back == Replace(string, <<c>>, d, -1, TRUE, NEG1) IN
         string # <<>> => /\ one.value.text = FlattenSeq([i \in DOMAIN string |-> IF string[i] = c THEN d ELSE <<string[i]>>])
                          /\ back = one
                          /\ one.value.count = Cardinality({i \in DOMAIN string : string[i] = c})

\* What is escaped or quoted with any two characters, the same or not, comes
\* back, and a quoted string has no end but its own.
EscapesReturn == \A q, e \in Alphabet :
    /\ Unescape(Escape(string, {q}, e), {q}, e) = Done(string)
    /\ Unquote(Quote(string, q, e), q, e) = Done(string)
    /\ \A k \in 1..(Len(Quote(string, q, e)) - 1) : q # e => ~Unquote(Sub(Quote(string, q, e), 0, k), q, e).ok

Blank == Least(Alphabet)
Shapes ==
    /\ \A k \in 1..3 : LET lines == BlockFormat(string, Blank, k)  words == SplitChars(string, {Blank}, NEG1, TRUE) IN
         /\ SplitChars(Join(lines, <<Blank>>), {Blank}, NEG1, TRUE) = words
         /\ \A i \in DOMAIN lines : Len(lines[i]) <= k + 1 \/ lines[i] \in ToSet(words)
    /\ \A b, e \in BOOLEAN : LET t == Trim(string, b, e, {Blank}) IN
         /\ b /\ t # <<>> => t[1] # Blank
         /\ e /\ t # <<>> => t[Len(t)] # Blank
         /\ SelectSeq(t, LAMBDA c : c # Blank) = SelectSeq(string, LAMBDA c : c # Blank)
    /\ \A p \in {"START", "MID", "END"}, k \in 0..(MaxLength + 1) :
         LET t == Pad(string, Blank, k, p) IN
         /\ Len(t) = IF k > Len(string) THEN k ELSE Len(string)
         /\ p = "START" => EndsWith(t, string) /\ Trim(t, TRUE, FALSE, {Blank}) = Trim(string, TRUE, FALSE, {Blank})
         /\ p = "END" => Truncate(t, Len(string)) = string
    /\ \A i \in 0..(Len(string) - 1) : LET x == ExtractSequence(string, {Blank}, i, 2).value IN
         BeginsWith(Sub(string, i, Len(string)), x) /\ Trim(x, TRUE, TRUE, {Blank}) = <<>>
    /\ LET map == <<<<1, 2>>, <<2, 3>>>> IN
         \A i \in DOMAIN string : Translate(string, map, FALSE)[i] = IF string[i] \in {1, 2} THEN string[i] + 1 ELSE string[i]
    /\ \A w \in BOOLEAN : LET r == ReplaceChars(string, {Blank}, Blank, w) IN
         r.text = string \/ (w /\ r.text = [i \in DOMAIN string |-> Blank])
    /\ ToInteger(string).ok => LET n == ToInteger(string).value IN
         string = <<Minus>> \/ ToInteger(<<Minus>> \o Digits(string)).value = -(IF n < 0 THEN -n ELSE n)

RECURSIVE Lines(_, _, _, _)
Lines(s, max, LF, CR) ==
    LET x == Line(s, max, LF, CR) IN
    IF x.r # "line" THEN [r |-> x.r, lines |-> <<>>]
    ELSE LET y == Lines(x.rest, max, LF, CR) IN [y EXCEPT !.lines = <<x.line>> \o @]
LinesKept == LET LF == 2  CR == 3  all == Lines(string, MaxLength + 1, LF, CR) IN
    /\ all.r = "end"
    /\ SelectSeq(FlattenSeq(all.lines), LAMBDA c : c # CR) = SelectSeq(string, LAMBDA c : c \notin {LF, CR})
    /\ \A k \in 0..2 : Lines(string, k, LF, CR).r = "end" => Lines(string, k, LF, CR) = all /\ \A x \in ToSet(all.lines) : Len(x) <= k

\* StringsExact: the searches agree with each other in both directions, the
\* order is total, pieces join to what was split, escapes and quotes undo, and
\* padding, trimming, wrapping and reading lines lose nothing else.
StringsExact == SearchesAgree /\ OrderTotal /\ PiecesJoin /\ EscapesReturn /\ Shapes /\ LinesKept
=============================================================================
