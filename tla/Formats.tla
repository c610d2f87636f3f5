------------------------------ MODULE Formats ------------------------------
(***************************************************************************)
(* io_text_format and io_text_scan: a literal with variables, "%" then a   *)
(* pad sign, a width, a precision and a code letter, that prints an        *)
(* integer and a string, and a literal of the same form that reads them.   *)
(* Floating point, TBCD and formatters of the user's own are left out.     *)
(***************************************************************************)
EXTENDS Integers, Sequences, FiniteSets, Folds, SequencesExt

CONSTANTS Symbols,     \* the characters of a literal
          MaxLiteral,  \* bound: characters of a literal
          Numbers,     \* the integers printed
          Texts        \* the strings printed, sequences of characters

VARIABLE literal

NEG1 == -1
Signs == <<"0", "1", "2", "3", "4", "5", "6", "7", "8", "9", "a", "b", "c", "d", "e", "f">>
Letters == {"a", "b", "c", "d", "e", "f", "o", "q", "s", "u", "x"}
IsDigit(c) == \E i \in 1..10 : Signs[i] = c
DigitValue(c) == IF \E i \in DOMAIN Signs : Signs[i] = c THEN (CHOOSE i \in DOMAIN Signs : Signs[i] = c) - 1 ELSE -1
At(s, i) == IF i < Len(s) THEN s[i + 1] ELSE "end"
Sub(s, begin, end) == SubSeq(s, begin + 1, IF end > Len(s) THEN Len(s) ELSE end)
Least(S) == CHOOSE x \in S : \A y \in S : x <= y
Fill(c, k) == [i \in 1..(IF k > 0 THEN k ELSE 0) |-> c]
\* The first position from i on that is not in a run of characters that Keep.
After(s, i, Keep(_)) == Least({j \in i..Len(s) : j = Len(s) \/ ~Keep(s[j + 1])})
Number(digits, radix) == FoldLeft(LAMBDA n, c : radix * n + DigitValue(c), 0, digits)

Radix(code) == CASE code = "b" -> 2 [] code = "o" -> 8 [] code \in {"d", "u", "f"} -> 10 [] code = "x" -> 16 [] OTHER -> 0
IsNumericCode(code) == Radix(code) # 0
Supports(type, code) == IF type = "integer" THEN IsNumericCode(code) ELSE code \in {"s", "q"}

-----------------------------------------------------------------------------
(* Literals *)

\* ParseDefaultFormatSpec(): pad sign, width, precision.
ParseSpec(t) ==
    LET padded == t # <<>> /\ (t[1] = "0" \/ (~IsDigit(t[1]) /\ t[1] # "."))
        w == IF padded THEN 1 ELSE 0
        p == After(t, w, IsDigit)
        q == After(t, p + 1, IsDigit)
        precise == At(t, p) = "."
    IN [ok |-> IF precise THEN q > p + 1 /\ q = Len(t) ELSE p = Len(t),
        pad |-> IF padded THEN t[1] ELSE " ", has_pad |-> padded,
        width |-> Number(Sub(t, w, p), 10), has_width |-> p > w,
        precision |-> IF precise THEN Number(Sub(t, p + 1, q), 10) ELSE NEG1]

\* Find(): the first "%" that is not doubled begins a variable; what reads takes
\* no pad sign and no precision.
RECURSIVE FirstVariable(_, _)
FirstVariable(s, i) ==
    CASE i >= Len(s)                         -> NEG1
      [] i < Len(s) /\ s[i + 1] # "%"        -> FirstVariable(s, i + 1)
      [] At(s, i) = "%" /\ At(s, i + 1) = "%" -> FirstVariable(s, i + 2)
      [] OTHER                               -> i
Find(s, type, start, reading) ==
    LET b == FirstVariable(s, start)
        e == After(s, b + 1, LAMBDA c : c \notin Letters)
        spec == ParseSpec(Sub(s, b + 1, e))
    IN IF b = NEG1 THEN [valid |-> FALSE]
       ELSE IF At(s, b + 1) = "{" \/ e = Len(s) THEN [valid |-> FALSE]
       ELSE [valid |-> Supports(type, s[e + 1]) /\ spec.ok /\ (reading => ~spec.has_pad /\ spec.precision = NEG1),
             begin |-> b, end |-> e + 1, code |-> s[e + 1], spec |-> spec]

\* InitializeFrom(): a variable for each argument, and no other.
RECURSIVE Variables(_, _, _, _)
Variables(s, types, start, reading) ==
    IF types = <<>> THEN [valid |-> FirstVariable(s, start) = NEG1, list |-> <<>>]
    ELSE LET v == Find(s, Head(types), start, reading) IN
         IF ~v.valid THEN [valid |-> FALSE, list |-> <<>>]
         ELSE LET rest == Variables(s, Tail(types), v.end, reading) IN [rest EXCEPT !.list = <<v>> \o @]

-----------------------------------------------------------------------------
(* Printing *)

\* AppendLiteral(): doubled percent signs are one.
RECURSIVE LiteralText(_)
LiteralText(s) ==
    CASE s = <<>> -> <<>>
      [] Len(s) > 1 /\ s[1] = "%" /\ s[2] = "%" -> <<"%">> \o LiteralText(SubSeq(s, 3, Len(s)))
      [] OTHER -> <<s[1]>> \o LiteralText(Tail(s))

RECURSIVE DigitsOf(_, _)
DigitsOf(n, radix) ==
    IF n < radix THEN <<Signs[n + 1]>> ELSE Append(DigitsOf(n \div radix, radix), Signs[(n % radix) + 1])
\* FormatMagnitude(): the sign goes before a pad that looks like a digit.
FormatInteger(n, spec, radix) ==
    LET digits == DigitsOf(IF n < 0 THEN -n ELSE n, radix)
        pad == Fill(spec.pad, spec.width - Len(digits))
        sign == IF n < 0 THEN <<"-">> ELSE <<>>
        numeric == DigitValue(spec.pad) \in 0..(radix - 1)
    IN (IF numeric THEN sign \o pad ELSE pad \o sign) \o digits
       \o (IF spec.precision > 0 THEN <<".">> \o Fill("0", spec.precision) ELSE <<>>)

FormatPlainString(s, spec) ==
    LET n == IF spec.precision # NEG1 /\ spec.precision < Len(s) THEN spec.precision ELSE Len(s)
    IN Fill(spec.pad, spec.width - n) \o Sub(s, 0, n)
BestQuote(s) ==
    LET Count(c) == Cardinality({i \in DOMAIN s : s[i] = c}) IN IF Count("'") <= Count("\"") THEN "'" ELSE "\""
FormatQuotedString(s, spec) ==
    LET q == BestQuote(s)
        body == FlattenSeq([i \in DOMAIN s |-> IF s[i] \in {q, "\\"} THEN <<"\\", s[i]>> ELSE <<s[i]>>])
    IN Fill(spec.pad, spec.width - Len(body) - 2) \o <<q>> \o body \o <<q>>
FormatValue(v, value) ==
    CASE IsNumericCode(v.code) -> FormatInteger(value, v.spec, Radix(v.code))
      [] v.code = "q"          -> FormatQuotedString(value, v.spec)
      [] v.code = "s"          -> FormatPlainString(value, v.spec)

\* RenderInto()
RECURSIVE RenderFrom(_, _, _, _)
RenderFrom(s, list, values, pos) ==
    IF list = <<>> THEN LiteralText(Sub(s, pos, Len(s)))
    ELSE LiteralText(Sub(s, pos, list[1].begin)) \o FormatValue(list[1], values[1])
         \o RenderFrom(s, Tail(list), Tail(values), list[1].end)

-----------------------------------------------------------------------------
(* Reading *)

No == [ok |-> FALSE]
Yes(value, pos) == [ok |-> TRUE, value |-> value, pos |-> pos]
SkipWhitespace(in, pos) == After(in, pos, LAMBDA c : c = " ")

\* NumericToken() and TokenToInteger(); the width counts the sign.
ScanInteger(in, pos, code, spec) ==
    LET begin == SkipWhitespace(in, pos)
        field == IF spec.has_width THEN Sub(in, 0, begin + spec.width) ELSE in
        p == IF At(field, begin) \in {"+", "-"} THEN begin + 1 ELSE begin
        end == After(field, p, LAMBDA c : DigitValue(c) \in 0..(Radix(code) - 1))
        n == Number(Sub(in, p, end), Radix(code))
    IN IF begin >= Len(field) \/ p >= Len(field) THEN No
       ELSE IF end = p THEN No ELSE Yes(IF At(in, begin) = "-" THEN -n ELSE n, end)

ScanWord(in, pos, spec) ==
    LET begin == SkipWhitespace(in, pos)
        field == IF spec.has_width THEN Sub(in, 0, begin + spec.width) ELSE in
        end == IF begin >= Len(field) THEN begin ELSE After(field, begin, LAMBDA c : c # " ")
    IN IF end = begin THEN No ELSE Yes(Sub(in, begin, end), end)

\* A quoted string that fills its width is not closed in time.
RECURSIVE QuotedRest(_, _, _, _, _)
QuotedRest(in, pos, quote, limit, value) ==
    LET c == At(in, pos)  escaped == c = "\\" IN
    CASE Len(value) = limit \/ c = "end" -> No
      [] Len(value) # limit /\ c = quote -> Yes(value, pos + 1)
      [] Len(value) # limit /\ escaped /\ At(in, pos + 1) = "end" -> No
      [] OTHER -> QuotedRest(in, pos + (IF escaped THEN 2 ELSE 1), quote, limit,
                             Append(value, IF escaped THEN At(in, pos + 1) ELSE c))
ScanQuoted(in, pos, spec) ==
    LET begin == SkipWhitespace(in, pos) IN
    IF At(in, begin) \notin {"'", "\""} THEN No
    ELSE QuotedRest(in, begin + 1, At(in, begin), IF spec.has_width THEN spec.width ELSE NEG1, <<>>)

ScanValue(in, pos, v) ==
    CASE IsNumericCode(v.code) -> ScanInteger(in, pos, v.code, v.spec)
      [] v.code = "q"          -> ScanQuoted(in, pos, v.spec)
      [] v.code = "s"          -> ScanWord(in, pos, v.spec)

MatchLiteral(in, pos, s) ==
    LET t == LiteralText(s) IN IF Sub(in, pos, pos + Len(t)) = t THEN Yes(t, pos + Len(t)) ELSE No

\* For the runs that check the properties: the literal behind the last variable is not looked at.
RECURSIVE ScanFrom_NoTail(_, _, _, _, _)
ScanFrom_NoTail(in, pos, s, list, from) ==
    IF list = <<>> THEN Yes(<<>>, pos)
    ELSE LET t == MatchLiteral(in, pos, Sub(s, from, list[1].begin)) IN
         IF ~t.ok THEN No
         ELSE LET x == ScanValue(in, t.pos, list[1]) IN
              IF ~x.ok THEN No
              ELSE LET rest == ScanFrom_NoTail(in, x.pos, s, Tail(list), list[1].end) IN
                   IF ~rest.ok THEN No ELSE [rest EXCEPT !.value = <<x.value>> \o @]
RECURSIVE ScanFrom(_, _, _, _, _)
ScanFrom(in, pos, s, list, from) ==
    IF list = <<>>
    THEN LET t == MatchLiteral(in, pos, Sub(s, from, Len(s))) IN IF t.ok THEN Yes(<<>>, t.pos) ELSE No
    ELSE LET t == MatchLiteral(in, pos, Sub(s, from, list[1].begin)) IN
         IF ~t.ok THEN No
         ELSE LET x == ScanValue(in, t.pos, list[1]) IN
              IF ~x.ok THEN No
              ELSE LET rest == ScanFrom(in, x.pos, s, Tail(list), list[1].end) IN
                   IF ~rest.ok THEN No ELSE [rest EXCEPT !.value = <<x.value>> \o @]

-----------------------------------------------------------------------------
Init == literal = <<>>
Type == Len(literal) < MaxLiteral /\ \E c \in Symbols : literal' = Append(literal, c)
Next == Type
Spec == Init /\ [][Next]_literal

\* A literal as it is read, from the left: pieces of text, signs and variables.
RECURSIVE Tokens(_)
Tokens(s) ==
    LET e == After(s, 1, LAMBDA c : c \notin Letters) IN
    CASE s = <<>> -> <<>>
      [] s # <<>> /\ s[1] # "%" -> <<"text">> \o Tokens(Tail(s))
      [] s # <<>> /\ s[1] = "%" /\ At(s, 1) = "%" -> <<"sign">> \o Tokens(SubSeq(s, 3, Len(s)))
      [] OTHER -> <<"variable">> \o Tokens(SubSeq(s, e + 2, Len(s)))
Count(s, kind) == Cardinality({i \in DOMAIN s : s[i] = kind})

\* What a value is read from must end where the next piece begins.
Apart(s, list) == \A i \in DOMAIN list :
    LET next == At(s, list[i].end) IN
    CASE list[i].code = "q" -> TRUE
      [] list[i].code = "s" -> next \in {" ", "end"}
      [] OTHER -> next \in {" ", "end", "%"} /\ (next = "%" => At(s, list[i].end + 1) = "%")
Wordy(values, list) == \A i \in DOMAIN list :
    list[i].code = "s" => values[i] # <<>> /\ \A k \in DOMAIN values[i] : values[i][k] # " "

\* PrintedReadsBack: a literal takes an argument for each variable in it; what it
\* prints holds its text, and the same literal without pads, widths and
\* precisions reads from it the very values that were printed, to the last
\* character, and refuses the same text with another behind it changed.
PrintedReadsBack ==
    \A types \in {<<>>, <<"integer">>, <<"string">>, <<"integer", "string">>, <<"string", "integer">>} :
    \A print \in {Variables(literal, types, 0, FALSE)}, scan \in {Variables(literal, types, 0, TRUE)} :
    \A plain \in {[i \in DOMAIN print.list |-> [print.list[i] EXCEPT !.spec = ParseSpec(<<>>)]]} :
        LET clean == \A i \in DOMAIN print.list : print.list[i].spec.pad \in {" ", "0"} /\ print.list[i].spec.precision = NEG1
        IN /\ print.valid => Count(Tokens(literal), "variable") = Len(types)
           /\ scan.valid => print.valid
           /\ print.valid => \A n \in Numbers, t \in Texts :
                \A values \in {[i \in DOMAIN types |-> IF types[i] = "integer" THEN n ELSE t]} :
                \A out \in {RenderFrom(literal, print.list, values, 0)} :
                   /\ Len(out) >= Count(Tokens(literal), "text") + Count(Tokens(literal), "sign")
                   /\ types = <<>> => out = LiteralText(literal) /\ ScanFrom(out, 0, literal, plain, 0).ok
                   /\ (clean /\ Apart(literal, print.list) /\ Wordy(values, print.list)
                       /\ ~\E i \in DOMAIN types : types[i] = "string" /\ print.list[i].spec.pad = "0") =>
                        /\ ScanFrom(out, 0, literal, plain, 0) = Yes(values, Len(out))
                        /\ literal # <<>> /\ At(literal, Len(literal) - 1) \notin Letters =>
                             ~ScanFrom(Sub(out, 0, Len(out) - 1) \o <<"?">>, 0, literal, plain, 0).ok
=============================================================================
