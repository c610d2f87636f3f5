------------------------------- MODULE Parser -------------------------------
(***************************************************************************)
(* io_text_parser: grammars built from nodes, and the three ways to walk   *)
(* one over a text: Parse, which makes a value, Match, which does not, and *)
(* Complete, which suggests how the text before the cursor may go on.      *)
(*                                                                         *)
(* A text is a sequence of numbers and positions are from 0, as in the     *)
(* code.  A value is the sequence of characters it is made of; how they    *)
(* are grouped in tuples, lists and translated objects is left out.  The   *)
(* grammar itself is the one rule that a "call" node calls.                *)
(***************************************************************************)
EXTENDS Integers, Sequences, FiniteSets, SequencesExt

CONSTANTS Alphabet,   \* the characters
          MaxDepth,   \* TParseLimits::max_recursion_depth
          MaxLength,  \* bound: characters of a text
          MaxNodes    \* bound: nodes of a grammar

VARIABLE grammar

NEG1 == 100  \* (usys_t)-1: no limit

\* TParseContext: the text, the farthest position looked at, the positions the
\* rule is being parsed at; for Complete, the cursor and what was suggested.
Context(text, cursor) == [text |-> text, cursor |-> cursor, far |-> 0, active |-> {}, found |-> {}]
Look(c, p) == [c EXCEPT !.far = IF p > @ THEN p ELSE @]
Has(c, p) == p < Len(c.text)
At(c, p) == c.text[p + 1]

Yes(c, p, value) == [r |-> "match", pos |-> p, value |-> value, c |-> c]
No(c) == [r |-> "mismatch", pos |-> 0, value |-> <<>>, c |-> c]
Throw(c, what, p) == [r |-> what, pos |-> p, value |-> <<>>, c |-> c]

\* What follows a match; anything else is the answer.
Then(x, Follows(_)) == IF x.r = "match" THEN Follows(x) ELSE x
\* A node that must consume something, or its loop would not end.
MustMove(x, p, Follows(_)) == IF x.r = "match" /\ x.pos = p THEN Throw(x.c, "logic", p) ELSE Then(x, Follows)

\* The predicates of Where, Validate and TryTranslate.
Predicate(value) == value = <<>> \/ Last(value) # 1

-----------------------------------------------------------------------------
(* Nodes that look at one character, and literals *)

RECURSIVE Matches(_, _)
Matches(n, chr) ==
    CASE n.t = "range" -> chr >= n.from /\ chr <= n.to
      [] n.t = "list"  -> chr \in n.chars
      [] n.t = "if"    -> n.condition /\ Matches(n.node, chr)
      [] n.t = "not"   -> ~Matches(n.node, chr)
      [] n.t = "xor"   -> Matches(n.lhs, chr) \/ Matches(n.rhs, chr)

RECURSIVE IsCharMatcher(_)
IsCharMatcher(n) ==
    \/ n.t \in {"range", "list"}
    \/ n.t \in {"if", "not"} /\ IsCharMatcher(n.node)
    \/ n.t = "xor" /\ IsCharMatcher(n.lhs) /\ IsCharMatcher(n.rhs)
LooksAtOne(n) == n.t # "if" /\ IsCharMatcher(n)

ParseChar(c, n, p) ==
    IF Has(c, p) /\ Matches(n, At(c, p)) THEN Yes(Look(c, p), p + 1, <<At(c, p)>>) ELSE No(Look(c, p))

Common(c, literal, p) ==
    CHOOSE k \in 0..Len(literal) :
        /\ \A i \in 1..k : Has(c, p + i - 1) /\ At(c, p + i - 1) = literal[i]
        /\ k < Len(literal) => ~(Has(c, p + k) /\ At(c, p + k) = literal[k + 1])
MatchLiteral(c, literal, p) ==
    LET k == Common(c, literal, p) IN
    IF k < Len(literal) THEN No(Look(c, p + k))
    ELSE Yes(IF k = 0 THEN c ELSE Look(c, p + k - 1), p + k, literal)

ParseEnd(c, p) == IF Has(c, p) THEN No(Look(c, p)) ELSE Yes(Look(c, p), p, <<>>)

\* A committed failure, at the farthest position the node has looked at.
Expected(c, x, p) ==
    IF x.r = "mismatch" THEN Throw(x.c, "parse", IF x.c.far > c.far THEN x.c.far ELSE p) ELSE x

\* TRecursionGuard
Guarded(c, p, Walk(_)) ==
    CASE p \in c.active -> Throw(c, "logic", p)
      [] p \notin c.active /\ Cardinality(c.active) >= MaxDepth -> Throw(c, "depth", p)
      [] OTHER -> LET x == Walk([c EXCEPT !.active = @ \cup {p}]) IN [x EXCEPT !.c.active = c.active]

-----------------------------------------------------------------------------
(* Parse and Match *)

RECURSIVE Parse(_, _, _), Match(_, _, _)

ParseSequence(c, n, p) ==
    Then(Parse(c, n.lhs, p), LAMBDA x :
    Then(Parse(x.c, n.rhs, x.pos), LAMBDA y : Yes(y.c, y.pos, x.value \o y.value)))
MatchSequence(c, n, p) == Then(Match(c, n.lhs, p), LAMBDA x : Match(x.c, n.rhs, x.pos))

ParseXor(c, n, p) == LET x == Parse(c, n.lhs, p) IN IF x.r = "mismatch" THEN Parse(x.c, n.rhs, p) ELSE x
\* For the runs that check the properties: a failure the first way is sure of
\* does not keep the second from being tried.
MatchXor_Any(c, n, p) == LET x == Match(c, n.lhs, p) IN IF x.r # "match" THEN Match(x.c, n.rhs, p) ELSE x
MatchXor(c, n, p) == LET x == Match(c, n.lhs, p) IN IF x.r = "mismatch" THEN Match(x.c, n.rhs, p) ELSE x

ParseMaybe(c, n, p) ==
    LET x == Parse(c, n.node, p) IN
    IF x.r = "mismatch" THEN Yes(x.c, p, <<>>) ELSE MustMove(x, p, LAMBDA y : y)
MatchMaybe(c, n, p) ==
    LET x == Match(c, n.node, p) IN
    IF x.r = "mismatch" THEN Yes(x.c, p, <<>>) ELSE MustMove(x, p, LAMBDA y : y)

RECURSIVE ParseRepeat(_, _, _, _, _), MatchRepeat(_, _, _, _)
ParseRepeat(c, n, p, i, value) ==
    IF i = n.max THEN Yes(c, p, value)
    ELSE LET x == Parse(c, n.node, p) IN
         CASE x.r = "mismatch" /\ i < n.min  -> No(x.c)
           [] x.r = "mismatch" /\ i >= n.min -> Yes(x.c, p, value)
           [] OTHER -> MustMove(x, p, LAMBDA y : ParseRepeat(y.c, n, y.pos, i + 1, value \o y.value))
MatchRepeat(c, n, p, i) ==
    IF i = n.max THEN Yes(c, p, <<>>)
    ELSE LET x == Match(c, n.node, p) IN
         CASE x.r = "mismatch" /\ i < n.min  -> No(x.c)
           [] x.r = "mismatch" /\ i >= n.min -> Yes(x.c, p, <<>>)
           [] OTHER -> MustMove(x, p, LAMBDA y : MatchRepeat(y.c, n, y.pos, i + 1))

\* A separator that was consumed must be followed by a value.
RECURSIVE ParseSeparated(_, _, _, _, _), MatchSeparated(_, _, _, _)
ParseSeparated(c, n, p, count, value) ==
    LET enough == IF count < n.min THEN No(c) ELSE Yes(c, p, value) IN
    IF count = n.max THEN enough
    ELSE LET s == IF count = 0 THEN Yes(c, p, <<>>) ELSE Parse(c, n.separator, p) IN
         CASE s.r = "mismatch" -> [enough EXCEPT !.c = s.c]
           [] s.r = "match" /\ count > 0 /\ s.pos = p -> Throw(s.c, "logic", p)
           [] OTHER -> Then(s, LAMBDA q :
                LET x == Parse(q.c, n.node, q.pos) IN
                IF x.r = "mismatch" THEN IF count = 0 THEN [enough EXCEPT !.c = x.c] ELSE No(x.c)
                ELSE MustMove(x, q.pos, LAMBDA y : ParseSeparated(y.c, n, y.pos, count + 1, value \o y.value)))
MatchSeparated(c, n, p, count) ==
    LET enough == IF count < n.min THEN No(c) ELSE Yes(c, p, <<>>) IN
    IF count = n.max THEN enough
    ELSE LET s == IF count = 0 THEN Yes(c, p, <<>>) ELSE Match(c, n.separator, p) IN
         CASE s.r = "mismatch" -> [enough EXCEPT !.c = s.c]
           [] s.r = "match" /\ count > 0 /\ s.pos = p -> Throw(s.c, "logic", p)
           [] OTHER -> Then(s, LAMBDA q :
                LET x == Match(q.c, n.node, q.pos) IN
                IF x.r = "mismatch" THEN IF count = 0 THEN [enough EXCEPT !.c = x.c] ELSE No(x.c)
                ELSE MustMove(x, q.pos, LAMBDA y : MatchSeparated(y.c, n, y.pos, count + 1)))

\* The first case whose matcher takes the next character decides.
CaseFor(c, n, p) == {i \in DOMAIN n.cases : Has(c, p) /\ Matches(n.cases[i].matcher, At(c, p))}
FirstCase(S) == CHOOSE i \in S : \A j \in S : i <= j
ParseDispatch(c, n, p) ==
    LET S == CaseFor(c, n, p) IN IF S = {} THEN No(Look(c, p)) ELSE Parse(Look(c, p), n.cases[FirstCase(S)].node, p)
MatchDispatch(c, n, p) ==
    LET S == CaseFor(c, n, p) IN IF S = {} THEN No(Look(c, p)) ELSE Match(Look(c, p), n.cases[FirstCase(S)].node, p)

Filtered(x) == IF x.r = "match" /\ ~Predicate(x.value) THEN No(x.c) ELSE x
Validated(x, p) == IF x.r = "match" /\ ~Predicate(x.value) THEN Throw(x.c, "parse", p) ELSE x

Parse(c, n, p) ==
    CASE LooksAtOne(n)         -> ParseChar(c, n, p)
      [] n.t = "literal"       -> MatchLiteral(c, n.literal, p)
      [] n.t = "end"           -> ParseEnd(c, p)
      [] n.t = "if"            -> IF n.condition THEN Parse(c, n.node, p) ELSE No(c)
      [] n.t = "maybe"         -> ParseMaybe(c, n, p)
      [] n.t \in {"where", "trytranslate"} -> Filtered(Parse(c, n.node, p))
      [] n.t = "validate"      -> Validated(Parse(c, n.node, p), p)
      [] n.t = "expect"        -> Expected(c, Parse(c, n.node, p), p)
      [] n.t = "capture"       -> Then(Match(c, n.node, p), LAMBDA x : Yes(x.c, x.pos, SubSeq(c.text, p + 1, x.pos)))
      [] n.t = "discard"       -> Then(Match(c, n.node, p), LAMBDA x : Yes(x.c, x.pos, <<>>))
      [] n.t = "lookahead"     -> Then(Parse(c, n.node, p), LAMBDA x : Yes(x.c, p, x.value))
      [] n.t = "completion"    -> Parse(c, n.node, p)
      [] n.t = "repeat"        -> ParseRepeat(c, n, p, 0, <<>>)
      [] n.t = "separated"     -> ParseSeparated(c, n, p, 0, <<>>)
      [] n.t \in {"sequence", "translate"} -> ParseSequence(c, n, p)
      [] n.t = "xor" /\ ~LooksAtOne(n) -> ParseXor(c, n, p)
      [] n.t = "dispatch"      -> ParseDispatch(c, n, p)
      [] n.t = "call"          -> Guarded(c, p, LAMBDA d : Parse(d, grammar, p))

Match(c, n, p) ==
    CASE LooksAtOne(n)         -> ParseChar(c, n, p)
      [] n.t = "literal"       -> MatchLiteral(c, n.literal, p)
      [] n.t = "end"           -> ParseEnd(c, p)
      [] n.t = "if"            -> IF n.condition THEN Match(c, n.node, p) ELSE No(c)
      [] n.t = "maybe"         -> MatchMaybe(c, n, p)
      [] n.t \in {"where", "validate", "translate", "trytranslate"} -> Parse(c, n, p)
      [] n.t = "expect"        -> Expected(c, Match(c, n.node, p), p)
      [] n.t \in {"capture", "discard", "completion"} -> Match(c, n.node, p)
      [] n.t = "lookahead"     -> Then(Match(c, n.node, p), LAMBDA x : Yes(x.c, p, <<>>))
      [] n.t = "repeat"        -> MatchRepeat(c, n, p, 0)
      [] n.t = "separated"     -> MatchSeparated(c, n, p, 0)
      [] n.t = "sequence"      -> MatchSequence(c, n, p)
      [] n.t = "xor" /\ ~LooksAtOne(n) -> MatchXor(c, n, p)
      [] n.t = "dispatch"      -> MatchDispatch(c, n, p)
      [] n.t = "call"          -> Guarded(c, p, LAMBDA d : Match(d, grammar, p))

-----------------------------------------------------------------------------
(* Complete *)

State(c, matched, incomplete, p) ==
    [r |-> "state", matched |-> matched, incomplete |-> incomplete, pos |-> p, c |-> c]
Refused(c, what, p) == [State(c, FALSE, FALSE, p) EXCEPT !.r = what]
Suggest(c, from, to, S) == [c EXCEPT !.found = @ \cup {[from |-> from, to |-> to, text |-> s] : s \in S}]

\* The cursor ends the text; what is behind it is not even looked at.
Before(c, p) == p < c.cursor /\ Has(c, p)
LookBefore(c, p) == IF p < c.cursor THEN Look(c, p) ELSE c

\* What follows a state that matched; a state that did not begins where it began.
Goes(s, p, Follows(_)) ==
    CASE s.r # "state"               -> s
      [] s.r = "state" /\ ~s.matched -> [s EXCEPT !.pos = p]
      [] OTHER                       -> Follows(s)
Advances(s, p, Follows(_)) ==
    IF s.r = "state" /\ s.matched /\ s.pos = p THEN Refused(s.c, "logic", p) ELSE Goes(s, p, Follows)
Also(s, incomplete) == IF s.r = "state" THEN [s EXCEPT !.incomplete = @ \/ incomplete] ELSE s

CompleteChar(c, n, p) ==
    LET d == LookBefore(c, p) IN
    CASE Before(c, p) -> State(d, Matches(n, At(c, p)), FALSE, IF Matches(n, At(c, p)) THEN p + 1 ELSE p)
      [] ~Before(c, p) /\ n.t = "list" -> State(Suggest(d, p, p, {<<x>> : x \in n.chars}), FALSE, TRUE, p)
      [] OTHER -> State(d, FALSE, TRUE, p)

CompleteLiteral(c, n, p) ==
    LET ahead == SubSeq(c.text, 1, c.cursor)
        k == Common([c EXCEPT !.text = ahead], n.literal, p)
        d == IF n.literal = <<>> THEN c ELSE LookBefore(c, p + (IF k < Len(n.literal) THEN k ELSE k - 1))
    IN CASE k = Len(n.literal) -> State(d, TRUE, FALSE, p + k)
         [] k < Len(n.literal) /\ Before(c, p + k) -> State(d, FALSE, FALSE, p)
         [] OTHER -> State(Suggest(d, p, p + k, {n.literal}), FALSE, TRUE, p)

RECURSIVE Complete(_, _, _)

\* Where, Validate and TryTranslate parse what was completed, in the whole text.
CompleteChecked(c, n, p) ==
    LET s == Complete(c, n.node, p) IN
    Goes(s, p, LAMBDA y :
        LET x == Parse(y.c, n.node, p)
            good == Predicate(x.value)
        IN CASE x.r \in {"parse", "logic", "depth"} -> Refused(x.c, x.r, p)
             [] n.t = "trytranslate" /\ (x.r = "mismatch" \/ (x.r = "match" /\ ~good)) ->
                  State(x.c, FALSE, y.incomplete, p)
             [] x.r = "mismatch" \/ (x.r = "match" /\ x.pos # y.pos) -> Refused(x.c, "logic", p)
             [] ~good /\ (n.t = "where" \/ y.incomplete) -> State(x.c, FALSE, y.incomplete, p)
             [] ~good -> Refused(x.c, "parse", p)
             [] OTHER -> [y EXCEPT !.c = x.c])

CompleteMaybe(c, n, p) ==
    LET s == Complete(c, n.node, p) IN
    IF s.r = "state" /\ ~s.matched THEN State(s.c, TRUE, s.incomplete, p) ELSE Advances(s, p, LAMBDA y : y)

CompleteExpect(c, n, p) ==
    LET s == Complete(c, n.node, p) IN
    IF s.r = "state" /\ ~s.matched /\ ~s.incomplete THEN Refused(s.c, "parse", p) ELSE s

CompleteSequence(c, n, p) ==
    LET s == Complete(c, n.lhs, p) IN
    IF s.r # "state" \/ ~s.matched THEN s
    ELSE Also(Goes(Complete(s.c, n.rhs, s.pos), p, LAMBDA y : y), s.incomplete)

\* For the runs that check the properties: only the second way is open.
CompleteXor_Second(c, n, p) ==
    LET s == Complete(c, n.lhs, p) IN
    IF s.r # "state" \/ s.matched THEN s ELSE Goes(Complete(s.c, n.rhs, p), p, LAMBDA y : y)
CompleteXor(c, n, p) ==
    LET s == Complete(c, n.lhs, p) IN
    IF s.r # "state" \/ s.matched THEN s
    ELSE Also(Goes(Complete(s.c, n.rhs, p), p, LAMBDA y : y), s.incomplete)

RECURSIVE CompleteRepeat(_, _, _, _, _, _)
CompleteRepeat(c, n, p, start, i, incomplete) ==
    IF i = n.max THEN State(c, i >= n.min, incomplete, IF i >= n.min THEN p ELSE start)
    ELSE LET s == Also(Complete(c, n.node, p), incomplete) IN
         IF s.r = "state" /\ ~s.matched THEN State(s.c, i >= n.min, s.incomplete, IF i >= n.min THEN p ELSE start)
         ELSE Advances(s, p, LAMBDA y : CompleteRepeat(y.c, n, y.pos, start, i + 1, y.incomplete))

RECURSIVE CompleteSeparated(_, _, _, _, _, _)
CompleteSeparated(c, n, p, start, count, incomplete) ==
    LET Enough(d, inc) == State(d, count >= n.min, inc, IF count >= n.min THEN p ELSE start) IN
    IF count = n.max THEN Enough(c, incomplete)
    ELSE LET s == IF count = 0 THEN State(c, TRUE, incomplete, p) ELSE Also(Complete(c, n.separator, p), incomplete) IN
         CASE s.r = "state" /\ ~s.matched -> Enough(s.c, s.incomplete)
           [] s.r = "state" /\ s.matched /\ count > 0 /\ s.pos = p -> Refused(s.c, "logic", p)
           [] OTHER -> Goes(s, p, LAMBDA q :
                LET x == Also(Complete(q.c, n.node, q.pos), q.incomplete) IN
                IF x.r = "state" /\ ~x.matched
                THEN IF count = 0 THEN Enough(x.c, x.incomplete) ELSE State(x.c, FALSE, x.incomplete, start)
                ELSE Advances(x, q.pos, LAMBDA y :
                         CompleteSeparated(y.c, n, y.pos, start, count + 1, y.incomplete)))

\* Without a next character every case is open.
RECURSIVE CompleteAll(_, _, _, _)
CompleteAll(c, n, p, i) ==
    IF i > Len(n.cases) THEN State(c, FALSE, FALSE, p)
    ELSE LET s == Complete(c, n.cases[i].node, p) IN
         IF s.r # "state" THEN s
         ELSE Also(CompleteAll(s.c, n, p, i + 1), s.matched \/ s.incomplete)
CompleteDispatch(c, n, p) ==
    LET d == LookBefore(c, p)  S == CaseFor(c, n, p) IN
    CASE ~Before(c, p)           -> CompleteAll(d, n, p, 1)
      [] Before(c, p) /\ S = {}  -> State(d, FALSE, FALSE, p)
      [] OTHER                   -> Complete(d, n.cases[FirstCase(S)].node, p)

\* WithCompletion: the words a provider knows that begin with what is there.
Words == {<<1, 1>>, <<2, 1>>}
CompleteProvided(c, n, p) ==
    LET s == Complete(c, n.node, p) IN
    IF s.r # "state" \/ c.cursor < p \/ ~(s.incomplete \/ (s.matched /\ s.pos = c.cursor)) THEN s
    ELSE LET d == Suggest(s.c, p, c.cursor, {w \in Words : IsPrefix(SubSeq(c.text, p + 1, c.cursor), w)})
         IN Also([s EXCEPT !.c = d], d # s.c)

Complete(c, n, p) ==
    CASE LooksAtOne(n) /\ n.t # "xor" -> CompleteChar(c, n, p)
      [] n.t = "literal"       -> CompleteLiteral(c, n, p)
      [] n.t = "end"           -> State(LookBefore(c, p), ~Before(c, p), FALSE, p)
      [] n.t = "if"            -> IF n.condition THEN Complete(c, n.node, p) ELSE State(c, FALSE, FALSE, p)
      [] n.t = "maybe"         -> CompleteMaybe(c, n, p)
      [] n.t \in {"where", "validate", "trytranslate"} -> CompleteChecked(c, n, p)
      [] n.t = "expect"        -> CompleteExpect(c, n, p)
      [] n.t \in {"capture", "discard"} -> Complete(c, n.node, p)
      [] n.t = "lookahead"     -> Goes(Complete(c, n.node, p), p, LAMBDA y : [y EXCEPT !.pos = p])
      [] n.t = "completion"    -> CompleteProvided(c, n, p)
      [] n.t = "repeat"        -> CompleteRepeat(c, n, p, p, 0, FALSE)
      [] n.t = "separated"     -> CompleteSeparated(c, n, p, p, 0, FALSE)
      [] n.t \in {"sequence", "translate"} -> CompleteSequence(c, n, p)
      [] n.t = "xor"           -> CompleteXor(c, n, p)
      [] n.t = "dispatch"      -> CompleteDispatch(c, n, p)
      [] n.t = "call"          ->
           LET d == [c EXCEPT !.active = @ \cup {p}] IN
           CASE p \in c.active -> Refused(c, "logic", p)
             [] p \notin c.active /\ Cardinality(c.active) >= MaxDepth -> Refused(c, "depth", p)
             [] OTHER -> LET s == Complete(d, grammar, p) IN [s EXCEPT !.c.active = c.active]

-----------------------------------------------------------------------------
(* Grammars: nodes put together *)

Call == [t |-> "call"]
Atoms == {[t |-> "list", chars |-> {1}], [t |-> "range", from |-> 1, to |-> 2],
          [t |-> "literal", literal |-> <<1, 2>>], [t |-> "literal", literal |-> <<>>], [t |-> "end"], Call}
Wraps(n) ==
    {[t |-> k, node |-> n] : k \in {"maybe", "where", "validate", "trytranslate", "expect", "capture", "discard",
                                    "lookahead", "completion"}}
    \cup {[t |-> "if", condition |-> b, node |-> n] : b \in BOOLEAN}
    \cup {[t |-> "repeat", min |-> m[1], max |-> m[2], node |-> n] : m \in {<<0, 2>>, <<1, NEG1>>}}
    \cup (IF IsCharMatcher(n) THEN {[t |-> "not", node |-> n]} ELSE {})
Joins(a, b) ==
    {[t |-> k, lhs |-> a, rhs |-> b] : k \in {"sequence", "translate", "xor"}}
    \cup {[t |-> "separated", min |-> 0, max |-> 2, node |-> a, separator |-> b]}
    \cup {[t |-> "dispatch", cases |-> <<[matcher |-> [t |-> "list", chars |-> {1}], node |-> a],
                                         [matcher |-> [t |-> "range", from |-> 1, to |-> 2], node |-> b]>>]}

Parts(n) ==
    CASE "node" \in DOMAIN n /\ "separator" \in DOMAIN n -> {n.node, n.separator}
      [] "node" \in DOMAIN n /\ "separator" \notin DOMAIN n -> {n.node}
      [] "lhs" \in DOMAIN n  -> {n.lhs, n.rhs}
      [] "cases" \in DOMAIN n -> {n.cases[i].node : i \in DOMAIN n.cases}
      [] OTHER -> {}
RECURSIVE Nodes(_), Uses(_, _)
Nodes(n) == 1 + (IF Parts(n) = {} THEN 0
                 ELSE CHOOSE k \in {Nodes(x) : x \in Parts(n)} : \A x \in Parts(n) : Nodes(x) <= k)
Uses(n, kinds) == n.t \in kinds \/ \E x \in Parts(n) : Uses(x, kinds)

Init == grammar \in Atoms
Wrap == Nodes(grammar) < MaxNodes /\ grammar' \in Wraps(grammar)
Join == Nodes(grammar) < MaxNodes /\ \E a \in Atoms : grammar' \in Joins(grammar, a) \cup Joins(a, grammar)
Next == Wrap \/ Join
Spec == Init /\ [][Next]_grammar

-----------------------------------------------------------------------------
(* Properties *)

Texts == UNION {[1..k -> Alphabet] : k \in 0..MaxLength}
Extensions(text) == {x \in Texts : IsPrefix(text, x)}
Parsed(text) == Guarded(Context(text, Len(text)), 0, LAMBDA c : Parse(c, grammar, 0))
Matched(text) == Guarded(Context(text, Len(text)), 0, LAMBDA c : Match(c, grammar, 0))
Completed(text, cursor) == Complete(Context(text, cursor), Call, 0)

\* A rule that calls itself where it began, or too deep: completing it, which
\* tries more ways than parsing, may meet this where parsing does not.
Recursive(s) == s.r \in {"logic", "depth"} /\ Uses(grammar, {"call"})

\* WalksAgree: Parse and Match take the same text, fail at the same position in
\* the same way and have looked equally far; what is parsed is what was taken
\* unless the grammar says to leave something out; Complete at the end of a text
\* takes it as Parse does and refuses it only if Parse does.
WalksAgree == \A text \in Texts :
    \A x \in {Parsed(text)}, y \in {Matched(text)}, s \in {Completed(text, Len(text))} :
    /\ x.r = y.r /\ x.pos = y.pos /\ x.c.far = y.c.far
    /\ x.r = "match" /\ ~Uses(grammar, {"discard", "lookahead", "separated"}) => x.value = SubSeq(text, 1, x.pos)
    /\ x.r = "match" => Recursive(s) \/ (s.r = "state" /\ s.matched /\ s.pos = x.pos)
    /\ s.r = "state" /\ s.matched /\ ~s.incomplete => x.r = "match"
    /\ s.r = "parse" => x.r = "parse"

\* CompletionLosesNothing: a text that cannot be completed has no continuation
\* that parses, and a suggestion goes on from what stands before the cursor.
CompletionLosesNothing == \A text \in Texts :
    \A s \in {Completed(text, Len(text))} :
    /\ s.r = "state" /\ ~s.matched /\ ~s.incomplete => \A x \in Extensions(text) : Parsed(x).r # "match"
    /\ s.r = "state" => \A f \in s.c.found :
         f.from <= f.to /\ f.to = Len(text) /\ IsPrefix(SubSeq(text, f.from + 1, f.to), f.text)

\* SuffixIgnored: what is behind the cursor has no part in a completion.
SuffixIgnored == \A text \in Texts : \A cursor \in 0..Len(text) :
    LET a == Completed(text, cursor)  b == Completed(SubSeq(text, 1, cursor), cursor) IN
    a.r = b.r /\ a.c.found = b.c.found
=============================================================================
