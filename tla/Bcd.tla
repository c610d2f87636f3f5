-------------------------------- MODULE Bcd --------------------------------
(***************************************************************************)
(* TBCD and TFixedBCD (io_bcd): numbers of a radix with a limited count of *)
(* digits before and behind the point, in registers that any sequence of   *)
(* operators, assignments, conversions and roundings changes.  Digits are  *)
(* allocated when the first one that is not zero is stored, and is_zero    *)
(* caches that none is.  Operators may name one register twice, or the     *)
(* output among the inputs.                                                *)
(*                                                                         *)
(* The digit algorithms (namespace detail), which TBCD and TFixedBCD       *)
(* share, come first.  There a number is the sequence of its digits, the   *)
(* least significant one first, without zeros at the other end; zero is    *)
(* <<>>.                                                                   *)
(***************************************************************************)
EXTENDS Integers, Sequences, SequencesExt, FiniteSetsExt, TLC

CONSTANTS Configurations, \* of the registers: the radix and the counts of digits
          Literals,       \* integers that operators take instead of a TBCD
          Floats,         \* floating point values, as decoded from their bits
          Texts,          \* numerals, as sequences of tokens
          Bits,           \* of the integers and the fractions of floats
          WorkRadix,      \* of a division of different radices (256)
          UIntMax         \* bound of the factors of MultiplyDigitsPower (UINT_MAX)

ASSUME BcdAssumption ==
    /\ UIntMax \in Nat \ {0, 1}
    /\ WorkRadix \in Nat \ {0, 1} /\ Bits \in Nat \ {0, 1} /\ Literals \subseteq Int
    /\ \A f \in Floats : f.significand \in Nat /\ f.exponent \in Int

VARIABLE reg   \* the registers

-----------------------------------------------------------------------------
(* Digits *)

At(d, i) == IF i \in 1..Len(d) THEN d[i] ELSE 0
Zeros(n) == [i \in 1..n |-> 0]

\* What digits stand for, the reference of every algorithm below.
Magnitude(d, radix) ==
    LET sum[i \in 0..Len(d)] == IF i = 0 THEN 0 ELSE sum[i - 1] * radix + d[Len(d) + 1 - i]
    IN sum[Len(d)]
Power(x, n) == LET p[i \in 0..n] == IF i = 0 THEN 1 ELSE x * p[i - 1] IN p[n]

TrimDigits(d) == SubSeq(d, 1, Max({0} \cup {i \in DOMAIN d : d[i] # 0}))
IsDigitsZero(d) == d = <<>>

CompareDigits(l, r) ==
    IF Len(l) # Len(r) THEN IF Len(l) < Len(r) THEN -1 ELSE 1
    ELSE IF l = r THEN 0
    ELSE LET top == Max({i \in DOMAIN l : l[i] # r[i]}) IN IF l[top] < r[top] THEN -1 ELSE 1

\* The digits of a value that is not negative (BuildIntegerDigits, and the
\* carry that the loops below append).
RECURSIVE BuildIntegerDigits(_, _)
BuildIntegerDigits(value, radix) ==
    IF value = 0 THEN <<>> ELSE <<value % radix>> \o BuildIntegerDigits(value \div radix, radix)

\* The carry runs into the digits and, where they end, becomes new ones.
RECURSIVE AddDigitsSmall(_, _, _)
AddDigitsSmall(d, radix, value) ==
    IF value = 0 THEN d
    ELSE LET sum == At(d, 1) + value
         IN <<sum % radix>> \o AddDigitsSmall(SubSeq(d, 2, Len(d)), radix, sum \div radix)

AddDigits(l, r, radix) ==
    LET n == Max({Len(l), Len(r)})
        carry[i \in 0..n] == IF i = 0 THEN 0 ELSE (At(l, i) + At(r, i) + carry[i - 1]) \div radix
    IN [i \in 1..n |-> (At(l, i) + At(r, i) + carry[i - 1]) % radix] \o
       (IF carry[n] # 0 THEN <<carry[n]>> ELSE <<>>)

\* l is not less than r.
SubtractDigits(l, r, radix) ==
    LET borrow[i \in 0..Len(l)] ==
            IF i > 0 /\ l[i] - At(r, i) - borrow[i - 1] < 0 THEN 1 ELSE 0
    IN TrimDigits([i \in 1..Len(l) |-> (l[i] - At(r, i) - borrow[i - 1]) % radix])

ShiftDigitsLeft(d, n) == IF n = 0 \/ IsDigitsZero(d) THEN d ELSE Zeros(n) \o d

MultiplyDigitsSmall(d, radix, value) ==
    LET carry[i \in 0..Len(d)] == IF i = 0 THEN 0 ELSE (d[i] * value + carry[i - 1]) \div radix
    IN IF value = 0 \/ IsDigitsZero(d) THEN <<>>
       ELSE IF value = 1 THEN d
       ELSE IF value = radix THEN ShiftDigitsLeft(d, 1)
       ELSE [i \in DOMAIN d |-> (d[i] * value + carry[i - 1]) % radix] \o
            BuildIntegerDigits(carry[Len(d)], radix)

\* As many factors at once as fit an unsigned: the factor and what is left.
RECURSIVE Chunk(_, _, _)
Chunk(factor, value, remaining) ==
    IF remaining = 0 \/ factor > UIntMax \div value THEN <<factor, remaining>>
    ELSE Chunk(factor * value, value, remaining - 1)

RECURSIVE MultiplyDigitsPower(_, _, _, _)
MultiplyDigitsPower(d, radix, value, exponent) ==
    IF value = radix THEN ShiftDigitsLeft(d, exponent)
    ELSE IF exponent = 0 \/ IsDigitsZero(d) THEN d
    ELSE LET chunk == Chunk(1, value, exponent)
         IN MultiplyDigitsPower(MultiplyDigitsSmall(d, radix, chunk[1]), radix, value, chunk[2])

\* One row of the school method for each digit of l, added where it belongs.
MultiplyDigits(l, r, radix) ==
    LET Row(sum, i) ==
          LET part(j) == sum[j] + l[i] * At(r, j + 1 - i)
              carry[j \in 0..Len(sum)] == IF j = 0 THEN 0 ELSE (part(j) + carry[j - 1]) \div radix
          IN [j \in DOMAIN sum |-> (part(j) + carry[j - 1]) % radix] \o
             (IF carry[Len(sum)] # 0 THEN <<carry[Len(sum)]>> ELSE <<>>)
        rows[i \in 0..Len(l)] == IF i = 0 THEN Zeros(Len(l) + Len(r)) ELSE Row(rows[i - 1], i)
    IN IF IsDigitsZero(l) \/ IsDigitsZero(r) THEN <<>> ELSE TrimDigits(rows[Len(l)])

\* Quotient digits and remainder, from the top.
DivideDigitsSmall(d, radix, divisor) ==
    LET n == Len(d)
        rest[i \in 1..(n + 1)] == IF i = n + 1 THEN 0 ELSE (rest[i + 1] * radix + d[i]) % divisor
    IN [quotient |-> TrimDigits([i \in 1..n |-> (rest[i + 1] * radix + d[i]) \div divisor]),
        remainder |-> rest[1]]

RECURSIVE DivideDigitsPower(_, _, _, _)
DivideDigitsPower(d, radix, divisor, exponent) ==
    IF divisor = radix THEN SubSeq(d, exponent + 1, Len(d))
    ELSE IF exponent = 0 \/ IsDigitsZero(d) THEN d
    ELSE LET chunk == Chunk(1, divisor, exponent)
         IN DivideDigitsPower(DivideDigitsSmall(d, radix, chunk[1]).quotient, radix, divisor, chunk[2])

-----------------------------------------------------------------------------
(* DivideDigits: the long division of Knuth's volume 2 *)

\* The estimate of a quotient digit, too large by 2 at most, corrected by the
\* second digit of the divisor.
RECURSIVE Corrected(_, _, _, _, _)
Corrected(q, r, u2, v, radix) ==
    LET n == Len(v) IN
    IF q * v[n - 1] > r * radix + u2 /\ r < radix
    THEN Corrected(q - 1, r + v[n], u2, v, radix)
    ELSE q
Estimate(top, u2, v, radix) ==
    LET q == top \div v[Len(v)]
        capped == IF q >= radix THEN radix - 1 ELSE q
    IN Corrected(capped, top - capped * v[Len(v)], u2, v, radix)

\* u[j+1 .. j+n+1] minus q times v, as digits; it may be negative, by one v.
MultiplySubtract(u, v, q, j, radix) ==
    LET n == Len(v)
        borrow[i \in 0..n] == IF i = 0 THEN 0 ELSE
            LET product == q * v[i] + borrow[i - 1] IN
            product \div radix + (IF u[j + i] < product % radix THEN 1 ELSE 0)
        low(i) == (q * v[i] + borrow[i - 1]) % radix
    IN [digits |-> [i \in DOMAIN u |->
                      IF i \in (j + 1)..(j + n) THEN (u[i] - low(i - j)) % radix
                      ELSE IF i = j + n + 1 THEN (u[i] - borrow[n]) % radix ELSE u[i]],
        negative |-> u[j + n + 1] < borrow[n]]

AddBack(u, v, j, radix) ==
    LET n == Len(v)
        carry[i \in 0..n] == IF i = 0 THEN 0 ELSE (u[j + i] + v[i] + carry[i - 1]) \div radix
    IN [i \in DOMAIN u |->
          IF i \in (j + 1)..(j + n) THEN (u[i] + v[i - j] + carry[i - j - 1]) % radix
          ELSE IF i = j + n + 1 THEN (u[i] + carry[n]) % radix ELSE u[i]]

RECURSIVE LongDivision(_, _, _, _, _)
LongDivision(u, v, quotient, j, radix) ==
    IF j < 0 THEN [quotient |-> quotient, rest |-> u]
    ELSE LET n == Len(v)
             q == Estimate(u[j + n + 1] * radix + u[j + n], u[j + n - 1], v, radix)
             s == MultiplySubtract(u, v, q, j, radix)
         IN LongDivision(IF s.negative THEN AddBack(s.digits, v, j, radix) ELSE s.digits, v,
                         <<IF s.negative THEN q - 1 ELSE q>> \o quotient, j - 1, radix)

DivideDigits(numerator, denominator, radix) ==
    CASE IsDigitsZero(numerator) -> [quotient |-> <<>>, remainder |-> <<>>]
      [] CompareDigits(numerator, denominator) < 0 ->
           [quotient |-> <<>>, remainder |-> numerator]
      [] Len(denominator) = 1 /\ CompareDigits(numerator, denominator) >= 0 ->
           LET d == DivideDigitsSmall(numerator, radix, denominator[1])
           IN [quotient |-> d.quotient,
               remainder |-> IF d.remainder # 0 THEN <<d.remainder>> ELSE <<>>]
      [] OTHER ->
           LET n == Len(denominator)
               normalization == radix \div (denominator[n] + 1)
               v == MultiplyDigitsSmall(denominator, radix, normalization)
               u == MultiplyDigitsSmall(numerator, radix, normalization)
               d == LongDivision(u \o Zeros(Len(numerator) + 1 - Len(u)), v, <<>>,
                                 Len(numerator) - n, radix)
               rest == TrimDigits(SubSeq(d.rest, 1, n))
           IN [quotient |-> TrimDigits(d.quotient),
               remainder |-> IF normalization > 1
                             THEN DivideDigitsSmall(rest, radix, normalization).quotient
                             ELSE rest]

-----------------------------------------------------------------------------
ConvertDigitsRadix(d, source, target) ==
    LET Step(digit, result) ==
            AddDigitsSmall(MultiplyDigitsSmall(result, target, source), target, digit)
    IN IF source = target THEN d ELSE FoldRight(Step, d, <<>>)

ModuloDigitsSmall(d, radix, divisor) ==
    IF divisor = 1 THEN 0 ELSE DivideDigitsSmall(d, radix, divisor).remainder

RECURSIVE GcdSmall(_, _)
GcdSmall(l, r) == IF r = 0 THEN l ELSE GcdSmall(r, l % r)

RECURSIVE GcdDigits(_, _, _)
GcdDigits(a, b, radix) ==
    IF IsDigitsZero(b) THEN a ELSE GcdDigits(b, DivideDigits(a, b, radix).remainder, radix)

\* What is left of the denominator when its factors that powers of the output
\* radix consume are gone is more than 1.
RECURSIVE HasForeignFactor(_, _, _)
HasForeignFactor(d, radix, output) ==
    /\ d # <<1>>
    /\ LET common == GcdSmall(output, ModuloDigitsSmall(d, radix, output))
       IN common = 1 \/ HasForeignFactor(DivideDigitsSmall(d, radix, common).quotient, radix, output)
IsPeriodicFraction(numerator, denominator, radix, output) ==
    /\ ~IsDigitsZero(numerator) /\ ~IsDigitsZero(denominator)
    /\ HasForeignFactor(DivideDigits(denominator, GcdDigits(numerator, denominator, radix),
                                     radix).quotient, radix, output)

-----------------------------------------------------------------------------
Names == {"a", "b"}
Finite == "FINITE"
Infinite == "INFINITE"
NaN == "NOT_A_NUMBER"

Zero(conf) == conf @@ [digits |-> <<>>, negative |-> FALSE, is_zero |-> TRUE,
                       periodic |-> FALSE, class |-> Finite]
Count(v) == v.int + v.dec
IsFinite(v) == v.class = Finite
IsNegative(v) == v.negative /\ v.class # NaN

-----------------------------------------------------------------------------
(* Digits of a register *)

IsZero(v) == IsFinite(v) /\ (v.is_zero \/ \A i \in DOMAIN v.digits : v.digits[i] = 0)
SetZero(v) == [v EXCEPT !.digits = IF v.is_zero THEN @ ELSE Zeros(Len(@)), !.negative = FALSE,
                        !.is_zero = TRUE, !.periodic = FALSE, !.class = Finite]
SetNaN(v) == [v EXCEPT !.digits = <<>>, !.negative = FALSE, !.is_zero = FALSE,
                       !.periodic = FALSE, !.class = NaN]
SetInfinity(v, negative) == [SetNaN(v) EXCEPT !.negative = negative, !.class = Infinite]

\* The digit of weight radix^i.
Digit(v, i) == IF v.is_zero THEN 0 ELSE At(v.digits, i + v.dec + 1)

\* All digits are written, and IsZero() caches what they are.
Write(v, d(_)) ==
    LET n == Count(v)
        full == [i \in 1..n |-> d(i - 1 - v.dec)]
        none == \A i \in 1..n : full[i] = 0
    IN [v EXCEPT !.digits = IF none /\ @ = <<>> THEN <<>> ELSE full,
                 !.is_zero = none, !.periodic = FALSE]

BuildMagnitudeDigits(v, radix) ==
    IF IsZero(v) THEN <<>> ELSE ConvertDigitsRadix(TrimDigits(v.digits), v.base, radix)

\* The result, and whether digits above the integer part are lost.
AssignMagnitudeDigits(out, d, negative) ==
    LET z == SetZero(out)
        v == IF d = <<>> \/ Count(out) = 0 THEN z ELSE Write(z, LAMBDA i : At(d, i + out.dec + 1))
    IN [out |-> [v EXCEPT !.negative = negative /\ ~IsZero(v)], overflow |-> Len(d) > Count(out)]

Low(s) == -Max({v.dec : v \in s})
High(s) == Max({v.int : v \in s})

CompareMagnitude(l, r) ==
    IF l.base = r.base
    THEN LET Differ == {i \in Low({l, r})..(High({l, r}) - 1) : Digit(l, i) # Digit(r, i)} IN
         IF Differ = {} THEN 0
         ELSE IF Digit(l, Max(Differ)) < Digit(r, Max(Differ)) THEN -1 ELSE 1
    ELSE CompareDigits(
           MultiplyDigitsPower(BuildMagnitudeDigits(l, WorkRadix), WorkRadix, r.base, r.dec),
           MultiplyDigitsPower(BuildMagnitudeDigits(r, WorkRadix), WorkRadix, l.base, l.dec))

-----------------------------------------------------------------------------
(* Sum and difference *)

\* Digit by digit over the places of all three; what is below the output is
\* lost, what is above it is reported.
AbsAdd(out, l, r) ==
    LET low == Low({out, l, r})
        high == High({out, l, r})
        carry[i \in (low - 1)..(high - 1)] ==
            IF i < low THEN 0 ELSE (Digit(l, i) + Digit(r, i) + carry[i - 1]) \div out.base
        sum(i) == (Digit(l, i) + Digit(r, i) + carry[i - 1]) % out.base
    IN [out |-> Write(out, sum),
        overflow |-> carry[high - 1] # 0 \/ \E i \in out.int..(high - 1) : sum(i) # 0]

\* For the run that checks the properties: what is borrowed is not paid back.
AbsSub_NoBorrow(out, l, r) ==
    [out |-> Write(out, LAMBDA i : (Digit(l, i) - Digit(r, i)) % out.base), overflow |-> FALSE]

AbsSub(out, l, r) ==
    LET low == Low({out, l, r})
        high == High({out, l, r})
        borrow[i \in (low - 1)..(high - 1)] ==
            IF i >= low /\ Digit(l, i) - Digit(r, i) - borrow[i - 1] < 0 THEN 1 ELSE 0
        difference(i) == (Digit(l, i) - Digit(r, i) - borrow[i - 1]) % out.base
    IN [out |-> Write(out, difference),
        overflow |-> \E i \in out.int..(high - 1) : difference(i) # 0]

Signed(result, negative) == [result EXCEPT !.out.negative = negative]

\* The numerators over one denominator, that the output is relieved of again.
AddGeneric(out, l, r, subtract) ==
    LET radix == out.base
        left == MultiplyDigitsPower(BuildMagnitudeDigits(l, radix), radix, r.base, r.dec)
        right == MultiplyDigitsPower(BuildMagnitudeDigits(r, radix), radix, l.base, l.dec)
        lneg == IsNegative(l) /\ ~IsDigitsZero(left)
        rneg == (IsNegative(r) # subtract) /\ ~IsDigitsZero(right)
        cmp == CompareDigits(left, right)
        Scaled(d) == DivideDigitsPower(DivideDigitsPower(ShiftDigitsLeft(d, out.dec),
                         radix, l.base, l.dec), radix, r.base, r.dec)
    IN CASE lneg = rneg -> AssignMagnitudeDigits(out, Scaled(AddDigits(left, right, radix)), lneg)
         [] lneg # rneg /\ cmp = 0 -> [out |-> SetZero(out), overflow |-> FALSE]
         [] lneg # rneg /\ cmp > 0 ->
              AssignMagnitudeDigits(out, Scaled(SubtractDigits(left, right, radix)), lneg)
         [] lneg # rneg /\ cmp < 0 ->
              AssignMagnitudeDigits(out, Scaled(SubtractDigits(right, left, radix)), rneg)

Special(out) == [out |-> out, overflow |-> FALSE]
AddSpecial(out, l, r, rneg) ==
    Special(IF l.class = NaN \/ r.class = NaN THEN SetNaN(out)
            ELSE IF l.class = Infinite /\ r.class = Infinite /\ l.negative # rneg THEN SetNaN(out)
            ELSE SetInfinity(out, IF l.class = Infinite THEN l.negative ELSE rneg))
Ready(out) == [(IF IsFinite(out) THEN out ELSE SetZero(out)) EXCEPT !.periodic = FALSE]

\* Add, and Subtract with the sign of its second operand the other way round.
AddOf(out0, l, r, subtract) ==
    LET out == Ready(out0)
        lneg == l.negative /\ ~IsZero(l)
        rneg == r.negative /\ ~IsZero(r)
        cmp == CompareMagnitude(l, r)
    IN CASE ~IsFinite(l) \/ ~IsFinite(r) -> AddSpecial(out0, l, r, r.negative # subtract)
         [] IsFinite(l) /\ IsFinite(r) /\ {l.base, r.base} # {out.base} ->
              AddGeneric(out, l, r, subtract)
         [] OTHER ->
              IF (lneg = rneg) # subtract THEN Signed(AbsAdd(out, l, r), lneg)
              ELSE IF cmp = 0 THEN Special(SetZero(out))
              ELSE IF cmp > 0 THEN Signed(AbsSub(out, l, r), lneg)
              ELSE Signed(AbsSub(out, r, l), rneg # subtract)
Add(out, l, r) == AddOf(out, l, r, FALSE)
Subtract(out, l, r) == AddOf(out, l, r, TRUE)

-----------------------------------------------------------------------------
(* Product and quotient *)

AbsMul(out, l, r) ==
    LET product == MultiplyDigits(TrimDigits(l.digits), TrimDigits(r.digits), out.base)
        places == l.dec + r.dec
    IN AssignMagnitudeDigits(out,
         IF out.dec >= places THEN ShiftDigitsLeft(product, out.dec - places)
         ELSE DivideDigitsPower(product, out.base, out.base, places - out.dec), FALSE).out

MultiplyGeneric(out, l, r) ==
    LET radix == out.base
        product == MultiplyDigits(BuildMagnitudeDigits(l, radix), BuildMagnitudeDigits(r, radix), radix)
    IN AssignMagnitudeDigits(out, DivideDigitsPower(DivideDigitsPower(
         ShiftDigitsLeft(product, out.dec), radix, l.base, l.dec), radix, r.base, r.dec),
         (IsNegative(l) # IsNegative(r)) /\ ~IsDigitsZero(product)).out

Multiply(out0, l, r) ==
    LET out == Ready(out0)
        negative == l.negative # r.negative
        undefined == \/ l.class = NaN \/ r.class = NaN
                     \/ l.class = Infinite /\ IsZero(r)
                     \/ r.class = Infinite /\ IsZero(l)
    IN CASE undefined -> SetNaN(out0)
         [] IsFinite(l) /\ IsFinite(r) ->
              IF IsZero(l) \/ IsZero(r) THEN SetZero(out)
              ELSE [(IF {l.base, r.base} = {out.base} THEN AbsMul(out, l, r)
                     ELSE MultiplyGeneric(out, l, r)) EXCEPT !.negative = negative]
         [] OTHER -> SetInfinity(out0, IsNegative(l) # IsNegative(r))

DivideGeneric(out, l, r) ==
    LET work == IF {l.base, r.base} = {out.base} THEN out.base ELSE WorkRadix
        left == BuildMagnitudeDigits(l, work)
        numerator == MultiplyDigitsPower(MultiplyDigitsPower(left, work, r.base, r.dec),
                                         work, out.base, out.dec)
        denominator == MultiplyDigitsPower(BuildMagnitudeDigits(r, work), work, l.base, l.dec)
        d == DivideDigits(numerator, denominator, work)
        residual == DivideDigitsPower(DivideDigitsPower(d.remainder, work, l.base, l.dec),
                                      work, r.base, r.dec)
        quotient == AssignMagnitudeDigits(out, ConvertDigitsRadix(d.quotient, work, out.base),
                        (IsNegative(l) # IsNegative(r)) /\ ~IsDigitsZero(left)).out
    IN [out |-> [quotient EXCEPT !.periodic =
                   /\ ~IsDigitsZero(d.remainder)
                   /\ IsPeriodicFraction(numerator, denominator, work, out.base)],
        remainder |-> AssignMagnitudeDigits(Zero([base |-> out.base, int |-> out.int, dec |-> out.dec]),
                        ConvertDigitsRadix(residual, work, out.base),
                        IsNegative(l) /\ ~IsDigitsZero(left)).out]

-----------------------------------------------------------------------------
(* Assignment and conversion *)

Conf(v) == [base |-> v.base, int |-> v.int, dec |-> v.dec]

\* The same places of the same radix; else the exact value, cut off.
ConvertBCD(out, v) ==
    IF v.class = NaN THEN SetNaN(out)
    ELSE IF v.class = Infinite THEN SetInfinity(out, IsNegative(v))
    ELSE IF out.base = v.base
    THEN [Write(SetZero(out), LAMBDA i : Digit(v, i)) EXCEPT
            !.negative = v.negative,
            !.periodic = v.periodic /\ out.int = v.int /\ out.dec = v.dec]
    ELSE AssignMagnitudeDigits(out, DivideDigitsPower(ShiftDigitsLeft(
           BuildMagnitudeDigits(v, out.base), out.dec), out.base, v.base, v.dec), v.negative).out

\* The digits of the integer that there is room for, the lowest first.
ConvertInteger(out, k) ==
    LET m == IF k < 0 THEN -k ELSE k
        d == BuildIntegerDigits(m, out.base)
    IN [Write(SetZero(out), LAMBDA i : IF i < 0 THEN 0 ELSE At(d, i + 1))
          EXCEPT !.negative = k < 0 /\ m # 0]

ConvertFloatParts(out, f) ==
    IF f.class = NaN THEN SetNaN(out)
    ELSE IF f.class = Infinite THEN SetInfinity(out, f.negative)
    ELSE IF f.significand = 0 THEN SetZero(out)
    ELSE LET up == IF f.exponent > 0 THEN f.exponent ELSE 0
             down == IF f.exponent < 0 THEN -f.exponent ELSE 0
         IN AssignMagnitudeDigits(out, DivideDigitsPower(ShiftDigitsLeft(
              MultiplyDigitsPower(BuildIntegerDigits(f.significand, out.base), out.base, 2, up),
              out.dec), out.base, 2, down), f.negative).out

\* The value of the bits of an IEC 559 number: the significand is odd.
RECURSIVE Odd(_, _)
Odd(significand, exponent) ==
    IF significand % 2 = 0 THEN Odd(significand \div 2, exponent + 1)
    ELSE [significand |-> significand, exponent |-> exponent]
DecodeBinaryFloat(negative, exponent, fraction, n_exponent, n_fraction) ==
    LET bias == 2 ^ (n_exponent - 1) - 1
        special == exponent = 2 ^ n_exponent - 1
        parts == IF special \/ (exponent = 0 /\ fraction = 0)
                 THEN [significand |-> 0, exponent |-> 0]
                 ELSE IF exponent = 0 THEN Odd(fraction, 1 - bias - n_fraction)
                 ELSE Odd(2 ^ n_fraction + fraction, exponent - bias - n_fraction)
    IN parts @@ [negative |-> negative,
                 class |-> IF ~special THEN Finite ELSE IF fraction = 0 THEN Infinite ELSE NaN]

-----------------------------------------------------------------------------
(* Numerals: digits and the tokens for the point and the signs *)

Point == -1
Minus == -2
Plus == -3
IsSign(t) == t \in {Minus, Plus}
FirstPoint(body) == Max({0} \cup {i \in DOMAIN body : body[i] = Point /\ \A j \in 1..(i - 1) : body[j] # Point})
DigitTokens(body) == SelectSeq(body, LAMBDA t : t >= 0)

\* The value of digits with the least significant one first: all are stored.
Stored(base, int, dec, d, negative) ==
    [Write(Zero([base |-> base, int |-> int, dec |-> dec]), LAMBDA i : At(d, i + dec + 1)) EXCEPT
        !.digits = [i \in 1..(int + dec) |-> At(d, i)], !.negative = negative]

\* FromStringMSD, and FromStringMSDShifted, which moves the radix point by
\* shift places; no digit is lost.
FromStringMSD(text, base, shift) ==
    LET body == IF IsSign(text[1]) THEN Tail(text) ELSE text
        int == IF FirstPoint(body) = 0 THEN Len(body) ELSE FirstPoint(body) - 1
        dec == IF FirstPoint(body) = 0 THEN 0 ELSE Len(body) - FirstPoint(body)
        d == Zeros(Max({shift - dec, 0})) \o Reverse(DigitTokens(body))
    IN Stored(base, Max({int + shift, 0}), Max({dec - shift, 0}), d, text[1] = Minus)

\* FromString: the least significant digit first, a sign at one of the ends.
NoNumber == [ok |-> FALSE]
FromString(text, base) ==
    LET front == IsSign(text[1])
        back == IsSign(text[Len(text)])
        body == IF front THEN Tail(text) ELSE IF back THEN Front(text) ELSE text
        d == DigitTokens(body)
        dec == Max({FirstPoint(body) - 1, 0})
    IN IF \/ front /\ back /\ Len(text) > 1
          \/ d = <<>>
          \/ \E i \in DOMAIN body : \/ body[i] >= base
                                   \/ IsSign(body[i])
                                   \/ (body[i] = Point /\ i # FirstPoint(body))
       THEN NoNumber
       ELSE [ok |-> TRUE, value |-> Stored(base, Len(d) - dec, dec, d,
                                        IF front THEN text[1] = Minus ELSE text[Len(text)] = Minus)]

\* The largest magnitude of an integer of Bits bits.
Limit(signed, negative) == IF ~signed THEN 2 ^ Bits - 1
                           ELSE IF negative THEN 2 ^ (Bits - 1) ELSE 2 ^ (Bits - 1) - 1
\* The digits from the top, until one of them leads beyond the limit.
RECURSIVE Collect(_, _, _, _)
Collect(d, magnitude, radix, limit) ==
    IF d = <<>> THEN [ok |-> TRUE, value |-> magnitude]
    ELSE IF d[1] \notin 0..(radix - 1) \/ d[1] > limit \/ magnitude > (limit - d[1]) \div radix
    THEN NoNumber
    ELSE Collect(Tail(d), magnitude * radix + d[1], radix, limit)

ParseIntegerMSD(text, radix, signed) ==
    LET negative == text[1] = Minus
        body == IF IsSign(text[1]) THEN Tail(text) ELSE text
        c == Collect(body, 0, radix, Limit(signed, negative))
    IN IF body = <<>> \/ (negative /\ ~signed) \/ ~c.ok THEN NoNumber
       ELSE [ok |-> TRUE, value |-> IF negative THEN -c.value ELSE c.value]

\* The integer part, in as many bits as there are, and the same as a
\* two's complement.
ToUnsignedInt(v) ==
    IF IsZero(v) THEN 0
    ELSE Magnitude(SubSeq(v.digits, v.dec + 1, Count(v)), v.base) % 2 ^ Bits
TwosComplement(m) == ((m + 2 ^ (Bits - 1)) % (2 ^ Bits)) - 2 ^ (Bits - 1)
ToSignedInt(v) == TwosComplement(IF v.negative THEN -ToUnsignedInt(v) ELSE ToUnsignedInt(v))

\* As many digits as the largest source value takes.
RequiredDigits(target, source, n) ==
    CHOOSE k \in 0..(8 * n) : /\ target ^ k >= source ^ n
                              /\ \A j \in 0..(k - 1) : target ^ j < source ^ n

CountLeadingZeros(v) ==
    v.int - Max({0} \cup {i \in 1..v.int : Digit(v, i - 1) # 0})
CountTrailingZeros(v) ==
    v.dec - Max({0} \cup {i \in 1..v.dec : Digit(v, -i) # 0})

\* The rest of Divide: what has no digits to divide.
Divide(out0, l, r) ==
    LET out == Ready(out0)
        none == SetNaN(Zero(Conf(out0)))
        negative == IsNegative(l) # IsNegative(r)
    IN CASE l.class = NaN \/ r.class = NaN \/ (l.class = Infinite /\ r.class = Infinite) ->
              [out |-> SetNaN(out0), remainder |-> none]
         [] IsFinite(l) /\ r.class = Infinite ->
              [out |-> SetZero(out0), remainder |-> ConvertBCD(Zero(Conf(out0)), l)]
         [] l.class = Infinite /\ IsFinite(r) ->
              [out |-> SetInfinity(out0, negative), remainder |-> none]
         [] IsFinite(l) /\ IsZero(r) ->
              [out |-> IF IsZero(l) THEN SetNaN(out0) ELSE SetInfinity(out0, negative),
               remainder |-> none]
         [] OTHER -> DivideGeneric(out, l, r)

-----------------------------------------------------------------------------
(* Rounding and precision *)

\* For the run that checks the properties: no look at the lower digits.
Increment_LeadingOnly(v, n, mode) ==
    CASE mode = "TOWARDS_ZERO"   -> FALSE
      [] mode = "AWAY_FROM_ZERO" -> TRUE
      [] mode = "DOWNWARD"       -> v.negative
      [] mode = "UPWARD"         -> ~v.negative
      [] mode = "TO_NEAREST"     -> 2 * v.digits[n] >= v.base
      [] OTHER -> \/ 2 * v.digits[n] > v.base
                  \/ 2 * v.digits[n] = v.base /\ Digit(v, n - v.dec) % 2 = 1

Increment(v, n, mode) ==
    LET leading == 2 * v.digits[n]
        lower == \E i \in 1..(n - 1) : v.digits[i] # 0
    IN CASE mode = "TOWARDS_ZERO"   -> FALSE
         [] mode = "AWAY_FROM_ZERO" -> TRUE
         [] mode = "DOWNWARD"       -> v.negative
         [] mode = "UPWARD"         -> ~v.negative
         [] mode = "TO_NEAREST"      -> leading >= v.base
         [] mode = "TO_NEAREST_EVEN" ->
              \/ leading > v.base
              \/ leading = v.base /\ (lower \/ Digit(v, n - v.dec) % 2 = 1)

\* The carry of the increment ends with the digits there are.
Round(v, n_decimal_max, mode) ==
    LET n == v.dec - n_decimal_max
        none == \A i \in 1..n : v.digits[i] = 0
        carry[i \in n..Count(v)] ==
            IF i = n THEN IF Increment(v, n, mode) THEN 1 ELSE 0
            ELSE (v.digits[i] + carry[i - 1]) \div v.base
        Kept(i) == LET j == i + v.dec + 1 IN
                   IF j <= n THEN 0 ELSE (v.digits[j] + carry[j - 1]) % v.base
    IN IF ~IsFinite(v) \/ n_decimal_max >= v.dec \/ IsZero(v) THEN v
       ELSE IF none THEN [v EXCEPT !.periodic = FALSE]
       ELSE Write(v, Kept)

SetPrecision(v, int, dec, mode) ==
    LET w == IF dec < v.dec THEN Round(v, dec, mode) ELSE v
        full == [i \in 1..(int + dec) |-> Digit(w, i - 1 - dec)]
        none == \A i \in DOMAIN full : full[i] = 0
    IN IF int = v.int /\ dec = v.dec THEN [out |-> v, overflow |-> FALSE]
       ELSE IF ~IsFinite(v)
       THEN [out |-> [v EXCEPT !.int = int, !.dec = dec], overflow |-> FALSE]
       ELSE [out |-> [w EXCEPT !.int = int, !.dec = dec, !.periodic = FALSE, !.is_zero = none,
                               !.digits = IF IsZero(w) THEN <<>> ELSE full],
             overflow |-> \E i \in int..(v.int - 1) : Digit(w, i) # 0]

\* operator<<= and operator>>=, for a shift of more than 0 and less than 0.
Shift(v, s) ==
    IF ~IsFinite(v) \/ s = 0 \/ IsZero(v) THEN v
    ELSE IF s >= Count(v) \/ -s >= Count(v) THEN SetZero(v)
    ELSE LET full == [i \in 1..Count(v) |-> At(v.digits, i - s)]
         IN [v EXCEPT !.digits = full, !.is_zero = \A i \in DOMAIN full : full[i] = 0]

-----------------------------------------------------------------------------
(* Comparison: 2 is unordered *)

Sign(negative, cmp) == IF negative THEN -cmp ELSE cmp
CompareOf(l, r) ==
    LET lneg == l.negative /\ ~IsZero(l)
        rneg == r.negative /\ ~IsZero(r)
    IN CASE l.class = NaN \/ r.class = NaN -> 2
         [] l.class = Infinite /\ r.class = Infinite ->
              IF l.negative = r.negative THEN 0 ELSE Sign(l.negative, 1)
         [] l.class = Infinite /\ IsFinite(r) -> Sign(l.negative, 1)
         [] IsFinite(l) /\ r.class = Infinite -> Sign(r.negative, -1)
         [] OTHER -> IF lneg # rneg THEN Sign(lneg, 1) ELSE Sign(lneg, CompareMagnitude(l, r))
Compare(l, r, absolute) ==
    IF absolute THEN CompareOf([l EXCEPT !.negative = FALSE], [r EXCEPT !.negative = FALSE])
    ELSE CompareOf(l, r)

CompareFloatingParts(v, f) ==
    LET lneg == IsNegative(v) /\ ~IsZero(v)
        fneg == f.negative /\ f.significand # 0
        digits == BuildMagnitudeDigits(v, WorkRadix)
        scaled == MultiplyDigitsPower(BuildIntegerDigits(f.significand, WorkRadix), WorkRadix, v.base, v.dec)
        cmp == IF f.exponent >= 0
               THEN CompareDigits(digits, MultiplyDigitsPower(scaled, WorkRadix, 2, f.exponent))
               ELSE CompareDigits(MultiplyDigitsPower(digits, WorkRadix, 2, -f.exponent), scaled)
    IN CASE v.class = NaN \/ f.class = NaN -> 2
         [] v.class = Infinite /\ f.class # NaN ->
              IF f.class = Infinite /\ v.negative = f.negative THEN 0 ELSE Sign(v.negative, 1)
         [] IsFinite(v) /\ f.class = Infinite -> Sign(f.negative, -1)
         [] OTHER -> IF lneg # fneg THEN Sign(lneg, 1) ELSE Sign(lneg, cmp)

-----------------------------------------------------------------------------
(* The registers *)

vars == reg
Init == \E c \in [Names -> Configurations] : reg = [n \in Names |-> Zero(c[n])]
Set(o, v) == reg' = [reg EXCEPT ![o] = v]

\* Any of the three may be the same register.
Arithmetic(o, l, r) ==
    \/ Set(o, Add(reg[o], reg[l], reg[r]).out)
    \/ Set(o, Subtract(reg[o], reg[l], reg[r]).out)
    \/ Set(o, Multiply(reg[o], reg[l], reg[r]))
    \/ Set(o, Divide(reg[o], reg[l], reg[r]).out)

\* operator%=: the remainder moves to where the quotient has been stored.
Modulo(o, r) == Set(o, Divide(reg[o], reg[o], reg[r]).remainder)

\* The digits change hands where the configurations are equal; what is moved
\* from is zero.
MoveAssign(o, r) ==
    /\ o # r
    /\ LET same == Conf(reg[o]) = Conf(reg[r])
           none == [SetZero(reg[r]) EXCEPT !.digits = IF same THEN <<>> ELSE @]
       IN reg' = [reg EXCEPT ![o] = IF same THEN reg[r] ELSE ConvertBCD(@, reg[r]),
                             ![r] = none]
CopyAssign(o, r) == o # r /\ Set(o, ConvertBCD(reg[o], reg[r]))

\* Operators with an integer convert it to the configuration of the register.
AssignInteger(o, k) == Set(o, ConvertInteger(reg[o], k))
AddInteger(o, k) == Set(o, Add(reg[o], reg[o], ConvertInteger(Zero(Conf(reg[o])), k)).out)
AssignFloat(o, f) == Set(o, ConvertFloatParts(reg[o], f))
Parse(o, text, shift) ==
    /\ \A i \in DOMAIN text : text[i] < reg[o].base
    /\ LET v == FromStringMSD(text, reg[o].base, shift)
       IN Set(o, IF Conf(v) = Conf(reg[o]) THEN v ELSE ConvertBCD(reg[o], v))
Random(o) ==
    \E d \in [1..Count(reg[o]) -> 0..(reg[o].base - 1)] :
        Set(o, Stored(reg[o].base, reg[o].int, reg[o].dec, d, FALSE))

Modes == {"TOWARDS_ZERO", "AWAY_FROM_ZERO", "DOWNWARD", "UPWARD", "TO_NEAREST", "TO_NEAREST_EVEN"}
\* A stochastic rounding does what one of the directed ones does.
RoundTo(o, n) == \E mode \in Modes : Set(o, Round(reg[o], n, mode))
ChangePrecision(o, conf) ==
    /\ conf.base = reg[o].base
    /\ \E mode \in Modes : Set(o, SetPrecision(reg[o], conf.int, conf.dec, mode).out)
ShiftBy(o, s) == Set(o, Shift(reg[o], s))

Next == \E o, r \in Names :
    \/ \E l \in Names : Arithmetic(o, l, r)
    \/ Modulo(o, r)
    \/ MoveAssign(o, r)
    \/ CopyAssign(o, r)
    \/ \E k \in Literals : AssignInteger(o, k) \/ AddInteger(o, k)
    \/ \E f \in Floats : AssignFloat(o, f)
    \/ \E text \in Texts, shift \in {-1, 0, 1} : Parse(o, text, shift)
    \/ Random(o)
    \/ \E n \in 0..reg[o].dec : RoundTo(o, n)
    \/ \E conf \in Configurations : ChangePrecision(o, conf)
    \/ \E s \in -2..2 : ShiftBy(o, s)
Spec == Init /\ [][Next]_vars

-----------------------------------------------------------------------------
(* Properties *)

\* What a finite register stands for: Num over Den, and its kind otherwise.
Num(v) == IF v.negative THEN -Magnitude(v.digits, v.base) ELSE Magnitude(v.digits, v.base)
Den(v) == v.base ^ v.dec
Abs(k) == IF k < 0 THEN -k ELSE k
Signum(k) == IF k < 0 THEN -1 ELSE IF k > 0 THEN 1 ELSE 0
\* The digits of num over den at the scale of out, cut off towards zero.
Truncated(out, num, den) == (Abs(num) * Den(out)) \div Abs(den)
\* v is num over den, cut off below its last digit and above its first.
Is(v, num, den) ==
    /\ IsFinite(v)
    /\ Magnitude(v.digits, v.base) = Truncated(v, num, den) % v.base ^ Count(v)
    /\ ~IsZero(v) => v.negative = (num < 0)
Same(v, w) == /\ v.class = w.class
              /\ IsFinite(v) => Num(v) * Den(w) = Num(w) * Den(v)
              /\ v.class = Infinite => v.negative = w.negative

SumExact(out, l, r, sign) ==
    \E result \in {AddOf(out, l, r, sign = -1)}, num \in {Num(l) * Den(r) + sign * Num(r) * Den(l)} :
       IF IsFinite(l) /\ IsFinite(r)
       THEN /\ Is(result.out, num, Den(l) * Den(r))
            /\ result.overflow = (Truncated(out, num, Den(l) * Den(r)) >= out.base ^ Count(out))
       ELSE Same(result.out, AddOf(out, [r EXCEPT !.negative = (sign = -1) # @], l, FALSE).out)

ProductExact(out, l, r) ==
    IF IsFinite(l) /\ IsFinite(r) THEN Is(Multiply(out, l, r), Num(l) * Num(r), Den(l) * Den(r))
    ELSE Same(Multiply(out, l, r), Multiply(out, r, l))

\* A quotient that does not end is marked, and the remainder is what the
\* quotient that is returned leaves.
QuotientExact(out, l, r) ==
    \E result \in {Divide(out, l, r)} :
    LET den == Num(r) * Den(l)
        num == (IF den < 0 THEN -1 ELSE 1) * Num(l) * Den(r)
        q == Truncated(out, num, den)
        rest == Abs(num) * Den(out) - q * Abs(den)
    IN IsFinite(l) /\ IsFinite(r) /\ Num(r) # 0 =>
         /\ Is(result.out, num, den)
         /\ result.out.periodic = ~\E k \in 0..8 : (Abs(num) * out.base ^ k) % Abs(den) = 0
         /\ Magnitude(result.remainder.digits, out.base) =
              (rest \div (Den(l) * Den(r))) % out.base ^ Count(out)
         /\ ~IsZero(result.remainder) => result.remainder.negative = l.negative

OrderExact(l, r) ==
    /\ IsFinite(l) /\ IsFinite(r) =>
         /\ Compare(l, r, FALSE) = Signum(Num(l) * Den(r) - Num(r) * Den(l))
         /\ Compare(l, r, TRUE) = Signum(Abs(Num(l)) * Den(r) - Abs(Num(r)) * Den(l))
    /\ \A f \in Floats : IsFinite(l) /\ f.class = Finite =>
         LET num == (IF f.negative THEN -1 ELSE 1) * f.significand * 2 ^ Max({f.exponent, 0})
             den == 2 ^ Max({-f.exponent, 0})
         IN /\ CompareFloatingParts(l, f) = Signum(Num(l) * den - num * Den(l))
            /\ Is(ConvertFloatParts(r, f), num, den)

ConversionExact(out, v) ==
    /\ IsFinite(v) => /\ Is(ConvertBCD(out, v), Num(v), Den(v))
                      /\ ToSignedInt(v) = TwosComplement(Signum(Num(v)) * (Abs(Num(v)) \div Den(v)))
                      /\ \E w \in {SetPrecision(v, v.int - CountLeadingZeros(v),
                                                 v.dec - CountTrailingZeros(v), "TOWARDS_ZERO")} :
                           Same(w.out, v) /\ ~w.overflow
    /\ \A k \in Literals : Is(ConvertInteger(out, k), k, 1)
    /\ LET enough == RequiredDigits(out.base, v.base, v.int)
       IN v.base ^ v.int <= out.base ^ enough

\* Numerals, first and last digit first, say what their digits say; an
\* integer is parsed if and only if its type holds it.
NumeralsExact == \A text \in Texts : \A base \in {c.base : c \in Configurations} \cup {10} :
    LET body == IF IsSign(text[1]) THEN Tail(text) ELSE text
        d == DigitTokens(body)
        dec == IF FirstPoint(body) = 0 THEN 0 ELSE Len(body) - FirstPoint(body)
        num == (IF text[1] = Minus THEN -1 ELSE 1) * Magnitude(Reverse(d), base)
    IN (\A i \in DOMAIN text : text[i] < base) =>
         /\ \A shift \in {-2, -1, 0, 1, 2} :
              \E v \in {FromStringMSD(text, base, shift)} :
              Num(v) * base ^ dec * base ^ Max({-shift, 0}) = num * Den(v) * base ^ Max({shift, 0})
         /\ d # <<>> =>
              \E v \in {FromString(Reverse(text), base)} :
              v.ok /\ Num(v.value) * base ^ dec = num * Den(v.value)
         /\ FirstPoint(body) = 0 => \A signed \in BOOLEAN :
              \E v \in {ParseIntegerMSD(text, base, signed)} :
              LET fits == /\ d # <<>> /\ (text[1] = Minus => signed)
                          /\ Abs(num) <= Limit(signed, text[1] = Minus)
              IN v.ok = fits /\ (v.ok => v.value = num)

\* The parts of a floating point number are what its bits mean, in lowest terms.
FloatsExact == \A e \in 0..6, f \in 0..(2 ^ Bits - 1) :
    \E v \in {DecodeBinaryFloat(FALSE, e, f, 3, Bits)} :
    /\ v.significand * 2 ^ (v.exponent + 2 + Bits) =
         IF e = 0 THEN f ELSE (2 ^ Bits + f) * 2 ^ (e - 1)
    /\ v.significand # 0 => v.significand % 2 = 1

\* BcdExact: every operator, assignment, comparison and conversion gives the
\* exact result, cut off towards zero at the last digit of the register it
\* goes to, whatever registers are named twice, whatever earlier operations
\* left in them and whatever their radices are; an overflow is reported if and
\* only if a digit is lost, a quotient is marked periodic if and only if its
\* digits never end, and is_zero is cached for no value but zero.
BcdExact ==
    /\ \A n \in Names : LET v == reg[n] IN
         /\ v.is_zero => IsFinite(v) /\ \A i \in DOMAIN v.digits : v.digits[i] = 0
         /\ \A i \in DOMAIN v.digits : v.digits[i] < v.base
    /\ \A o, l, r \in Names :
         /\ SumExact(reg[o], reg[l], reg[r], 1)
         /\ SumExact(reg[o], reg[l], reg[r], -1)
         /\ ProductExact(reg[o], reg[l], reg[r])
         /\ QuotientExact(reg[o], reg[l], reg[r])
    /\ \A l, r \in Names : OrderExact(reg[l], reg[r]) /\ ConversionExact(reg[l], reg[r])
    /\ NumeralsExact
    /\ FloatsExact

\* The digits of v that are kept, when the others are rounded as mode says.
Nearest(v, n, mode) ==
    LET d == v.base ^ (v.dec - n)
        m == Magnitude(v.digits, v.base)
        even == Digit(v, -n) % 2 = 0
        up == CASE m % d = 0 -> FALSE
                [] m % d # 0 /\ mode = "TOWARDS_ZERO" -> FALSE
                [] m % d # 0 /\ mode = "AWAY_FROM_ZERO" -> TRUE
                [] m % d # 0 /\ mode = "DOWNWARD" -> v.negative
                [] m % d # 0 /\ mode = "UPWARD" -> ~v.negative
                [] m % d # 0 /\ mode = "TO_NEAREST" -> 2 * (m % d) >= d
                [] m % d # 0 /\ mode = "TO_NEAREST_EVEN" ->
                     2 * (m % d) > d \/ (2 * (m % d) = d /\ ~even)
    IN ((m \div d + IF up THEN 1 ELSE 0) * d) % v.base ^ Count(v)
RoundsTo(v, n, mode) ==
    Magnitude(Round(v, n, mode).digits, v.base) = Nearest(v, n, mode)

\* BcdRounds: rounding in any mode gives the exact neighbour, looking at all
\* digits that are discarded, and a change of the precision keeps the value
\* unless it says that digits of the integer part are lost.  (To the nearest
\* of an odd radix only where one digit is discarded: the code looks at one.)
BcdRounds == \A o \in Names : \E v \in {reg[o]} : IsFinite(v) =>
    /\ \A n \in 0..(v.dec - 1), mode \in Modes :
         v.base % 2 = 0 \/ v.dec - n = 1 \/ mode \notin {"TO_NEAREST", "TO_NEAREST_EVEN"} =>
            RoundsTo(v, n, mode)
    /\ \A int \in 0..3, dec \in v.dec..3 :
         \E w \in {SetPrecision(v, int, dec, "TOWARDS_ZERO")} : w.overflow # Same(w.out, v)

-----------------------------------------------------------------------------
(* TFixedBCD (io_bcd.hpp): numbers with digits that are part of the        *)
(* object.  It repeats every operation of TBCD for operands of one         *)
(* configuration, and clears the sign of a zero where TBCD leaves it.      *)

FixedZero(conf) == conf @@ [digits |-> Zeros(conf.int + conf.dec), negative |-> FALSE,
                            periodic |-> FALSE, class |-> Finite]
FixedIsZero(f) == IsFinite(f) /\ \A i \in DOMAIN f.digits : f.digits[i] = 0
FixedSpecial(f, class, negative) == [FixedZero(Conf(f)) EXCEPT !.class = class, !.negative = negative]
FixedDigit(f, i) == At(f.digits, i + f.dec + 1)

\* The sign of a zero is not kept.
Normal(f, negative) == [f EXCEPT !.negative = negative /\ ~FixedIsZero(f)]

-----------------------------------------------------------------------------
(* Conversion *)

FixedConvertInteger(conf, k) ==
    LET d == BuildIntegerDigits(IF k < 0 THEN -k ELSE k, conf.base)
    IN Normal([FixedZero(conf) EXCEPT !.digits =
                  [i \in DOMAIN @ |-> IF i <= conf.dec THEN 0 ELSE At(d, i - conf.dec)]], k < 0)

AssignSameBase(conf, v) ==
    IF v.class = NaN THEN FixedSpecial(conf, NaN, FALSE)
    ELSE IF v.class = Infinite THEN FixedSpecial(conf, Infinite, IsNegative(v))
    ELSE Normal([FixedZero(conf) EXCEPT
                    !.digits = [i \in DOMAIN @ |-> Digit(v, i - 1 - conf.dec)],
                    !.periodic = v.periodic /\ Conf(v) = conf], IsNegative(v))
AssignDynamic(conf, v) ==
    IF v.base = conf.base \/ ~IsFinite(v) THEN AssignSameBase(conf, v)
    ELSE AssignSameBase(conf, ConvertBCD(Zero(conf), v))

ToBCD(f) ==
    IF f.class = NaN THEN SetNaN(Zero(Conf(f)))
    ELSE IF f.class = Infinite THEN SetInfinity(Zero(Conf(f)), f.negative)
    ELSE [Write(Zero(Conf(f)), LAMBDA i : FixedDigit(f, i)) EXCEPT
             !.negative = f.negative, !.periodic = f.periodic]

AssignFixed(conf, f) ==
    IF f.base = conf.base /\ IsFinite(f)
    THEN Normal([FixedZero(conf) EXCEPT
                    !.digits = [i \in DOMAIN @ |-> FixedDigit(f, i - 1 - conf.dec)],
                    !.periodic = f.periodic /\ Conf(f) = conf], IsNegative(f))
    ELSE AssignDynamic(conf, ToBCD(f))

TryToInteger(f, signed) ==
    LET int == SubSeq(f.digits, f.dec + 1, Count(f))
        c == Collect(Reverse(int), 0, f.base, Limit(signed, IsNegative(f)))
    IN IF \/ ~IsFinite(f)
          \/ \E i \in 1..f.dec : f.digits[i] # 0
          \/ ~signed /\ IsNegative(f)
          \/ ~c.ok
       THEN NoNumber
       ELSE [ok |-> TRUE, value |-> IF IsNegative(f) THEN -c.value ELSE c.value]

-----------------------------------------------------------------------------
(* Operators of one type *)

FixedMagnitude(f) == IF FixedIsZero(f) THEN <<>> ELSE TrimDigits(f.digits)
AssignMagnitude(out, d, negative) ==
    Normal([FixedZero(Conf(out)) EXCEPT !.digits = [i \in DOMAIN @ |-> At(d, i)]], negative)

FixedCompareMagnitude(l, r) ==
    LET Differ == {i \in DOMAIN l.digits : l.digits[i] # r.digits[i]} IN
    IF Differ = {} THEN 0 ELSE IF l.digits[Max(Differ)] < r.digits[Max(Differ)] THEN -1 ELSE 1

FixedAbsAdd(out, l, r) ==
    LET n == Count(out)
        carry[i \in 0..n] ==
            IF i = 0 THEN 0 ELSE (l.digits[i] + r.digits[i] + carry[i - 1]) \div out.base
    IN [out |-> [out EXCEPT !.digits =
                    [i \in 1..n |-> (l.digits[i] + r.digits[i] + carry[i - 1]) % out.base]],
        overflow |-> carry[n] # 0]
FixedAbsSub(out, l, r) ==
    LET borrow[i \in 0..Count(out)] ==
            IF i > 0 /\ l.digits[i] - r.digits[i] - borrow[i - 1] < 0 THEN 1 ELSE 0
    IN [out |-> [out EXCEPT !.digits =
                    [i \in DOMAIN @ |-> (l.digits[i] - r.digits[i] - borrow[i - 1]) % out.base]],
        overflow |-> FALSE]

FixedReady(out) ==
    IF IsFinite(out) THEN [out EXCEPT !.periodic = FALSE] ELSE FixedZero(Conf(out))
FixedSigned(result, negative) == [result EXCEPT !.out = Normal(@, negative)]

FixedAdd(out0, l, r) ==
    LET out == FixedReady(out0)
        lneg == l.negative /\ ~FixedIsZero(l)
        rneg == r.negative /\ ~FixedIsZero(r)
        cmp == FixedCompareMagnitude(l, r)
    IN CASE \/ l.class = NaN \/ r.class = NaN
            \/ (l.class = Infinite /\ r.class = Infinite /\ l.negative # r.negative) ->
              Special(FixedSpecial(out, NaN, FALSE))
         [] IsFinite(l) /\ IsFinite(r) ->
              IF lneg = rneg THEN FixedSigned(FixedAbsAdd(out, l, r), lneg)
              ELSE IF cmp = 0 THEN Special(FixedZero(Conf(out)))
              ELSE IF cmp > 0 THEN FixedSigned(FixedAbsSub(out, l, r), lneg)
              ELSE FixedSigned(FixedAbsSub(out, r, l), rneg)
         [] OTHER -> Special(FixedSpecial(out, Infinite,
                         IF l.class = Infinite THEN l.negative ELSE r.negative))

\* For the run that checks the properties: the sign of the output is turned,
\* which may be an operand.
FixedSubtract_TurnsResult(out, l, r) ==
    [FixedAdd(out, l, r) EXCEPT !.out.negative = ~@]
\* A copy of the second operand changes its sign.
FixedSubtract(out, l, r) ==
    FixedAdd(out, l, IF r.class = NaN THEN r ELSE [r EXCEPT !.negative = ~@])

FixedMultiply(out, l, r) ==
    LET product == MultiplyDigits(FixedMagnitude(l), FixedMagnitude(r), out.base)
    IN CASE \/ l.class = NaN \/ r.class = NaN
            \/ (l.class = Infinite /\ FixedIsZero(r)) \/ (r.class = Infinite /\ FixedIsZero(l)) ->
              FixedSpecial(out, NaN, FALSE)
         [] IsFinite(l) /\ IsFinite(r) ->
              AssignMagnitude(out, DivideDigitsPower(product, out.base, out.base, out.dec),
                              l.negative # r.negative /\ ~IsDigitsZero(product))
         [] OTHER -> FixedSpecial(out, Infinite, IsNegative(l) # IsNegative(r))

FixedDivide(out, l, r) ==
    LET none == FixedSpecial(out, NaN, FALSE)
        negative == IsNegative(l) # IsNegative(r)
        numerator == ShiftDigitsLeft(FixedMagnitude(l), 2 * out.dec)
        denominator == ShiftDigitsLeft(FixedMagnitude(r), out.dec)
        d == DivideDigits(numerator, denominator, out.base)
        rest == DivideDigitsPower(d.remainder, out.base, out.base, 2 * out.dec)
    IN CASE l.class = NaN \/ r.class = NaN \/ (l.class = Infinite /\ r.class = Infinite) ->
              [out |-> none, remainder |-> none]
         [] IsFinite(l) /\ r.class = Infinite ->
              [out |-> FixedZero(Conf(out)),
               remainder |-> FixedAdd(FixedZero(Conf(out)), l, FixedZero(Conf(out))).out]
         [] l.class = Infinite /\ IsFinite(r) ->
              [out |-> FixedSpecial(out, Infinite, negative), remainder |-> none]
         [] IsFinite(l) /\ FixedIsZero(r) ->
              [out |-> IF FixedIsZero(l) THEN none ELSE FixedSpecial(out, Infinite, negative),
               remainder |-> none]
         [] OTHER ->
              [out |-> [AssignMagnitude(out, d.quotient,
                                        negative /\ ~IsDigitsZero(d.quotient)) EXCEPT
                           !.periodic = /\ ~IsDigitsZero(d.remainder)
                                        /\ IsPeriodicFraction(numerator, denominator, out.base, out.base)],
               remainder |-> AssignMagnitude(out, rest, l.negative /\ ~IsDigitsZero(rest))]

FixedRound(f, n_decimal_max, mode) ==
    LET n == f.dec - n_decimal_max
        none == \A i \in 1..n : f.digits[i] = 0
        lower == \E i \in 1..(n - 1) : f.digits[i] # 0
        twice == 2 * f.digits[n]
        half == twice = f.base /\ ~lower
        up == CASE mode = "TOWARDS_ZERO"   -> FALSE
                [] mode = "AWAY_FROM_ZERO" -> TRUE
                [] mode = "DOWNWARD"       -> f.negative
                [] mode = "UPWARD"         -> ~f.negative
                [] OTHER -> \/ twice > f.base
                            \/ twice = f.base /\ lower
                            \/ half /\ mode = "TO_NEAREST"
                            \/ half /\ FixedDigit(f, n - f.dec) % 2 = 1
        carry[i \in n..Count(f)] == IF i = n THEN IF up THEN 1 ELSE 0
                                    ELSE (f.digits[i] + carry[i - 1]) \div f.base
    IN IF ~IsFinite(f) \/ n_decimal_max >= f.dec \/ FixedIsZero(f) THEN f
       ELSE IF none THEN [f EXCEPT !.periodic = FALSE]
       ELSE [f EXCEPT !.periodic = FALSE, !.digits =
                [i \in DOMAIN @ |-> IF i <= n THEN 0 ELSE (@[i] + carry[i - 1]) % f.base]]

FixedCompare(l, r) ==
    LET lneg == l.negative /\ ~FixedIsZero(l)
        rneg == r.negative /\ ~FixedIsZero(r)
    IN CASE l.class = Infinite /\ r.class = Infinite ->
              IF l.negative = r.negative THEN 0 ELSE Sign(l.negative, 1)
         [] l.class = Infinite /\ IsFinite(r) -> Sign(l.negative, 1)
         [] IsFinite(l) /\ r.class = Infinite -> Sign(r.negative, -1)
         [] OTHER ->
              IF lneg # rneg THEN Sign(lneg, 1) ELSE Sign(lneg, FixedCompareMagnitude(l, r))

CompareIntegral(f, k) ==
    LET d == BuildIntegerDigits(IF k < 0 THEN -k ELSE k, f.base)
        lneg == f.negative /\ ~FixedIsZero(f)
        Right(i) == IF i >= 0 THEN At(d, i + 1) ELSE 0
        Differ == {i \in (-f.dec)..(Max({f.int, Len(d)}) - 1) : FixedDigit(f, i) # Right(i)}
    IN IF f.class = NaN THEN 2
       ELSE IF f.class = Infinite THEN Sign(f.negative, 1)
       ELSE IF lneg # (k < 0) THEN Sign(lneg, 1)
       ELSE IF Differ = {} THEN 0
       ELSE Sign(lneg, IF FixedDigit(f, Max(Differ)) < Right(Max(Differ)) THEN -1 ELSE 1)

-----------------------------------------------------------------------------
(* Property *)

\* The fixed value f is what the register v is; a zero of it has no sign.
Agree(f, v) == /\ Same(ToBCD(f), v) /\ f.periodic = v.periodic
               /\ f.class = NaN \/ FixedIsZero(f) => ~f.negative

\* FixedAgrees: a TFixedBCD gives, for every operation and for operands of any
\* history, the value, the overflow and the periodic mark that TBCD gives; its
\* comparison with an integer and its conversion to one are exact.  (What they
\* tell apart is the sign of a zero, that only TBCD keeps: of the infinity that
\* a division by it gives.)
FixedAgrees == \A o, l, r \in Names : \E conf \in {Conf(reg[o])} :
    \E out \in {AssignDynamic(conf, reg[o])}, f \in {AssignDynamic(conf, reg[l])}, g \in {AssignDynamic(conf, reg[r])} :
       /\ Same(ToBCD(AssignFixed(conf, AssignDynamic(Conf(reg[l]), reg[l]))), ToBCD(f))
       /\ \A k \in Literals : IsFinite(f) =>
            /\ CompareIntegral(f, k) = Signum(Num(f) - k * Den(f))
            /\ Same(ToBCD(FixedConvertInteger(conf, k)), ConvertInteger(Zero(conf), k))
       /\ \A signed \in BOOLEAN : \E i \in {TryToInteger(f, signed)} :
            /\ i.ok => i.value * Den(f) = Num(f)
            /\ ~i.ok /\ IsFinite(f) =>
                 \/ Abs(Num(f)) % Den(f) # 0
                 \/ ~signed /\ f.negative
                 \/ Abs(Num(f)) > Limit(signed, f.negative) * Den(f)
       /\ Conf(reg[l]) = conf /\ Conf(reg[r]) = conf =>
            /\ \E s \in {FixedAdd(out, f, g)}, t \in {Add(reg[o], reg[l], reg[r])} :
                 Agree(s.out, t.out) /\ s.overflow = t.overflow
            /\ \E s \in {FixedSubtract(out, f, g)}, t \in {Subtract(reg[o], reg[l], reg[r])} :
                 Agree(s.out, t.out) /\ s.overflow = t.overflow
            /\ Agree(FixedMultiply(out, f, g), Multiply(reg[o], reg[l], reg[r]))
            /\ \E s \in {FixedDivide(out, f, g)}, t \in {Divide(reg[o], reg[l], reg[r])} :
                 /\ Same(ToBCD(s.remainder), t.remainder)
                 /\ Agree(s.out, t.out) \/ (IsZero(reg[r]) /\ s.out.class = t.out.class)
            /\ f.class # NaN /\ g.class # NaN => FixedCompare(f, g) = Compare(reg[l], reg[r], FALSE)
            /\ \A n \in 0..conf.dec, mode \in Modes :
                 Same(ToBCD(FixedRound(f, n, mode)), Round(reg[l], n, mode))
=============================================================================
