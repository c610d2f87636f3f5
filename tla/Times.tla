--------------------------------- MODULE Times ---------------------------------
(***************************************************************************)
(* system_time: TTime, seconds and a fraction, whose signs agree, with its *)
(* arithmetic of 64 bit and the conversion from and to units.              *)
(*                                                                         *)
(* A second has Base^Units fractions instead of 1000^6.  Floating point is *)
(* left out, and so is the time a program reads from a clock.              *)
(***************************************************************************)
EXTENDS Integers

CONSTANTS Base, Units,  \* fractions of a second: Base^Units; unit k is Base^-k seconds
          IntMax,       \* the largest integer
          Seconds,      \* bound: times
          Factors       \* integers a time is multiplied with or divided by

VARIABLE time

N == Base^Units
Value(t) == t.sec * N + t.asec
Fits(x) == -IntMax <= x /\ x <= IntMax
\* External: / and % of C++.
Quotient(a, b) == LET q == (IF a < 0 THEN -a ELSE a) \div (IF b < 0 THEN -b ELSE b) IN IF (a < 0) = (b < 0) THEN q ELSE -q
Remainder(a, b) == a - b * Quotient(a, b)

-----------------------------------------------------------------------------
(* TTime *)

Carried(sec, asec) ==
    LET f == Quotient(asec, N) IN
    IF asec <= -N \/ asec >= N THEN [sec |-> sec + f, asec |-> asec - f * N] ELSE [sec |-> sec, asec |-> asec]
\* Normalize()
Normalize_CarryOnly(sec, asec) == Carried(sec, asec)
Normalize(sec, asec) ==
    LET t == Carried(sec, asec) IN
    CASE t.asec < 0 /\ t.sec > 0 -> [sec |-> t.sec - 1, asec |-> t.asec + N]
      [] t.asec > 0 /\ t.sec < 0 -> [sec |-> t.sec + 1, asec |-> t.asec - N]
      [] OTHER -> t

Plus(t, op) == Normalize(t.sec + op.sec, t.asec + op.asec)
Minus(t, op) == Normalize(t.sec - op.sec, t.asec - op.asec)
By(t, f) == Normalize(t.sec * f, t.asec * f)
\* The rest of the seconds goes to the fractions, in 64 bit.
Rest(t, f) == t.asec + Remainder(t.sec, f) * N
Over(t, f) == Normalize(Quotient(t.sec, f), Quotient(Rest(t, f), f))
Less(t, op) == t.sec < op.sec \/ (t.sec = op.sec /\ t.asec < op.asec)
LessOrEqual(t, op) == t.sec < op.sec \/ (t.sec = op.sec /\ t.asec <= op.asec)

\* ConvertToI() and ConvertFrom(), of fractions of a second and of whole seconds.
ConvertToI(k, t) == t.sec * Base^k + Quotient(t.asec, Base^(Units - k))
ConvertFrom(k, value) ==
    LET sec == Quotient(value, Base^k) IN Normalize(sec, (value - sec * Base^k) * Base^(Units - k))
ConvertToSeconds(unit, t) == Quotient(t.sec, unit)
ConvertFromSeconds(unit, value) == Normalize(value * unit, 0)

-----------------------------------------------------------------------------
Samples == {ConvertFrom(Units, v) : v \in {-2 * N, -N - 1, -1, 0, 1, N - 1, N, N + 1}}
Bounded(t) == t.sec \in Seconds /\ time' = t
Next == \/ \E op \in Samples : Bounded(Plus(time, op)) \/ Bounded(Minus(time, op))
        \/ \E f \in Factors : \/ Fits(time.asec * f) /\ Bounded(By(time, f))
                              \/ Fits(Rest(time, f)) /\ Bounded(Over(time, f))
Init == time = [sec |-> 0, asec |-> 0]

-----------------------------------------------------------------------------
(* Properties *)

\* The signs agree and the fraction is one, so that comparing by parts compares.
Normal(t) == /\ -N < t.asec /\ t.asec < N
             /\ t.sec > 0 => t.asec >= 0
             /\ t.sec < 0 => t.asec <= 0
Compares == \A op \in Samples : /\ Less(time, op) <=> Value(time) < Value(op)
                                /\ LessOrEqual(time, op) <=> Value(time) <= Value(op)
\* Exact, where no intermediate result is more than an integer holds; a quotient
\* is cut towards zero.
Computes ==
    /\ \A op \in Samples : /\ Value(Plus(time, op)) = Value(time) + Value(op)
                           /\ Value(Minus(time, op)) = Value(time) - Value(op)
    /\ \A f \in Factors : /\ Fits(time.asec * f) => Value(By(time, f)) = Value(time) * f
                          /\ Fits(Rest(time, f)) => Value(Over(time, f)) = Quotient(Value(time), f)
Converts ==
    /\ \A k \in 0..Units : \A v \in {ConvertToI(k, time)} :
          /\ v = Quotient(Value(time), Base^(Units - k))
          /\ Value(ConvertFrom(k, v)) = v * Base^(Units - k) /\ Normal(ConvertFrom(k, v))
    /\ \A unit \in {1, 2, 3} : ConvertToSeconds(unit, ConvertFromSeconds(unit, time.sec)) = time.sec
TimesExact == Normal(time) /\ Compares /\ Computes /\ Converts
=============================================================================
