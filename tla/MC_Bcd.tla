------------------------------ MODULE MC_Bcd ------------------------------
(* The registers for TLC: two radices, one of them odd, few digits. *)
EXTENDS Bcd

Conf3(base, int, dec) == [base |-> base, int |-> int, dec |-> dec]
Float(s, e, negative, class) == [significand |-> s, exponent |-> e, negative |-> negative, class |-> class]

MC_Configurations == {Conf3(3, 0, 1), Conf3(2, 1, 2)}
MC_Literals == {-2, 0, 5}
MC_Floats == {Float(1, -1, FALSE, Finite), Float(3, -2, TRUE, Finite), Float(5, 0, FALSE, Finite),
              Float(0, 0, TRUE, Infinite), Float(0, 0, FALSE, NaN)}
MC_Texts == {<<1>>, <<Minus, 0>>, <<Point, 1, 2>>, <<Minus, 1, 0, Point, 1>>, <<Plus, 1, 1, 1>>,
             <<Minus, 1, 0, 0>>, <<Minus, 1, 0, 0, 1>>, <<7>>, <<8>>, <<Minus, 8>>, <<1, 5>>, <<1, 6>>,
             <<Minus, Point, 2, 1>>}
=============================================================================
