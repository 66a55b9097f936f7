------------------------------ MODULE Arithmetic ------------------------------
(* Recursive functions of numbers.                                          *)
EXTENDS Integers

(* z, then m times: times d, plus the next of a[1], ..., a[m].               *)
Horner(z, d, a, m) ==
  LET H[n \in 0..m] == IF n = 0 THEN z ELSE d * H[n - 1] + a[n]
  IN  H[m]

(* a[1] + ... + a[m].                                                       *)
SumTo(a, m) == Horner(0, 1, a, m)

(* The number whose decimal digits are a[1], ..., a[m].                      *)
Decimal(a, m) == Horner(0, 10, a, m)

(* Ten to the power m.                                                      *)
Power10(m) == Horner(1, 10, [n \in 1..m |-> 0], m)
===============================================================================
