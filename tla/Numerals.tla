------------------------------- MODULE Numerals -----------------------------
(***************************************************************************)
(* Python's integers written in a base, as sequences of digits with the    *)
(* most significant first: int(), int.from_bytes() and the loop of         *)
(* _b58decode one way, str(), int.to_bytes() and the loop of _b58encode    *)
(* the other.                                                              *)
(***************************************************************************)
EXTENDS Integers, Sequences

zeros(n) == [i \in 1..n |-> 0]

(* The number that ds spells; of no digits it is 0. *)
Value(ds, base) ==
  LET v[n \in 0..Len(ds)] == IF n = 0 THEN 0 ELSE base * v[n - 1] + ds[n]
  IN  v[Len(ds)]

(* base ** n is written as a one and n zeros. *)
Power(base, n) == Value(<<1>> \o zeros(n), base)

(* The digits of n without leading zeros: for 0 there are none. *)
Digits(n, base) ==
  LET d[m \in Nat] == IF m = 0 THEN <<>> ELSE Append(d[m \div base], m % base)
  IN  d[n]
=============================================================================
