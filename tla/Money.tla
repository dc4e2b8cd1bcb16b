-------------------------------- MODULE Money -------------------------------
(***************************************************************************)
(* Decimal amounts (sluice/money.py). A text is a sequence of characters:  *)
(* the digits 0 to 9, Dot, and Other for everything else. The white space  *)
(* that to_units strips first is no part of it.                            *)
(***************************************************************************)
EXTENDS Numerals, FiniteSetsExt

CONSTANT MaxStrDigits   \* the longest text int() converts

ASSUME MoneyAssumption == MaxStrDigits \in Nat

Digit == 0..9
Dot   == 10
Other == 11

(* int(s): of the empty sequence it is 0, which is the code's "or '0'". *)
int(ds) == Value(ds, 10)

str(n) == IF n = 0 THEN <<0>> ELSE Digits(n, 10)

AllDigits(s) == s # <<>> /\ \A i \in DOMAIN s : s[i] \in Digit

Dots(text) == {i \in DOMAIN text : text[i] = Dot}

whole(text) ==
  IF Dots(text) = {} THEN text
  ELSE SubSeq(text, 1, (CHOOSE i \in Dots(text) : TRUE) - 1)

frac(text) == SubSeq(text, Len(whole(text)) + 2, Len(text))

(* _AMOUNT_RE: digits, and then perhaps one dot and more digits. *)
AMOUNT_RE(text) ==
  /\ AllDigits(whole(text))
  /\ Len(whole(text)) < Len(text) => AllDigits(frac(text))

(* AmountError is raised. *)
Refused(text, decimals) == ~AMOUNT_RE(text) \/ Len(frac(text)) > decimals

(* int() raises, of the whole part or of the padded fraction: a ValueError *)
(* that is no AmountError.                                                 *)
TooLong(text, decimals) == Len(whole(text)) > MaxStrDigits \/ decimals > MaxStrDigits

(* to_units returns. *)
Parses(text, decimals) == ~Refused(text, decimals) /\ ~TooLong(text, decimals)

(* Mutant: the fraction is not padded. *)
to_units_NoPad(text, decimals) == int(whole(text)) * Power(10, decimals) + int(frac(text))

to_units(text, decimals) ==
  int(whole(text)) * Power(10, decimals)
    + int(frac(text) \o zeros(decimals - Len(frac(text))))

rstrip(ds) == SubSeq(ds, 1, Max({0} \cup {i \in DOMAIN ds : ds[i] # 0}))

(* Mutant: the zeros after the dot are forgotten. *)
to_human_NoPad(units, decimals) ==
  LET w == units \div Power(10, decimals)
      f == units % Power(10, decimals)
  IN  IF f = 0 THEN str(w) ELSE str(w) \o <<Dot>> \o rstrip(str(f))

to_human(units, decimals) ==
  LET w == units \div Power(10, decimals)
      f == units % Power(10, decimals)
  IN  IF f = 0 THEN str(w)
      ELSE str(w) \o <<Dot>> \o rstrip(zeros(decimals - Len(str(f))) \o str(f))
=============================================================================
