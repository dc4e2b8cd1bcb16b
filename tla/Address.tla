------------------------------- MODULE Address ------------------------------
(***************************************************************************)
(* Base58check addresses (sluice/tron/address.py). A text is a sequence of *)
(* character indices 0 to 57, or NotBase58 for one that is not in the      *)
(* alphabet; "1" has index 0. The lengths are constants: the code's are 20 *)
(* and 4 bytes in 30 to 40 characters.                                     *)
(***************************************************************************)
EXTENDS Numerals

CONSTANTS
  BodyLen, CheckLen, Version, MinChars, MaxChars,
  checksum(_)  \* the head of the double SHA-256: any function will do

NotBase58 == 58

Accounts == [1..BodyLen -> 0..255]

ASSUME AddressAssumption ==
  /\ BodyLen \in Nat /\ CheckLen \in Nat /\ Version \in 1..255
  /\ MinChars \in Nat /\ MaxChars \in Nat
  /\ \A body \in Accounts : checksum(<<Version>> \o body) \in [1..CheckLen -> 0..255]

to_bytes(n) == Digits(n, 256)
digits58(n) == Digits(n, 58)

(* What lstrip takes away; "1" and the zero byte are both 0. *)
Leading(ds) ==
  zeros(CHOOSE n \in 0..Len(ds) : /\ \A i \in 1..n : ds[i] = 0
                                  /\ n < Len(ds) => ds[n + 1] # 0)

(* Mutant: leading "1"s are not counted. *)
b58decode_NoPad(s) == to_bytes(Value(s, 58))

b58decode(s) == Leading(s) \o to_bytes(Value(s, 58))

(* Mutant: the digits are not reversed. *)
b58encode_Unreversed(raw) ==
  LET out == digits58(Value(raw, 256)) IN
  Leading(raw) \o [i \in DOMAIN out |-> out[Len(out) + 1 - i]]

b58encode(raw) == Leading(raw) \o digits58(Value(raw, 256))

payload_of(raw) == SubSeq(raw, 1, BodyLen + 1)

is_valid(address) ==
  /\ Len(address) \in MinChars..MaxChars
  /\ \A i \in DOMAIN address : address[i] # NotBase58
  /\ LET raw == b58decode(address) IN
     /\ Len(raw) = 1 + BodyLen + CheckLen
     /\ raw[1] = Version
     /\ checksum(payload_of(raw)) = SubSeq(raw, BodyLen + 2, Len(raw))

from_payload(body) ==
  LET payload == <<Version>> \o body IN b58encode(payload \o checksum(payload))

(* The bounds on the length leave room for every account. *)
AddressesFit ==
  /\ Power(58, MinChars - 1) <= Version * Power(256, BodyLen + CheckLen)
  /\ (Version + 1) * Power(256, BodyLen + CheckLen) <= Power(58, MaxChars)
=============================================================================
