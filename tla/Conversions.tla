----------------------------- MODULE Conversions ----------------------------
(***************************************************************************)
(* Amounts and addresses as a client may type them, and what to_units,     *)
(* to_human, is_valid and from_payload make of them. The client fills in a *)
(* form: an amount, character by character, or the address of an account.  *)
(***************************************************************************)
EXTENDS Money, Address

CONSTANTS Chars, MaxLen, MaxDecimals

ASSUME ConversionsAssumption == Chars \subseteq Digit \cup {Dot, Other} /\ MaxDecimals \in Nat

VARIABLES draft, account

formVars == <<draft, account>>

NoAccount == <<>>

FormInit == draft = <<>> /\ account = NoAccount

Type(c) ==
  /\ account = NoAccount /\ Len(draft) < MaxLen
  /\ draft' = Append(draft, c)
  /\ UNCHANGED account

Choose(body) ==
  /\ draft = <<>> /\ account = NoAccount
  /\ account' = body
  /\ UNCHANGED draft

Clear == draft' = <<>> /\ account' = NoAccount

FormNext == (\E c \in Chars : Type(c)) \/ (\E body \in Accounts : Choose(body)) \/ Clear

FormSpec == FormInit /\ [][FormNext]_formVars

(* What becomes of an address when one character is replaced, added or     *)
(* dropped.                                                                *)
Replaced(address, i, c) == [address EXCEPT ![i] = c]
Added(address, i, c)    == SubSeq(address, 1, i) \o <<c>> \o SubSeq(address, i + 1, Len(address))
Dropped(address, i)     == SubSeq(address, 1, i - 1) \o SubSeq(address, i + 1, Len(address))

Edits(address) ==
       {Replaced(address, i, c) : i \in 1..Len(address), c \in 0..NotBase58}
  \cup {Added(address, i, c) : i \in 0..Len(address), c \in 0..NotBase58}
  \cup {Dropped(address, i) : i \in 1..Len(address)}

-----------------------------------------------------------------------------
(* Nothing is rounded: an accepted text means the number its digits spell,  *)
(* shifted by the digits after the dot (to_units' "there is nothing to      *)
(* round"). Compared by cross-multiplication, without fractions.            *)
ParsesExactly ==
  \A decimals \in 0..MaxDecimals :
    Parses(draft, decimals) =>
      to_units(draft, decimals) * Power(10, Len(frac(draft))) =
        int(whole(draft) \o frac(draft)) * Power(10, decimals)

(* to_human undoes to_units: of an amount that to_units has read it writes  *)
(* a text that to_units reads back as the same amount, and no other text    *)
(* for it is shorter.                                                       *)
ShortestForm ==
  \A decimals \in 0..MaxDecimals :
    Parses(draft, decimals) =>
      LET units == to_units(draft, decimals)
          shown == to_human(units, decimals)
      IN  /\ Parses(shown, decimals)
          /\ to_units(shown, decimals) = units
          /\ Len(shown) <= Len(draft)

(* from_payload's addresses pass is_valid, whatever the account: the bounds *)
(* on the length leave none out, and _b58decode undoes _b58encode.          *)
AccountsHaveAddresses == account \in Accounts => is_valid(from_payload(account))

(* An account has one address. request_hash hashes the text, so a second    *)
(* text for the same account would make an honest retry a mismatch.         *)
OneAddress ==
  account \in Accounts =>
    \A address \in Edits(from_payload(account)) :
      is_valid(address) =>
        address = from_payload(SubSeq(b58decode(address), 2, BodyLen + 1))
=============================================================================
