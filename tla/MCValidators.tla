---------------------------- MODULE MCValidators ----------------------------
(***************************************************************************)
(* Validators over small alphabets: all digits for cards, a digit and      *)
(* letter mix with spaces and small letters for IBANs.                     *)
(***************************************************************************)
EXTENDS Validators

CardAlphabet == Digit \cup {Hyphen}

\* 0, 1, 9, A, Z, a space, a hyphen and z.
IBANAlphabet == {0, 1, 9, 10, 35, SpaceChar, Hyphen, 63}
MCAlphabets == {CardAlphabet, IBANAlphabet}
MCMaxText == [a \in MCAlphabets |-> IF a = CardAlphabet THEN 4 ELSE 5]
=============================================================================
