----------------------------- MODULE Validators -----------------------------
(***************************************************************************)
(* The checksum and table validators that confirm a regular-expression     *)
(* candidate (engine/validators.go): Luhn, the card issuer and length      *)
(* tables, and the IBAN country length and mod-97 checks.                  *)
(*                                                                         *)
(* The candidate grows one character at a time, so that every text over    *)
(* an alphabet is reached.   A character is a number: a digit is its       *)
(* value, a capital letter 10..35, a space 36, a hyphen 37 and a small     *)
(* letter its capital plus 28.                                             *)
(***************************************************************************)
EXTENDS Integers, Sequences, SequencesExt, Loops

CONSTANTS
  Alphabets,  \* sets of characters; a candidate is made of one of them
  MaxText,    \* bound: length of the candidate, for each alphabet
  MaxSpelled  \* bound: digits of the whole number (TLC's integers have 32 bits)

Digit == 0..9
Capital == 10..35
SpaceChar == 36
Hyphen == 37
Small == 38..63
Char == Digit \cup Capital \cup {SpaceChar, Hyphen} \cup Small

ASSUME ValidatorsAssumption ==
  Alphabets \subseteq SUBSET Char /\ MaxText \in [Alphabets -> Nat] /\ MaxSpelled \in Nat

VARIABLE text   \* the candidate

Init == text = <<>>

Next == \E alphabet \in Alphabets :
  /\ Len(text) < MaxText[alphabet]
  /\ \A i \in DOMAIN text : text[i] \in alphabet
  /\ \E c \in alphabet : text' = Append(text, c)

Spec == Init /\ [][Next]_text

-----------------------------------------------------------------------------
\* Cards.
digitsOnly(t) ==
  Carried([ds \in Seq(Digit) |-> [c \in Char |-> IF c \in Digit THEN Append(ds, c) ELSE ds]], <<>>, t)

Total(ns) == Carried([n \in Nat |-> [m \in Nat |-> n + m]], 0, ns)

Number(ds) == Carried([n \in Nat |-> [d \in Digit |-> 10 * n + d]], 0, ds)

\* Mutant: a doubled digit keeps its carry.
DoubledWithCarry(d) == 2 * d

Doubled(d) == IF 2 * d > 9 THEN 2 * d - 9 ELSE 2 * d

\* Every second digit from the right is doubled.
Summands(ds) ==
  [i \in 1..Len(ds) |-> IF (Len(ds) - i) % 2 = 1 THEN Doubled(ds[i]) ELSE ds[i]]

validLuhn(ds) == ds # <<>> /\ Total(Summands(ds)) % 10 = 0

hasPrefixNumberBetween(ds, width, low, high) ==
  Len(ds) >= width /\ Number(SubSeq(ds, 1, width)) \in low..high

Amex(ds) == IsPrefix(<<3, 4>>, ds) \/ IsPrefix(<<3, 7>>, ds)
Visa(ds) == IsPrefix(<<4>>, ds)
Mastercard(ds) ==
  hasPrefixNumberBetween(ds, 2, 51, 55) \/ hasPrefixNumberBetween(ds, 4, 2221, 2720)
Discover(ds) ==
  \/ IsPrefix(<<6, 0, 1, 1>>, ds) \/ IsPrefix(<<6, 5>>, ds)
  \/ hasPrefixNumberBetween(ds, 3, 644, 649)

validPANIssuer(ds) == Visa(ds) \/ Mastercard(ds) \/ Amex(ds) \/ Discover(ds)

\* Mutant: the length table leaves a network out.
validPANLengthLessDiscover(ds) ==
  \/ Amex(ds) /\ Len(ds) = 15
  \/ Visa(ds) /\ Len(ds) \in {13, 16, 19}
  \/ Mastercard(ds) /\ Len(ds) = 16

validPANLength(ds) ==
  \/ Amex(ds) /\ Len(ds) = 15
  \/ Visa(ds) /\ Len(ds) \in {13, 16, 19}
  \/ Mastercard(ds) /\ Len(ds) = 16
  \/ Discover(ds) /\ Len(ds) \in {16, 19}

-----------------------------------------------------------------------------
\* IBANs.
ToUpper(c) == IF c \in Small THEN c - 28 ELSE c

\* White space is left out, small letters become capitals.
Normal == Digit \cup Capital \cup {Hyphen}

normalizedIBAN(t) ==
  Carried([iban \in Seq(Normal) |-> [c \in Char |->
             IF c = SpaceChar THEN iban ELSE Append(iban, ToUpper(c))]], <<>>, t)

\* Mutant: the last check digit is lost.
RotatedShort(iban) == SubSeq(iban, 5, Len(iban)) \o SubSeq(iban, 1, 3)

Rotated(iban) == SubSeq(iban, 5, Len(iban)) \o SubSeq(iban, 1, 4)

\* Mutant: a letter takes one decimal place.
RemainderShort(cs) ==
  Carried([r \in 0..96 |-> [c \in Normal |-> (r * 10 + c) % 97]], 0, cs)

\* The remainder is carried from character to character.
Remainder(cs) ==
  Carried([r \in 0..96 |-> [c \in Normal |->
             (r * (IF c \in Digit THEN 10 ELSE 100) + c) % 97]], 0, cs)

\* The longest of the country lengths that validIBANCountryLength requires.
LongestIBAN == 32

validIBANMod97(t) ==
  LET iban == normalizedIBAN(t)
  IN  /\ Len(iban) >= 4
      /\ \A i \in DOMAIN iban : iban[i] \in Digit \cup Capital
      /\ Remainder(Rotated(iban)) = 1

-----------------------------------------------------------------------------
\* A network's prefix with enough digits after it, and the decimal digits a
\* text spells.
Fill(ds, n) == ds \o [i \in 1..(n - Len(ds)) |-> 0]

Spelled(cs) ==
  Carried([ds \in Seq(Digit) |-> [c \in Digit \cup Capital |->
             ds \o (IF c \in Digit THEN <<c>> ELSE <<c \div 10, c % 10>>)]], <<>>, cs)

Swap(s, i) == [s EXCEPT ![i] = s[i + 1], ![i + 1] = s[i]]

\* Luhn rejects a card number that differs from an accepted one by one wrong
\* digit, or by two exchanged neighbours other than 0 and 9.
LuhnCatchesSlips ==
  LET ds == digitsOnly(text)
  IN  validLuhn(ds) =>
        /\ \A i \in DOMAIN ds : \A d \in Digit \ {ds[i]} : ~validLuhn([ds EXCEPT ![i] = d])
        /\ \A i \in 1..(Len(ds) - 1) :
             ds[i] # ds[i + 1] /\ {ds[i], ds[i + 1]} # {0, 9} => ~validLuhn(Swap(ds, i))

\* The issuer and the length table list the same networks: a candidate must
\* pass both, so a network in only one of them would never be found.  Neither
\* looks at more than the first four digits and the length.
TablesAgree ==
  LET ds == digitsOnly(text)
      head == SubSeq(ds, 1, IF Len(ds) < 4 THEN Len(ds) ELSE 4)
      lengthTable == \E n \in 13..19 : validPANLength(Fill(head, n))
  IN  /\ lengthTable => validPANIssuer(Fill(head, 13))
      /\ validPANIssuer(ds) => lengthTable

\* The remainder carried by the loop is that of the whole number that the
\* rotated text spells (a letter spelling two digits).
RemainderIsOfWholeNumber ==
  LET iban == normalizedIBAN(text)
      ds == Spelled(Rotated(iban))
  IN  Len(iban) >= 4 /\ (\A i \in DOMAIN iban : iban[i] # Hyphen) /\ Len(ds) <= MaxSpelled
        => (validIBANMod97(text) <=> Number(ds) % 97 = 1)

\* A wrong digit, a wrong letter or two exchanged neighbours of one kind turn an
\* accepted IBAN into one that is rejected.  In a text three times as long as any
\* IBAN the fourth and the fifth character could be exchanged unnoticed: the
\* rotation parts them.
Kind(c) == IF c \in Digit THEN Digit ELSE Capital

IBANCatchesSlips ==
  LET iban == normalizedIBAN(text)
  IN  validIBANMod97(text) /\ Len(iban) <= LongestIBAN =>
        /\ \A i \in DOMAIN iban : \A c \in Kind(iban[i]) \ {iban[i]} :
             ~validIBANMod97([iban EXCEPT ![i] = c])
        /\ \A i \in 1..(Len(iban) - 1) :
             Kind(iban[i]) = Kind(iban[i + 1]) /\ iban[i] # iban[i + 1]
               => ~validIBANMod97(Swap(iban, i))
=============================================================================
