---------------------------- MODULE MCRules ---------------------------------
(***************************************************************************)
(* Small rule packs for StreamScan.  Upper and lower letters are one       *)
(* character each, "A" and "a", and fold together; "1" is the digit and    *)
(* "-" the separator.                                                      *)
(*   key   literal "Aa", \baa([1-]{1,2}) without case, group 1 is the value *)
(*   pan   digit,  \b1{1,3}\b, refused by its validator when one digit     *)
(*   ssn   digit,  \b11\b                                                  *)
(*   iban  iban,   \bAA11\b                                                *)
(***************************************************************************)
EXTENDS StreamScan

MCChar == {"A", "a", "1", "-"}
MCCharNoCase == {"a", "1", "-"}
MCUpper == {"A"} \cap Char
MCDigit == {"1"}
MCAlphaNum == {"A", "a", "1"} \cap Char
MCFold == [c \in Char |-> IF c = "A" THEN "a" ELSE c]

MCKind == [r \in Rules |-> CASE r = "key"  -> "literal"
                             [] r = "iban" -> "iban"
                             [] OTHER      -> "digit"]
MCKeywords == [r \in Rules |-> {IF "A" \in Char THEN <<"A", "a">> ELSE <<"a", "a">>}]
MCMaxLen == [r \in Rules |-> CASE r = "ssn" -> 2
                               [] r = "pan" -> 3
                               [] OTHER     -> 4]

\* \b between offsets i - 1 and i of window w.
IsWord(w, i) == i \in DOMAIN w /\ w[i] \in MCAlphaNum
Boundary(w, i) == IsWord(w, i - 1) # IsWord(w, i)

All(w, lo, hi, S) == \A i \in lo..hi : w[i] \in S

\* Offsets lo..hi of window w match the body of the rule's pattern.
Body(r, w, lo, hi) ==
  CASE r = "key"  -> /\ hi - lo \in 2..3
                     /\ All(w, lo, lo + 1, {"A", "a"})
                     /\ All(w, lo + 2, hi, {"1", "-"})
    [] r = "pan"  -> hi - lo \in 0..2 /\ All(w, lo, hi, {"1"})
    [] r = "ssn"  -> hi - lo = 1 /\ All(w, lo, hi, {"1"})
    [] r = "iban" -> /\ hi - lo = 3
                     /\ All(w, lo, lo + 1, {"A"}) /\ All(w, lo + 2, hi, {"1"})

\* Leftmost match, the longest at that place, with its capture group.
LeftmostLongest(S) ==
  {p \in S : \A q \in S : p[1] < q[1] \/ (p[1] = q[1] /\ p[2] >= q[2])}

Submatch(r, w) ==
  LET n == Len(w)
      spans == {p \in (1..n) \X (1..n) : /\ p[1] <= p[2]
                                         /\ Body(r, w, p[1], p[2])
                                         /\ Boundary(w, p[1])
                                         /\ r # "key" => Boundary(w, p[2] + 1)}
  IN  {[at |-> p[1], lo |-> IF r = "key" THEN p[1] + 2 ELSE p[1], hi |-> p[2]] :
         p \in LeftmostLongest(spans)}

MatchTable == [r \in Rules |-> [w \in Windows(r) |-> Submatch(r, w)]]

MCMatch(r, w) == MatchTable[r][w]
MCValid(r, value) == r = "pan" => Len(value) > 1
=============================================================================
