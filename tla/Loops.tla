------------------------------- MODULE Loops -------------------------------
(***************************************************************************)
(* A loop over the items of a sequence that carries a value from turn to   *)
(* turn: the sums and remainders of the validators, the line scanner and   *)
(* the token rewriting of the stream handler.                              *)
(***************************************************************************)
EXTENDS Naturals, Sequences

\* The value that a loop over t carries: it starts as start, and step[v][c] is
\* the next value when v is the one so far and c the character at hand.
Carried(step, start, t) ==
  LET value[i \in 0..Len(t)] == IF i = 0 THEN start ELSE step[value[i - 1]][t[i]]
  IN  value[Len(t)]
=============================================================================
