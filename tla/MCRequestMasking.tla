-------------------------- MODULE MCRequestMasking --------------------------
(***************************************************************************)
(* RequestMasking on short strings of every kind of character.             *)
(***************************************************************************)
EXTENDS RequestMasking

Kind(r, t, e) == [raw |-> r, text |-> t, escape |-> e]

\* A letter, a two-byte rune, \n, \u00e9 and an invalid byte.
MCChars == {Kind(1, 1, FALSE), Kind(2, 2, FALSE), Kind(2, 1, TRUE),
            Kind(6, 2, TRUE), Kind(1, 3, FALSE)}
=============================================================================
