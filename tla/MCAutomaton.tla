---------------------------- MODULE MCAutomaton ----------------------------
(***************************************************************************)
(* Every set of up to three keywords over two bytes.                       *)
(***************************************************************************)
EXTENDS Automaton
=============================================================================
