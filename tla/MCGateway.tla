----------------------------- MODULE MCGateway -----------------------------
(***************************************************************************)
(* Gateway with a policy that blocks secrets, masks card numbers and       *)
(* exempts notes for the one destination.                                  *)
(***************************************************************************)
EXTENDS Gateway

F(class) == [class |-> class, conf |-> 100]
MCFindings == {F("secret"), F("pan"), F("note")}
TwoFindings == {F("secret"), F("pan")}

MCConfig ==
  [ default    |-> "log_only",
    rules      |-> << [classes |-> {"secret"}, action |-> "block", minConf |-> 0],
                      [classes |-> {"pan", "note"}, action |-> "mask", minConf |-> 80] >>,
    exemptions |-> {<<"note", "dest">>} ]
=============================================================================
