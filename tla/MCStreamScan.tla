---------------------------- MODULE MCStreamScan ----------------------------
(***************************************************************************)
(* StreamScan on its own with the rule packs of MCRules.                   *)
(***************************************************************************)
EXTENDS MCRules
=============================================================================
