---------------------------- MODULE MCStreamGate ----------------------------
(***************************************************************************)
(* The rule packs of MCStreamScan under small policies.                    *)
(***************************************************************************)
EXTENDS StreamGate, MCRules

MCClassOf == [r \in Rules |-> r]
MCConfidence == [r \in Rules |-> IF r = "ssn" THEN 50 ELSE 100]

\* Secrets are blocked, card numbers masked, the rest (also the low-confidence
\* ssn, below its threshold) only logged.
BlockAndMask ==
  [ default    |-> "log_only",
    rules      |-> << [classes |-> {"ssn"}, action |-> "block", minConf |-> 80],
                      [classes |-> {"key"}, action |-> "block", minConf |-> 0],
                      [classes |-> {"pan", "iban"}, action |-> "mask", minConf |-> 0] >>,
    exemptions |-> {} ]
=============================================================================
