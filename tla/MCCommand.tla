----------------------------- MODULE MCCommand -----------------------------
(***************************************************************************)
(* The program with three rules of two classes, and shield.yaml files that *)
(* vary the defaults, one rule before another, an exemption and what       *)
(* Validate refuses.                                                       *)
(***************************************************************************)
EXTENDS Command

MCRules == {[class |-> "a", confidence |-> 0], [class |-> "a", confidence |-> 80],
            [class |-> "b", confidence |-> 90]}

Rule(classes, action, minConf) == [classes |-> classes, action |-> action, minConf |-> minConf]

RuleLists ==
  {<<>>} \cup {<<Rule({"a"}, action, 80), Rule({"a", "b"}, other, 0)>> :
                 action, other \in {"block", "mask", "log_only"}}
         \cup {<<Rule({"a"}, "warn", 0)>>}

MCYamls ==
  [default : {"unset", "block", "mask", "log_only"}, onError : {"unset", "closed", "open"},
   rules : RuleLists, exemptions : {{}, {<<"a", "x">>}}, upstreams : {TRUE}]
  \cup {[default |-> "unset", onError |-> "never", rules |-> <<>>, exemptions |-> {},
         upstreams |-> TRUE],
        [default |-> "unset", onError |-> "open", rules |-> <<>>, exemptions |-> {},
         upstreams |-> FALSE]}

MCOptions == {[minPrecision |-> 80, minRecall |-> 80], [minPrecision |-> 80, minRecall |-> 0]}
=============================================================================
