------------------------------- MODULE Policy -------------------------------
(***************************************************************************)
(* Package policy: the class x destination -> action decision that every   *)
(* finding goes through (policy/evaluator.go), over a shield.yaml that has *)
(* been loaded and validated (policy/config.go).                           *)
(*                                                                         *)
(* A configuration is a record                                             *)
(*   default    : the action for a class no rule names                     *)
(*   rules      : a sequence of [classes, action, minConf]; classes is the *)
(*                set of classes the rule's globs match, minConf is 0 when *)
(*                the rule has no min_confidence                           *)
(*   exemptions : a set of <<class, destination>> pairs                    *)
(* Confidence is an integer percentage.                                    *)
(***************************************************************************)
EXTENDS Naturals, Sequences

Actions == {"block", "mask", "log_only"}

\* Validate refuses an action outside validActions, so toAction's fallback is
\* never taken on a loaded configuration.
ValidConfig(cfg) ==
  /\ cfg.default \in Actions
  /\ Len(cfg.rules) \in Nat /\ DOMAIN cfg.rules = 1..Len(cfg.rules)
  /\ \A i \in DOMAIN cfg.rules : cfg.rules[i].action \in Actions

RulesNaming(cfg, class) ==
  {i \in DOMAIN cfg.rules : class \in cfg.rules[i].classes}

\* The first rule that names the class decides; later ones are never read.
FirstRule(cfg, class) ==
  cfg.rules[CHOOSE i \in RulesNaming(cfg, class) :
              \A j \in RulesNaming(cfg, class) : i <= j]

\* Mutant: the default applies, whatever it is.
BelowThresholdDefault(cfg) == cfg.default

\* Below min_confidence the default action applies, except that a
\* low-confidence finding is never turned into a block.
BelowThreshold(cfg) ==
  IF cfg.default = "block" THEN "log_only" ELSE cfg.default

RuledAction(cfg, class, confidence) ==
  IF RulesNaming(cfg, class) = {} THEN cfg.default
  ELSE IF confidence < FirstRule(cfg, class).minConf THEN BelowThreshold(cfg)
  ELSE FirstRule(cfg, class).action

Exempted(cfg, class, destination) == <<class, destination>> \in cfg.exemptions

Evaluate(cfg, class, destination, confidence) ==
  [ action   |-> IF Exempted(cfg, class, destination) THEN "log_only"
                 ELSE RuledAction(cfg, class, confidence),
    exempted |-> Exempted(cfg, class, destination) ]
=============================================================================
