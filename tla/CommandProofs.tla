---------------------------- MODULE CommandProofs ----------------------------
(***************************************************************************)
(* The five invariants of Command, for every set of rules, classes and     *)
(* shield.yaml files, and corpora and directories of any size.             *)
(*                                                                         *)
(* The inductive invariant has one part per command, over a first part     *)
(* that says which command is at which place.  serve: the configuration is *)
(* one that LoadConfig accepts, and from the gateway on, having no rules   *)
(* means not requiring them.  scan: the results describe the files walked. *)
(* eval: the counts of a class are those of four sets of scored entries,   *)
(* which split what fires and what is positive.                            *)
(***************************************************************************)
EXTENDS Command, LoopProofs, FiniteSetTheorems

\* FirstRule is the rule with the least index among those that name the class.
LEMMA FirstRuleIsFirst ==
  ASSUME NEW cfg, NEW class, ValidConfig(cfg), RulesNaming(cfg, class) # {}
  PROVE  \E i \in RulesNaming(cfg, class) :
            /\ FirstRule(cfg, class) = cfg.rules[i]
            /\ \A j \in RulesNaming(cfg, class) : i <= j
<1> DEFINE S == RulesNaming(cfg, class)
           least == CHOOSE i \in S : \A j \in S : i <= j
<1>1. S \in SUBSET Nat
  BY DEF RulesNaming, ValidConfig
<1>2. \E i \in S : \A j \in S : i <= j
  BY <1>1, LeastIndex
<1>3. least \in S /\ \A j \in S : least <= j
  BY <1>2
<1> QED BY <1>3 DEF FirstRule

Configs == {NoConfig} \cup {Loaded(y) : y \in {y \in Yamls : Validate(y)}}

\* Which command is at which place.
Routed ==
  /\ stage \in {"config", "ledger", "gateway", "serving"} => command = "serve"
  /\ stage = "scan" => command = "scan"
  /\ stage = "rules" => command \in {"serve", "scan", "run", "render"}
  /\ stage \in {"corpus", "evaluate"} => command \in {"run", "render"}
  /\ stage = "parse" => command = "none"

\* serve: the configuration is validated, and without rules it only logs.
ServeInv ==
  /\ config \in Configs
  /\ stage \in {"gateway", "serving"} /\ rules = {} => ~RequiresRules(config)

\* scan: what was walked is what is in the results, until the exit.
ScanInv ==
  /\ walked \in Seq({"unreadable", "clean", "dirty"}) /\ results \in Seq(BOOLEAN)
  /\ stage # "exited" =>
       /\ Len(results) = Len(walked)
       /\ \A i \in 1..Len(walked) : walked[i] = IF results[i] THEN "dirty" ELSE "clean"
  /\ CleanScanReadEverything

\* eval: the four kinds of entries for a class, which the counts count.
TP(c) == {s \in scored : s.entry = [class |-> c, expect |-> TRUE] /\ c \in s.fired}
FN(c) == {s \in scored : s.entry = [class |-> c, expect |-> TRUE] /\ c \notin s.fired}
TN(c) == {s \in scored : s.entry = [class |-> c, expect |-> FALSE] /\ c \notin s.fired}
FP(c) == {s \in scored : s.entry # [class |-> c, expect |-> TRUE] /\ c \in s.fired}

ScoredTypes ==
  /\ IsFiniteSet(scored)
  /\ scored \subseteq [entry : Entries, fired : SUBSET Classes, copy : Nat]
  /\ \A s \in scored : s.copy <= Cardinality(Alike(s.entry, s.fired))

MetricTypes ==
  /\ metrics = [c \in DOMAIN metrics |-> metrics[c]] /\ DOMAIN metrics \subseteq Classes
  /\ \A c \in DOMAIN metrics : metrics[c] \in [tp : Nat, fp : Nat, fn : Nat, tn : Nat]

\* A class has counts when it labels an entry or has fired.
Measured ==
  /\ \A s \in scored : s.entry.class \in DOMAIN metrics /\ s.fired \subseteq DOMAIN metrics
  /\ \A c \in Classes :
       LET m == MetricFor(metrics, c)
       IN  /\ m.tp = Cardinality(TP(c)) /\ m.fp = Cardinality(FP(c))
           /\ m.fn = Cardinality(FN(c)) /\ m.tn = Cardinality(TN(c))

EvalInv ==
  /\ rules \subseteq Rules /\ options \in Options
  /\ ScoredTypes /\ MetricTypes /\ Measured
  /\ PassMeansMeasured

CommandInv == Routed /\ ServeInv /\ ScanInv /\ EvalInv

-----------------------------------------------------------------------------
\* The steps of the three commands that leave the evaluation alone.
Elsewhere ==
  Parse \/ LoadConfig \/ OpenLedger \/ NewGateway \/ ListenFails \/ Signal
  \/ ScanFile \/ Report \/ LoadCorpus

LEMMA StepKinds == Next <=> Elsewhere \/ LoadRules \/ EvaluateEntry \/ Judge
  BY DEF Next, Elsewhere, Serve, Scan, Eval

\* What loadRules and loadRulesForConfig can end in.
LEMMA RulesLoaded ==
  ASSUME LoadRules
  PROVE  /\ stage = "rules"
         /\ UNCHANGED <<command, options, config, walked, results, scored, metrics>>
         /\ \/ rules' \in SUBSET Rules /\ rules' # {} /\ stage' = AfterRules
            \/ rules' = rules /\ stage' = "exited" /\ exit' # 0
            \/ /\ rules' = rules /\ stage' = AfterRules
               /\ command = "serve" /\ ~RequiresRules(config)
<1>1. CASE rules' \in (SUBSET Rules) \ {{}} /\ Goto(AfterRules)
  BY <1>1 DEF LoadRules, At, Goto
<1>2. CASE rules' = rules /\ command # "serve" /\ Exit(Error)
  BY <1>2 DEF LoadRules, At, Exit, Error
<1>3. CASE rules' = rules /\ RequiresRules(config) /\ Exit(Fatal)
  BY <1>3 DEF LoadRules, At, Exit, Fatal
<1>4. CASE rules' = rules /\ command = "serve" /\ ~RequiresRules(config) /\ Goto(AfterRules)
  BY <1>4 DEF LoadRules, At, Goto
<1>5. RequiresRules(config) \in BOOLEAN
  BY DEF RequiresRules
<1>6. \/ rules' \in (SUBSET Rules) \ {{}} /\ Goto(AfterRules)
      \/ /\ rules' = rules
         /\ CASE command # "serve"                           -> Exit(Error)
              [] command = "serve" /\ RequiresRules(config)  -> Exit(Fatal)
              [] command = "serve" /\ ~RequiresRules(config) -> Goto(AfterRules)
  BY DEF LoadRules
<1> HIDE DEF Exit, Goto, AfterRules
<1> QED BY <1>1, <1>2, <1>3, <1>4, <1>5, <1>6

LEMMA RoutedKeeps ==
  ASSUME Routed, [Next]_vars
  PROVE  Routed'
<1>1. CASE Elsewhere
  BY <1>1 DEF Elsewhere, Routed, Parse, LoadConfig, OpenLedger, NewGateway, ListenFails, Signal,
              ScanFile, Report, LoadCorpus, At, Goto, Exit
<1>2. CASE LoadRules
  BY <1>2, RulesLoaded DEF Routed, AfterRules
<1>3. CASE EvaluateEntry
  BY <1>3 DEF EvaluateEntry, Routed
<1>4. CASE Judge
  BY <1>4 DEF Judge, Routed, Exit
<1>5. CASE UNCHANGED vars
  BY <1>5 DEF Routed, vars
<1> QED BY <1>1, <1>2, <1>3, <1>4, <1>5, StepKinds

-----------------------------------------------------------------------------
\* A loaded configuration is one that Evaluate is defined on.
LEMMA ConfigsAreValid ==
  ASSUME NEW cfg \in Configs
  PROVE  /\ ValidConfig(cfg)
         /\ \A i \in DOMAIN cfg.rules : cfg.rules[i].minConf \in Int
<1>1. CASE cfg = NoConfig
  <2>1. cfg.rules = <<>> /\ cfg.default = "log_only"
    BY <1>1 DEF NoConfig
  <2>2. Len(<<>>) = 0 /\ DOMAIN <<>> = 1..0
    OBVIOUS
  <2> QED BY <2>1, <2>2 DEF ValidConfig, Actions
<1>2. ASSUME NEW y \in Yamls, Validate(y), cfg = Loaded(y)
      PROVE  /\ ValidConfig(cfg)
             /\ \A i \in DOMAIN cfg.rules : cfg.rules[i].minConf \in Int
  <2> DEFINE Rule == [classes : SUBSET Classes, action : STRING, minConf : Int]
  <2>1. y.rules \in Seq(Rule)
    BY CommandAssumption
  <2>2. cfg.rules = y.rules /\ cfg.default \in Actions
    BY <1>2 DEF Loaded, Validate
  <2>3. Len(y.rules) \in Nat /\ DOMAIN y.rules = 1..Len(y.rules)
    BY <2>1, LenProperties
  <2>4. \A i \in DOMAIN y.rules : y.rules[i] \in Rule
    BY <2>1, <2>3, ElementOfSeq
  <2>5. \A i \in DOMAIN y.rules : y.rules[i].minConf \in Int
    BY <2>4
  <2>6. \A i \in DOMAIN y.rules : y.rules[i].action \in Actions
    BY <1>2 DEF Validate
  <2> QED BY <2>2, <2>3, <2>5, <2>6 DEF ValidConfig
<1> QED BY <1>1, <1>2 DEF Configs

LEMMA ServeKeeps ==
  ASSUME ServeInv, [Next]_vars
  PROVE  ServeInv'
<1>1. CASE LoadConfig
  <2>1. config' \in Configs
    BY <1>1 DEF LoadConfig, Configs, ServeInv, Exit, Goto
  <2>2. stage' \notin {"gateway", "serving"}
    BY <1>1 DEF LoadConfig, Exit, Goto
  <2> QED BY <2>1, <2>2 DEF ServeInv
<1>2. CASE LoadRules
  <2>1. config' = config /\ At("rules")
    BY <1>2 DEF LoadRules
  <2>2. stage' \in {"gateway", "serving"} /\ rules' = {} => ~RequiresRules(config)
    BY <1>2, RulesLoaded
  <2> QED BY <2>1, <2>2 DEF ServeInv, RequiresRules
<1>3. CASE Elsewhere /\ ~LoadConfig
  <2>1. config' = config /\ rules' = rules
    BY <1>3 DEF Elsewhere, Parse, OpenLedger, NewGateway, ListenFails, Signal, ScanFile, Report,
                LoadCorpus
  <2>2. stage' \in {"gateway", "serving"} => stage \in {"gateway", "serving"}
    BY <1>3 DEF Elsewhere, Parse, OpenLedger, NewGateway, ListenFails, Signal, ScanFile, Report,
                LoadCorpus, At, Goto, Exit
  <2> QED BY <2>1, <2>2 DEF ServeInv, RequiresRules
<1>4. CASE EvaluateEntry \/ UNCHANGED vars
  BY <1>4 DEF EvaluateEntry, vars, ServeInv, RequiresRules
<1>5. CASE Judge
  <2>1. config' = config /\ stage' = "exited"
    BY <1>5 DEF Judge, Exit
  <2> QED BY <2>1 DEF ServeInv
<1> QED BY <1>1, <1>2, <1>3, <1>4, <1>5, StepKinds

\* A configuration that needs no rules logs whatever it is asked about.
LEMMA NoRulesOnlyLog ==
  ASSUME NEW cfg \in Configs, ~RequiresRules(cfg), NEW class, NEW dest, NEW conf
  PROVE  Evaluate(cfg, class, dest, conf).action = "log_only"
<1>1. ValidConfig(cfg)
  BY ConfigsAreValid
<1>2. cfg.default = "log_only" /\ \A i \in DOMAIN cfg.rules : cfg.rules[i].action = "log_only"
  BY DEF RequiresRules
<1>3. RulesNaming(cfg, class) # {} => FirstRule(cfg, class).action = "log_only"
  BY <1>1, <1>2, FirstRuleIsFirst DEF RulesNaming
<1>4. RuledAction(cfg, class, conf) = "log_only"
  BY <1>2, <1>3 DEF RuledAction, BelowThreshold
<1> QED BY <1>4 DEF Evaluate

\* Evaluate is monotone in the confidence of a blocked finding.
LEMMA MoreConfidenceBlocks ==
  ASSUME NEW cfg \in Configs, NEW class, NEW dest, NEW less \in Int, NEW more \in Int,
         less <= more, Evaluate(cfg, class, dest, less).action = "block"
  PROVE  Evaluate(cfg, class, dest, more).action = "block"
<1>1. ~Exempted(cfg, class, dest) /\ RuledAction(cfg, class, less) = "block"
  BY DEF Evaluate
<1>2. CASE RulesNaming(cfg, class) = {}
  BY <1>1, <1>2 DEF RuledAction, Evaluate
<1>3. CASE RulesNaming(cfg, class) # {}
  <2>1. ValidConfig(cfg)
    BY ConfigsAreValid
  <2>2. FirstRule(cfg, class).minConf \in Int
    BY <1>3, <2>1, FirstRuleIsFirst, ConfigsAreValid DEF RulesNaming
  <2>3. ~(less < FirstRule(cfg, class).minConf) /\ FirstRule(cfg, class).action = "block"
    BY <1>1, <1>3 DEF RuledAction, BelowThreshold
  <2>4. ~(more < FirstRule(cfg, class).minConf)
    BY <2>2, <2>3
  <2> QED BY <1>1, <1>3, <2>3, <2>4 DEF RuledAction, Evaluate
<1> QED BY <1>2, <1>3

-----------------------------------------------------------------------------
LEMMA ScanKeeps ==
  ASSUME Routed, ScanInv, [Next]_vars
  PROVE  ScanInv'
<1> DEFINE Kinds == {"unreadable", "clean", "dirty"}
<1>1. CASE ScanFile
  <2>1. PICK file \in Kinds :
          /\ walked' = Append(walked, file)
          /\ IF file = "unreadable"
             THEN Exit(Error) /\ results' = <<>>
             ELSE results' = Append(results, file = "dirty") /\ UNCHANGED <<stage, exit>>
    BY <1>1 DEF ScanFile
  <2>2. /\ stage = "scan" /\ walked \in Seq(Kinds) /\ results \in Seq(BOOLEAN)
        /\ Len(results) = Len(walked)
        /\ \A i \in 1..Len(walked) : walked[i] = IF results[i] THEN "dirty" ELSE "clean"
    BY <1>1 DEF ScanFile, At, ScanInv
  <2>3. /\ walked' \in Seq(Kinds) /\ Len(walked') = Len(walked) + 1
        /\ \A i \in 1..Len(walked) : walked'[i] = walked[i]
        /\ walked'[Len(walked) + 1] = file
    BY <2>1, <2>2, AppendProperties
  <2>4. CASE file = "unreadable"
    <3>1. stage' = "exited" /\ exit' = 2 /\ results' = <<>>
      BY <2>1, <2>4 DEF Exit, Error
    <3>2. results' \in Seq(BOOLEAN)
      BY <3>1, EmptySeq
    <3>3. CleanScanReadEverything'
      BY <3>1 DEF CleanScanReadEverything, Exited, Clean
    <3> QED BY <2>3, <3>1, <3>2, <3>3 DEF ScanInv
  <2>5. CASE file # "unreadable"
    <3>1. results' = Append(results, file = "dirty") /\ stage' = "scan"
      BY <2>1, <2>2, <2>5
    <3>2. (file = "dirty") \in BOOLEAN
      OBVIOUS
    <3>3. /\ results' \in Seq(BOOLEAN) /\ Len(results') = Len(results) + 1
          /\ \A i \in 1..Len(results) : results'[i] = results[i]
          /\ results'[Len(results) + 1] = (file = "dirty")
      BY <2>2, <3>1, <3>2, AppendProperties
    <3>4. file = IF file = "dirty" THEN "dirty" ELSE "clean"
      BY <2>5
    <3>5. ASSUME NEW i \in 1..Len(walked')
          PROVE  walked'[i] = IF results'[i] THEN "dirty" ELSE "clean"
      <4>1. CASE i = Len(walked) + 1
        BY <2>2, <2>3, <3>3, <3>4, <4>1
      <4>2. CASE i \in 1..Len(walked)
        BY <2>2, <2>3, <3>3, <4>2
      <4> QED BY <2>2, <2>3, <4>1, <4>2
    <3>6. CleanScanReadEverything'
      BY <3>1 DEF CleanScanReadEverything, Exited
    <3> QED BY <2>2, <2>3, <3>3, <3>5, <3>6 DEF ScanInv
  <2> QED BY <2>4, <2>5
<1>2. CASE Report
  <2>1. /\ stage = "scan" /\ stage' = "exited" /\ UNCHANGED <<command, walked, results>>
        /\ exit' = 0 => ~(\E i \in DOMAIN results : results[i])
    BY <1>2 DEF Report, At, Exit, Findings, Clean, Error
  <2>2. /\ walked \in Seq(Kinds) /\ results \in Seq(BOOLEAN)
        /\ Len(results) = Len(walked)
        /\ \A i \in 1..Len(walked) : walked[i] = IF results[i] THEN "dirty" ELSE "clean"
    BY <2>1 DEF ScanInv
  <2>3. DOMAIN walked = 1..Len(walked) /\ DOMAIN results = 1..Len(walked)
    BY <2>2, LenProperties
  <2>4. CleanScanReadEverything'
    BY <2>1, <2>2, <2>3 DEF CleanScanReadEverything, Exited, Clean
  <2> QED BY <2>1, <2>2, <2>4 DEF ScanInv
<1>3. CASE UNCHANGED <<walked, results>> /\ stage' # "exited" /\ stage # "exited"
  <2>1. CleanScanReadEverything'
    BY <1>3 DEF CleanScanReadEverything, Exited
  <2> QED BY <1>3, <2>1 DEF ScanInv
<1>4. CASE /\ UNCHANGED <<walked, results>> /\ stage' = "exited"
           /\ command' = "scan" => exit' # 0
  <2>1. CleanScanReadEverything'
    BY <1>4 DEF CleanScanReadEverything, Exited, Clean
  <2> QED BY <1>4, <2>1 DEF ScanInv
<1>5. CASE UNCHANGED vars
  BY <1>5 DEF vars, ScanInv, CleanScanReadEverything, Exited
<1>6. CASE Elsewhere /\ ~ScanFile /\ ~Report
  <2>1. UNCHANGED <<walked, results>> /\ stage # "exited"
    BY <1>6 DEF Elsewhere, Parse, LoadConfig, OpenLedger, NewGateway, ListenFails, Signal,
                LoadCorpus, At
  <2>2. stage' = "exited" => (command' = "scan" => exit' # 0)
    BY <1>6 DEF Elsewhere, Parse, LoadConfig, OpenLedger, NewGateway, ListenFails, Signal,
                LoadCorpus, At, Exit, Goto, Routed, Clean, Fatal, Error
  <2> QED BY <1>3, <1>4, <2>1, <2>2
<1>7. CASE LoadRules
  <2>1. UNCHANGED <<walked, results>> /\ stage # "exited"
    BY <1>7 DEF LoadRules, At
  <2>2. stage' = "exited" => exit' # 0
    BY <1>7, RulesLoaded DEF AfterRules
  <2> QED BY <1>3, <1>4, <2>1, <2>2
<1>8. CASE EvaluateEntry
  BY <1>3, <1>8 DEF EvaluateEntry, At
<1>9. CASE Judge
  <2>1. UNCHANGED <<walked, results, command>> /\ stage' = "exited" /\ command # "scan"
    BY <1>9 DEF Judge, Exit, At, Routed
  <2> QED BY <1>4, <2>1
<1> QED BY <1>1, <1>2, <1>5, <1>6, <1>7, <1>8, <1>9, StepKinds

-----------------------------------------------------------------------------
\* A set that gains an element it did not have, or does not.
LEMMA Counted ==
  ASSUME NEW S, IsFiniteSet(S), NEW x, x \notin S, NEW b \in BOOLEAN,
         NEW T, T = IF b THEN S \cup {x} ELSE S
  PROVE  IsFiniteSet(T) /\ Cardinality(S) \in Nat /\ Cardinality(T) = Cardinality(S) + One(b)
<1>1. Cardinality(S) \in Nat
  BY FS_CardinalityType
<1>2. IsFiniteSet(S \cup {x}) /\ Cardinality(S \cup {x}) = Cardinality(S) + 1
  BY FS_AddElement
<1> QED BY <1>1, <1>2 DEF One

\* The sets of entries that are counted are finite.
LEMMA KindsAreFinite ==
  ASSUME IsFiniteSet(scored), NEW c
  PROVE  /\ IsFiniteSet(TP(c)) /\ IsFiniteSet(FP(c)) /\ IsFiniteSet(FN(c)) /\ IsFiniteSet(TN(c))
<1>1. \A S \in SUBSET scored : IsFiniteSet(S)
  BY FS_Subset
<1>2. TP(c) \in SUBSET scored /\ FP(c) \in SUBSET scored /\ FN(c) \in SUBSET scored
      /\ TN(c) \in SUBSET scored
  BY DEF TP, FP, FN, TN
<1> QED BY <1>1, <1>2

\* Evaluate scores one more entry.
LEMMA EntryKeeps ==
  ASSUME EvalInv, EvaluateEntry
  PROVE  EvalInv'
<1>1. PICK entry \in Entries, fired \in SUBSET ClassesOf(rules) :
        /\ metrics' = Score(metrics, entry, fired)
        /\ scored' = scored \cup {[entry |-> entry, fired |-> fired,
                                   copy |-> Cardinality(Alike(entry, fired)) + 1]}
  BY DEF EvaluateEntry
<1>2. /\ rules \subseteq Rules /\ options \in Options
      /\ ScoredTypes /\ MetricTypes /\ Measured
      /\ UNCHANGED <<command, stage, options, rules>> /\ stage = "evaluate"
  BY DEF EvaluateEntry, EvalInv, At
<1>3. entry.class \in Classes /\ entry.expect \in BOOLEAN /\ fired \subseteq Classes
      /\ entry = [class |-> entry.class, expect |-> entry.expect]
  <2>1. ClassesOf(rules) \subseteq Classes
    BY <1>2, CommandAssumption DEF ClassesOf
  <2> QED BY <2>1 DEF Entries
<1>4. PICK n \in Nat : n = Cardinality(Alike(entry, fired))
  <2>1. Alike(entry, fired) \in SUBSET scored
    BY DEF Alike
  <2> QED BY <1>2, <2>1, FS_Subset, FS_CardinalityType DEF ScoredTypes
<1>5. PICK x : x = [entry |-> entry, fired |-> fired, copy |-> n + 1]
  OBVIOUS
<1>6. x.entry = entry /\ x.fired = fired /\ x.copy = n + 1 /\ scored' = scored \cup {x}
  BY <1>1, <1>4, <1>5
<1>7. x \notin scored
  <2> SUFFICES ASSUME x \in scored PROVE FALSE
    OBVIOUS
  <2>1. x.copy <= Cardinality(Alike(x.entry, x.fired))
    BY <1>2 DEF ScoredTypes
  <2>2. n + 1 <= n
    BY <1>4, <1>6, <2>1
  <2> QED BY <2>2
<1>8. IsFiniteSet(scored)
  BY <1>2 DEF ScoredTypes
<1>9. ScoredTypes'
  <2>1. IsFiniteSet(scored')
    BY <1>6, <1>8, FS_AddElement
  <2>2. scored' \subseteq [entry : Entries, fired : SUBSET Classes, copy : Nat]
    BY <1>2, <1>3, <1>5, <1>6 DEF ScoredTypes
  <2>3. ASSUME NEW s \in scored' PROVE s.copy <= Cardinality(Alike(s.entry, s.fired)')
    <3> DEFINE own == s.entry = entry /\ s.fired = fired
               old == {r \in scored : r.entry = s.entry /\ r.fired = s.fired}
               new == {r \in scored' : r.entry = s.entry /\ r.fired = s.fired}
    <3>1. new = IF own THEN old \cup {x} ELSE old
      BY <1>6
    <3>2. IsFiniteSet(old)
      BY <1>8, FS_Subset
    <3>3. x \notin old /\ own \in BOOLEAN
      BY <1>7
    <3>4. Alike(s.entry, s.fired)' = new /\ Alike(s.entry, s.fired) = old
      BY DEF Alike
    <3>5. own => old = Alike(entry, fired)
      BY DEF Alike
    <3> HIDE DEF own, old, new
    <3>6. Cardinality(old) \in Nat /\ Cardinality(new) = Cardinality(old) + One(own)
      BY <3>1, <3>2, <3>3, Counted
    <3>7. CASE s \in scored
      <4>1. s.copy <= Cardinality(old) /\ s.copy \in Nat
        BY <1>2, <3>4, <3>7 DEF ScoredTypes
      <4> QED BY <3>3, <3>4, <3>6, <4>1 DEF One
    <3>8. CASE s = x
      <4>1. own
        BY <1>6, <3>8 DEF own
      <4>2. Cardinality(new) = n + 1
        BY <1>4, <3>5, <3>6, <4>1 DEF One
      <4> QED BY <1>6, <3>4, <3>8, <4>2
    <3> QED BY <1>6, <3>7, <3>8
  <2> QED BY <2>1, <2>2, <2>3 DEF ScoredTypes
<1>10. ASSUME NEW c \in Classes
       PROVE  LET m == MetricFor(metrics, c)
              IN  m \in [tp : Nat, fp : Nat, fn : Nat, tn : Nat]
  BY <1>2 DEF MetricFor, MetricTypes, NoCounts
<1>11. DOMAIN metrics' = DOMAIN metrics \cup {entry.class} \cup fired
  BY <1>1 DEF Score
<1>12. ASSUME NEW c \in Classes
       PROVE  LET m == MetricFor(metrics, c)
                  hit == c \in fired
                  expected == c = entry.class /\ entry.expect
              IN  MetricFor(metrics', c) =
                    [tp |-> m.tp + One(expected /\ hit),
                     fn |-> m.fn + One(expected /\ ~hit),
                     tn |-> m.tn + One(c = entry.class /\ ~entry.expect /\ ~hit),
                     fp |-> m.fp + One(hit /\ ~expected)]
  <2>1. CASE c \in DOMAIN metrics'
    BY <1>1, <1>11, <2>1 DEF Score, MetricFor
  <2>2. CASE c \notin DOMAIN metrics'
    <3>1. c \notin DOMAIN metrics /\ c # entry.class /\ c \notin fired
      BY <1>11, <2>2
    <3> QED BY <2>2, <3>1 DEF MetricFor, NoCounts, One
  <2> QED BY <2>1, <2>2
<1>13. MetricTypes'
  <2>1. ASSUME NEW c \in DOMAIN metrics'
        PROVE  metrics'[c] \in [tp : Nat, fp : Nat, fn : Nat, tn : Nat]
    <3>1. c \in Classes
      BY <1>2, <1>3, <1>11, <2>1 DEF MetricTypes
    <3>2. metrics'[c] = MetricFor(metrics', c)
      BY <2>1 DEF MetricFor
    <3> DEFINE m == MetricFor(metrics, c)
               hit == c \in fired
               expected == c = entry.class /\ entry.expect
    <3>3. PICK tp \in Nat, fp \in Nat, fn \in Nat, tn \in Nat :
            m = [tp |-> tp, fp |-> fp, fn |-> fn, tn |-> tn]
      BY <1>10, <3>1
    <3>4. PICK a \in Nat, b \in Nat, d \in Nat, e \in Nat :
            /\ a = One(expected /\ hit) /\ b = One(expected /\ ~hit)
            /\ d = One(c = entry.class /\ ~entry.expect /\ ~hit)
            /\ e = One(hit /\ ~expected)
      BY DEF One
    <3>5. MetricFor(metrics', c) =
            [tp |-> m.tp + a, fn |-> m.fn + b, tn |-> m.tn + d, fp |-> m.fp + e]
      BY <1>12, <3>1, <3>4
    <3> HIDE DEF m, hit, expected
    <3>6. MetricFor(metrics', c) = [tp |-> tp + a, fn |-> fn + b, tn |-> tn + d, fp |-> fp + e]
      BY <3>3, <3>5
    <3> QED BY <3>2, <3>6
  <2>2. metrics' = [c \in DOMAIN metrics' |-> metrics'[c]]
    BY <1>1 DEF Score
  <2>3. DOMAIN metrics' \subseteq Classes
    BY <1>2, <1>3, <1>11 DEF MetricTypes
  <2> QED BY <2>1, <2>2, <2>3 DEF MetricTypes
<1>14. ASSUME NEW c \in Classes
       PROVE  LET m == MetricFor(metrics, c)'
              IN  /\ m.tp = Cardinality(TP(c)') /\ m.fp = Cardinality(FP(c)')
                  /\ m.fn = Cardinality(FN(c)') /\ m.tn = Cardinality(TN(c)')
  <2> DEFINE m == MetricFor(metrics, c)
             hit == c \in fired
             expected == c = entry.class /\ entry.expect
             clean == c = entry.class /\ ~entry.expect /\ ~hit
  <2>1. /\ expected <=> entry = [class |-> c, expect |-> TRUE]
        /\ clean <=> entry = [class |-> c, expect |-> FALSE] /\ ~hit
        /\ expected \in BOOLEAN /\ hit \in BOOLEAN /\ clean \in BOOLEAN
    BY <1>3
  <2>2. /\ TP(c)' = IF expected /\ hit THEN TP(c) \cup {x} ELSE TP(c)
        /\ FN(c)' = IF expected /\ ~hit THEN FN(c) \cup {x} ELSE FN(c)
        /\ TN(c)' = IF clean THEN TN(c) \cup {x} ELSE TN(c)
        /\ FP(c)' = IF hit /\ ~expected THEN FP(c) \cup {x} ELSE FP(c)
    BY <1>6, <2>1 DEF TP, FN, TN, FP
  <2>3. /\ x \notin TP(c) /\ x \notin FN(c) /\ x \notin TN(c) /\ x \notin FP(c)
    BY <1>7 DEF TP, FN, TN, FP
  <2>4. /\ IsFiniteSet(TP(c)) /\ IsFiniteSet(FP(c)) /\ IsFiniteSet(FN(c)) /\ IsFiniteSet(TN(c))
    BY <1>8, KindsAreFinite
  <2>5. /\ m.tp = Cardinality(TP(c)) /\ m.fp = Cardinality(FP(c))
        /\ m.fn = Cardinality(FN(c)) /\ m.tn = Cardinality(TN(c))
    BY <1>2 DEF Measured
  <2>6. MetricFor(metrics, c)' =
          [tp |-> m.tp + One(expected /\ hit), fn |-> m.fn + One(expected /\ ~hit),
           tn |-> m.tn + One(clean), fp |-> m.fp + One(hit /\ ~expected)]
    BY <1>12
  <2> HIDE DEF m, hit, expected, clean
  <2>7. Cardinality(TP(c)') = Cardinality(TP(c)) + One(expected /\ hit)
    BY <2>1, <2>2, <2>3, <2>4, Counted
  <2>8. Cardinality(FN(c)') = Cardinality(FN(c)) + One(expected /\ ~hit)
    BY <2>1, <2>2, <2>3, <2>4, Counted
  <2>9. Cardinality(TN(c)') = Cardinality(TN(c)) + One(clean)
    BY <2>1, <2>2, <2>3, <2>4, Counted
  <2>10. Cardinality(FP(c)') = Cardinality(FP(c)) + One(hit /\ ~expected)
    BY <2>1, <2>2, <2>3, <2>4, Counted
  <2> QED BY <2>5, <2>6, <2>7, <2>8, <2>9, <2>10
<1>15. Measured'
  <2>1. \A s \in scored' : s.entry.class \in DOMAIN metrics' /\ s.fired \subseteq DOMAIN metrics'
    <3>1. \A s \in scored : s.entry.class \in DOMAIN metrics /\ s.fired \subseteq DOMAIN metrics
      BY <1>2 DEF Measured
    <3> QED BY <1>6, <1>11, <3>1
  <2> QED BY <1>14, <2>1 DEF Measured
<1>16. PassMeansMeasured'
  BY <1>2 DEF PassMeansMeasured, Exited
<1> QED BY <1>2, <1>9, <1>13, <1>15, <1>16 DEF EvalInv

-----------------------------------------------------------------------------
\* The kinds of entries split what fires and what is positive.
LEMMA KindsAddUp ==
  ASSUME IsFiniteSet(scored), NEW c
  PROVE  LET fires == {s \in scored : c \in s.fired}
             positives == {s \in scored : s.entry = [class |-> c, expect |-> TRUE]}
         IN  /\ fires \cap positives = TP(c)
             /\ Cardinality(fires) = Cardinality(TP(c)) + Cardinality(FP(c))
             /\ Cardinality(positives) = Cardinality(TP(c)) + Cardinality(FN(c))
<1> DEFINE fires == {s \in scored : c \in s.fired}
           positives == {s \in scored : s.entry = [class |-> c, expect |-> TRUE]}
<1>1. /\ fires \cap positives = TP(c)
      /\ fires = TP(c) \cup FP(c) /\ TP(c) \cap FP(c) = {}
      /\ positives = TP(c) \cup FN(c) /\ TP(c) \cap FN(c) = {}
  BY DEF TP, FP, FN
<1>2. IsFiniteSet(TP(c)) /\ IsFiniteSet(FP(c)) /\ IsFiniteSet(FN(c))
  BY KindsAreFinite
<1>3. /\ Cardinality(TP(c)) \in Nat /\ Cardinality(FP(c)) \in Nat /\ Cardinality(FN(c)) \in Nat
      /\ Cardinality({}) = 0
  BY <1>2, FS_CardinalityType, FS_EmptySet
<1> HIDE DEF fires, positives
<1>4. Cardinality(fires) =
        Cardinality(TP(c)) + Cardinality(FP(c)) - Cardinality(TP(c) \cap FP(c))
  BY <1>1, <1>2, FS_Union
<1>5. Cardinality(positives) =
        Cardinality(TP(c)) + Cardinality(FN(c)) - Cardinality(TP(c) \cap FN(c))
  BY <1>1, <1>2, FS_Union
<1>6. /\ Cardinality(fires) = Cardinality(TP(c)) + Cardinality(FP(c))
      /\ Cardinality(positives) = Cardinality(TP(c)) + Cardinality(FN(c))
  <2>1. Cardinality(TP(c) \cap FP(c)) = 0 /\ Cardinality(TP(c) \cap FN(c)) = 0
    BY <1>1, <1>3
  <2> QED BY <1>3, <1>4, <1>5, <2>1
<1> QED BY <1>1, <1>6 DEF fires, positives

\* A class of loaded rules has a threshold, and it is at least 80.
LEMMA ThresholdIsAFloor ==
  ASSUME rules \subseteq Rules, NEW c \in ClassesOf(rules)
  PROVE  PrecisionThreshold(rules, c) \in Nat /\ 80 <= PrecisionThreshold(rules, c)
<1> DEFINE S == {RuleThreshold(r) : r \in {r \in rules : r.class = c}}
           t == PrecisionThreshold(rules, c)
<1>1. ASSUME NEW r \in rules PROVE RuleThreshold(r) \in Nat /\ 80 <= RuleThreshold(r)
  <2>1. r.confidence \in 0..100
    BY CommandAssumption
  <2> QED BY <2>1 DEF RuleThreshold
<1>2. S \in SUBSET Nat /\ S # {}
  BY <1>1 DEF ClassesOf
<1>3. \E i \in S : \A j \in S : i <= j
  BY <1>2, LeastIndex
<1>4. \E i \in S : \A r \in rules : r.class = c => i <= RuleThreshold(r)
  BY <1>3
<1>5. t \in S
  BY <1>4 DEF PrecisionThreshold
<1> QED BY <1>1, <1>5

\* The verdict of `eval run`.
LEMMA JudgeKeeps ==
  ASSUME EvalInv, Judge
  PROVE  EvalInv'
<1>1. /\ rules \subseteq Rules /\ options \in Options
      /\ ScoredTypes /\ MetricTypes /\ Measured /\ IsFiniteSet(scored)
      /\ UNCHANGED <<command, options, rules, scored, metrics>>
  BY DEF Judge, EvalInv, ScoredTypes
<1>2. ScoredTypes' /\ MetricTypes' /\ Measured'
  BY <1>1 DEF ScoredTypes, MetricTypes, Measured, Alike, TP, FP, FN, TN
<1>3. ASSUME command = "run", exit' = 0
      PROVE  /\ UncoveredClasses(rules, CorpusEntries) = {}
             /\ FailedClasses(rules, metrics, options.minPrecision, options.minRecall) = {}
  <2>1. UncoveredClasses(rules, CorpusEntries) # {} => exit' = 2
    BY <1>3 DEF Judge, Exit, Error
  <2>2. /\ UncoveredClasses(rules, CorpusEntries) = {}
        /\ FailedClasses(rules, metrics, options.minPrecision, options.minRecall) # {}
        => exit' = 1
    BY <1>3 DEF Judge, Exit, Findings
  <2> QED BY <1>3, <2>1, <2>2
<1>4. ASSUME command = "run", exit' = 0, NEW c \in ClassesOf(rules)
      PROVE  LET positives == {s \in scored : s.entry = [class |-> c, expect |-> TRUE]}
                 fires == {s \in scored : c \in s.fired}
             IN  /\ positives # {}
                 /\ [class |-> c, expect |-> FALSE] \in CorpusEntries
                 /\ 100 * Cardinality(fires \cap positives) >= 80 * Cardinality(fires)
                 /\ 100 * Cardinality(fires \cap positives)
                      >= options.minRecall * Cardinality(positives)
  <2> DEFINE positives == {s \in scored : s.entry = [class |-> c, expect |-> TRUE]}
             fires == {s \in scored : c \in s.fired}
             floor == PrecisionThreshold(rules, c)
             share == options.minRecall
  <2>1. \A expect \in BOOLEAN : [class |-> c, expect |-> expect] \in CorpusEntries
    BY <1>3, <1>4 DEF UncoveredClasses
  <2>2. PICK s \in scored : s.entry = [class |-> c, expect |-> TRUE]
    BY <2>1 DEF CorpusEntries
  <2>3. c \in DOMAIN metrics
    BY <1>1, <2>2 DEF Measured
  <2>4. /\ ~BelowPrecision(metrics[c], floor) /\ ~BelowRecall(metrics[c], share)
    BY <1>3, <1>4, <2>3 DEF FailedClasses
  <2>5. PICK tp \in Nat, fp \in Nat, fn \in Nat :
          /\ tp = Cardinality(TP(c)) /\ fp = Cardinality(FP(c)) /\ fn = Cardinality(FN(c))
    BY <1>1, KindsAreFinite, FS_CardinalityType
  <2>6. metrics[c].tp = tp /\ metrics[c].fp = fp /\ metrics[c].fn = fn
    BY <1>1, <2>3, <2>5 DEF Measured, MetricTypes, MetricFor
  <2>7. floor \in Nat /\ 80 <= floor
    BY <1>1, <1>4, ThresholdIsAFloor
  <2>8. share \in Nat
    <3>1. options \in [minPrecision : 0..100, minRecall : 0..100]
      BY <1>1, CommandAssumption
    <3> QED BY <3>1
  <2>9. /\ Cardinality(fires \cap positives) = tp
        /\ Cardinality(fires) = tp + fp /\ Cardinality(positives) = tp + fn
    BY <1>1, <2>5, KindsAddUp
  <2>10. positives # {}
    BY <2>2
  <2> HIDE DEF positives, fires, floor, share
  <2>11. ~(100 * tp < floor * (tp + fp)) /\ ~(100 * tp < share * (tp + fn))
    BY <2>4, <2>6 DEF BelowPrecision, BelowRecall
  <2>12. \A a, b, x \in Nat : a <= b => a * x <= b * x
    OBVIOUS
  <2>13. 80 * (tp + fp) <= floor * (tp + fp)
    BY <2>7, <2>12
  <2>14. 100 * tp >= 80 * (tp + fp) /\ 100 * tp >= share * (tp + fn)
    <3>1. floor * (tp + fp) \in Nat /\ share * (tp + fn) \in Nat
      BY <2>7, <2>8
    <3> QED BY <2>11, <2>13, <3>1
  <2> QED BY <2>1, <2>9, <2>10, <2>14 DEF positives, fires, share
<1>5. PassMeansMeasured'
  BY <1>1, <1>4 DEF PassMeansMeasured, Exited, Clean, CorpusEntries
<1> QED BY <1>1, <1>2, <1>5 DEF EvalInv

\* Whatever else happens leaves the evaluation as it was, and `eval run` does
\* not pass by it.
LEMMA EvalKeeps ==
  ASSUME Routed, EvalInv, [Next]_vars
  PROVE  EvalInv'
<1>1. CASE UNCHANGED <<options, scored, metrics>> /\ rules' \subseteq Rules
           /\ PassMeansMeasured'
  <2>1. ScoredTypes' /\ MetricTypes' /\ Measured'
    BY <1>1 DEF EvalInv, ScoredTypes, MetricTypes, Measured, Alike, TP, FP, FN, TN
  <2> QED BY <1>1, <2>1 DEF EvalInv
<1>2. CASE Elsewhere
  <2>1. UNCHANGED <<options, rules, scored, metrics>>
    BY <1>2 DEF Elsewhere, Parse, LoadConfig, OpenLedger, NewGateway, ListenFails, Signal,
                ScanFile, Report, LoadCorpus
  <2>2. ~(command' = "run" /\ stage' = "exited" /\ exit' = 0)
    BY <1>2 DEF Elsewhere, Parse, LoadConfig, OpenLedger, NewGateway, ListenFails, Signal,
                ScanFile, Report, LoadCorpus, Routed, At, Exit, Goto, Clean, Fatal, Error
  <2>3. PassMeansMeasured'
    BY <2>2 DEF PassMeansMeasured, Exited, Clean
  <2> QED BY <1>1, <2>1, <2>3 DEF EvalInv
<1>3. CASE LoadRules
  <2>1. UNCHANGED <<options, scored, metrics>> /\ rules' \subseteq Rules
    BY <1>3, RulesLoaded DEF EvalInv
  <2>2. ~(stage' = "exited" /\ exit' = 0)
    BY <1>3, RulesLoaded DEF AfterRules
  <2>3. PassMeansMeasured'
    BY <2>2 DEF PassMeansMeasured, Exited, Clean
  <2> QED BY <1>1, <2>1, <2>3
<1>4. CASE UNCHANGED vars
  <2>1. PassMeansMeasured'
    BY <1>4 DEF EvalInv, vars, PassMeansMeasured, Exited, CorpusEntries
  <2> QED BY <1>1, <1>4, <2>1 DEF EvalInv, vars
<1> QED BY <1>2, <1>3, <1>4, EntryKeeps, JudgeKeeps, StepKinds

-----------------------------------------------------------------------------
LEMMA CommandStart == Init => CommandInv
<1> SUFFICES ASSUME Init PROVE CommandInv
  OBVIOUS
<1>1. Routed /\ ServeInv
  BY DEF Init, Routed, ServeInv, Configs
<1>2. ScanInv
  BY EmptySeq DEF Init, ScanInv, CleanScanReadEverything, Exited
<1>3. ScoredTypes /\ MetricTypes
  BY FS_EmptySet DEF Init, ScoredTypes, MetricTypes
<1>4. Measured
  <2>1. \A c : TP(c) = {} /\ FP(c) = {} /\ FN(c) = {} /\ TN(c) = {}
    BY DEF Init, TP, FP, FN, TN
  <2>2. \A c : MetricFor(metrics, c) = NoCounts
    BY DEF Init, MetricFor
  <2>3. /\ NoCounts.tp = 0 /\ NoCounts.fp = 0 /\ NoCounts.fn = 0 /\ NoCounts.tn = 0
        /\ Cardinality({}) = 0 /\ scored = {}
    BY FS_EmptySet DEF NoCounts, Init
  <2> QED BY <2>1, <2>2, <2>3 DEF Measured
<1>5. EvalInv
  BY <1>3, <1>4 DEF Init, EvalInv, PassMeansMeasured, Exited
<1> QED BY <1>1, <1>2, <1>5 DEF CommandInv

\* The inductive invariant of the program.
THEOREM CommandInvariant == Spec => []CommandInv
<1>1. CommandInv /\ [Next]_vars => CommandInv'
  BY RoutedKeeps, ServeKeeps, ScanKeeps, EvalKeeps DEF CommandInv
<1> QED BY <1>1, CommandStart, PTL DEF Spec

\* Between the log.Fatal and the listener: a server that started without rules
\* has a policy whose every decision is to log (loadRulesForConfig,
\* requiresRules).
THEOREM BlindServersOnlyLog == Spec => []ServesBlindOnlyToLog
<1>1. CommandInv => ServesBlindOnlyToLog
  BY NoRulesOnlyLog DEF CommandInv, ServeInv, ServesBlindOnlyToLog, At
<1> QED BY <1>1, CommandInvariant, PTL

\* The policy of a running server is monotone: a finding that is blocked would be
\* blocked with more confidence, whatever the configuration file said.
THEOREM BlockingIsMonotone == Spec => []ConfidenceNeverUnblocks
<1>1. CommandInv => ConfidenceNeverUnblocks
  <2> SUFFICES ASSUME CommandInv, NEW class \in Classes, NEW dest \in Dests,
                      NEW more \in {0, 50, 100}, NEW less \in {0, 50, 100},
                      Evaluate(config, class, dest, less).action = "block", less <= more
               PROVE  Evaluate(config, class, dest, more).action = "block"
    BY DEF ConfidenceNeverUnblocks
  <2>1. config \in Configs /\ less \in Int /\ more \in Int
    BY DEF CommandInv, ServeInv
  <2> QED BY <2>1, MoreConfidenceBlocks
<1> QED BY <1>1, CommandInvariant, PTL

\* Exit code 0 of `scan` is only reached when every file below the paths was
\* read and has no findings (scanDir, scanFile and the end of runScan).
THEOREM CleanScansAreComplete == Spec => []CleanScanReadEverything
<1>1. CommandInv => CleanScanReadEverything
  BY DEF CommandInv, ScanInv
<1> QED BY <1>1, CommandInvariant, PTL

\* The four counts that Evaluate keeps per class are the cardinalities their
\* names promise, for a corpus of any size in any order.
THEOREM CountsAreOfTheCorpus == Spec => []MetricsCountTheCorpus
<1>1. CommandInv => MetricsCountTheCorpus
  <2> SUFFICES ASSUME CommandInv, NEW c \in DOMAIN metrics
               PROVE
                 LET labelled == {s \in scored : s.entry.class = c}
                     positives == {s \in labelled : s.entry.expect}
                     fires == {s \in scored : c \in s.fired}
                     m == metrics[c]
                 IN  /\ m.tp = Cardinality(fires \cap positives)
                     /\ m.tp + m.fp = Cardinality(fires)
                     /\ m.tp + m.fn = Cardinality(positives)
                     /\ m.tn = Cardinality((labelled \ positives) \ fires)
                     /\ MeasuredConfidence(m) \in 0..99
    BY DEF MetricsCountTheCorpus
  <2> DEFINE labelled == {s \in scored : s.entry.class = c}
             positives == {s \in labelled : s.entry.expect}
             fires == {s \in scored : c \in s.fired}
  <2>1. ScoredTypes /\ MetricTypes /\ Measured /\ IsFiniteSet(scored) /\ c \in Classes
    BY DEF CommandInv, EvalInv, ScoredTypes, MetricTypes
  <2>2. PICK tp \in Nat, fp \in Nat, fn \in Nat :
          /\ tp = Cardinality(TP(c)) /\ fp = Cardinality(FP(c)) /\ fn = Cardinality(FN(c))
    BY <2>1, KindsAreFinite, FS_CardinalityType
  <2>3. /\ metrics[c].tp = tp /\ metrics[c].fp = fp /\ metrics[c].fn = fn
        /\ metrics[c].tn = Cardinality(TN(c))
    BY <2>1, <2>2 DEF Measured, MetricFor
  <2>4. \A s \in scored : s.entry \in Entries
    BY <2>1 DEF ScoredTypes
  <2>5. /\ positives = {s \in scored : s.entry = [class |-> c, expect |-> TRUE]}
        /\ labelled \ positives = {s \in scored : s.entry = [class |-> c, expect |-> FALSE]}
    <3>1. ASSUME NEW s \in scored
          PROVE  /\ s.entry = [class |-> c, expect |-> TRUE] <=> s.entry.class = c /\ s.entry.expect
                 /\ s.entry = [class |-> c, expect |-> FALSE] <=> s.entry.class = c /\ ~s.entry.expect
      <4>1. s.entry.expect \in BOOLEAN
            /\ s.entry = [class |-> s.entry.class, expect |-> s.entry.expect]
        BY <2>4 DEF Entries
      <4>2. \A k : \A b \in BOOLEAN :
              /\ [class |-> k, expect |-> b] = [class |-> c, expect |-> TRUE] <=> k = c /\ b
              /\ [class |-> k, expect |-> b] = [class |-> c, expect |-> FALSE] <=> k = c /\ ~b
        OBVIOUS
      <4> DEFINE k == s.entry.class
                 b == s.entry.expect
      <4>3. /\ [class |-> k, expect |-> b] = [class |-> c, expect |-> TRUE] <=> k = c /\ b
            /\ [class |-> k, expect |-> b] = [class |-> c, expect |-> FALSE] <=> k = c /\ ~b
        <5>1. b \in BOOLEAN
          BY <4>1
        <5> HIDE DEF k, b
        <5> QED BY <4>2, <5>1
      <4> QED BY <4>1, <4>3
    <3> QED BY <3>1
  <2>6. (labelled \ positives) \ fires = TN(c)
    BY <2>5 DEF TN
  <2>7. /\ Cardinality(fires \cap positives) = tp
        /\ Cardinality(fires) = tp + fp /\ Cardinality(positives) = tp + fn
    BY <2>1, <2>2, <2>5, KindsAddUp
  <2>8. MeasuredConfidence(metrics[c]) \in 0..99
    <3>1. \A a, b \in Nat : a < b => (100 * a) \div b \in 0..99
      OBVIOUS
    <3>2. tp + 1 < tp + fp + 2 /\ tp + 1 \in Nat /\ tp + fp + 2 \in Nat
      OBVIOUS
    <3>3. (100 * (tp + 1)) \div (tp + fp + 2) \in 0..99
      BY <3>1, <3>2
    <3> QED BY <2>3, <3>3 DEF MeasuredConfidence
  <2> HIDE DEF labelled, positives, fires
  <2>9. /\ metrics[c].tp = Cardinality(fires \cap positives)
        /\ metrics[c].tp + metrics[c].fp = Cardinality(fires)
        /\ metrics[c].tp + metrics[c].fn = Cardinality(positives)
        /\ metrics[c].tn = Cardinality((labelled \ positives) \ fires)
        /\ MeasuredConfidence(metrics[c]) \in 0..99
    BY <2>3, <2>6, <2>7, <2>8
  <2> QED BY <2>9 DEF labelled, positives, fires
<1> QED BY <1>1, CommandInvariant, PTL

\* `eval run` exits with 0 only when every class of the loaded rules has entries
\* of both kinds, at least four in five of its findings were expected, and the
\* required share of its positives was found.
THEOREM PassesAreMeasured == Spec => []PassMeansMeasured
<1>1. CommandInv => PassMeansMeasured
  BY DEF CommandInv, EvalInv
<1> QED BY <1>1, CommandInvariant, PTL
=============================================================================
