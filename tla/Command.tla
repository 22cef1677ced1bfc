------------------------------ MODULE Command ------------------------------
(***************************************************************************)
(* One run of the contextshield program (cmd/contextshield/main.go): the   *)
(* command line, loading the rules, then the server's start, a file scan   *)
(* (scan/scan.go) or an evaluation (evals/eval.go), up to the exit code.   *)
(*                                                                         *)
(* What lies on the disk is chosen when it is read.  The set of loaded     *)
(* rules is empty exactly when there is no matcher.                        *)
(***************************************************************************)
EXTENDS Evaluation, Policy

CONSTANTS
  Rules,       \* rules that rule files may hold: [class, confidence]
  Classes,     \* classes of rules and corpus entries
  Dests,       \* hosts of upstreams
  Yamls,       \* shield.yaml files: [default, onError, rules, exemptions, upstreams],
               \* the first two "unset" when the file does not give them
  Options,     \* [minPrecision, minRecall] of eval
  MaxEntries,  \* bound: entries of a corpus
  MaxFiles     \* bound: files below the scanned paths

ASSUME CommandAssumption ==
  /\ Rules \subseteq [class : Classes, confidence : 0..100]
  /\ Options \subseteq [minPrecision : 0..100, minRecall : 0..100]
  /\ \A y \in Yamls :
       y.rules \in Seq([classes : SUBSET Classes, action : STRING, minConf : Int])
  /\ MaxEntries \in Nat /\ MaxFiles \in Nat

VARIABLES
  command,   \* "none", "serve", "scan", "run" (eval run) or "render" (eval render)
  stage,     \* what is done next
  options,   \* of eval
  rules,     \* loaded rules
  config,    \* loaded shield.yaml
  walked,    \* scan: what each file was, in walk order
  results,   \* scan: whether each file read has findings
  scored,    \* eval: the entries evaluated with the classes that fired; entries
             \* that are alike are told apart by a number
  metrics,   \* eval: counts per class
  exit       \* exit status, once stage is "exited"

vars == <<command, stage, options, rules, config, walked, results, scored,
          metrics, exit>>

-----------------------------------------------------------------------------
\* main: a nil error, an exitCode, or log.Fatal.
Clean == 0
Findings == 1
Fatal == 1
Error == 2

Exit(code) == exit' = code /\ stage' = "exited"
Exited(code) == stage = "exited" /\ exit = code
At(place) == stage = place
Goto(place) == stage' = place /\ UNCHANGED exit

NoConfig == [default |-> "log_only", onError |-> "closed", rules |-> <<>>, exemptions |-> {}]

Init ==
  /\ command = "none" /\ stage = "parse" /\ rules = {} /\ config = NoConfig
  /\ options \in Options
  /\ walked = <<>> /\ results = <<>>
  /\ scored = {} /\ metrics = [c \in {} |-> NoCounts]
  /\ exit = Clean

\* parseCommand and its kind: help ends cleanly, a bad flag or argument is an
\* ordinary error.  Without arguments the command is serve.
Parse ==
  /\ At("parse")
  /\ \/ Exit(Clean) /\ UNCHANGED command
     \/ Exit(Fatal) /\ UNCHANGED command
     \/ command' = "serve" /\ Goto("config")
     \/ command' \in {"scan", "run", "render"} /\ Goto("rules")
  /\ UNCHANGED <<options, rules, config, walked, results, scored, metrics>>

-----------------------------------------------------------------------------
\* DefaultConfig under the file, then LoadConfig's checks and Validate.
Loaded(y) ==
  [default |-> IF y.default = "unset" THEN NoConfig.default ELSE y.default,
   onError |-> IF y.onError = "unset" THEN NoConfig.onError ELSE y.onError,
   rules |-> y.rules, exemptions |-> y.exemptions]

Validate(y) ==
  /\ y.upstreams
  /\ Loaded(y).default \in Actions /\ Loaded(y).onError \in {"closed", "open"}
  /\ \A i \in DOMAIN y.rules : y.rules[i].action \in Actions

\* policy.LoadConfig; the file may be missing or no YAML.
LoadConfig ==
  /\ At("config")
  /\ \/ Exit(Fatal) /\ UNCHANGED config
     \/ \E y \in Yamls : IF Validate(y) THEN config' = Loaded(y) /\ Goto("ledger")
                                        ELSE Exit(Fatal) /\ UNCHANGED config
  /\ UNCHANGED <<command, options, rules, walked, results, scored, metrics>>

OpenLedger ==
  /\ At("ledger")
  /\ Exit(Fatal) \/ Goto("rules")
  /\ UNCHANGED <<command, options, rules, config, walked, results, scored, metrics>>

\* Mutant: only the defaults are looked at.
RequiresRulesByDefault(cfg) == cfg.onError = "closed" \/ cfg.default # "log_only"

RequiresRules(cfg) ==
  \/ cfg.onError = "closed"
  \/ cfg.default # "log_only"
  \/ \E i \in DOMAIN cfg.rules : cfg.rules[i].action # "log_only"

AfterRules == CASE command = "serve" -> "gateway"
                [] command = "scan"  -> "scan"
                [] OTHER             -> "corpus"

\* loadRules: every .yaml file of the directory parses and there is one, or an
\* error.  Only serve can go on without: loadRulesForConfig.
LoadRules ==
  /\ At("rules")
  /\ \/ rules' \in (SUBSET Rules) \ {{}} /\ Goto(AfterRules)
     \/ /\ CASE command # "serve"                           -> Exit(Error)
             [] command = "serve" /\ RequiresRules(config)  -> Exit(Fatal)
             [] command = "serve" /\ ~RequiresRules(config) -> Goto(AfterRules)
        /\ UNCHANGED rules
  /\ UNCHANGED <<command, options, config, walked, results, scored, metrics>>

\* NewGateway parses the upstream URLs; the listener gets a goroutine.
NewGateway ==
  /\ At("gateway")
  /\ Exit(Fatal) \/ Goto("serving")
  /\ UNCHANGED <<command, options, rules, config, walked, results, scored, metrics>>

\* ListenAndServe returns: log.Fatalf, whatever the main goroutine does.
ListenFails ==
  /\ At("serving")
  /\ Exit(Fatal)
  /\ UNCHANGED <<command, options, rules, config, walked, results, scored, metrics>>

\* SIGINT or SIGTERM.
Signal ==
  /\ At("serving") /\ Exit(Clean)
  /\ UNCHANGED <<command, options, rules, config, walked, results, scored, metrics>>

-----------------------------------------------------------------------------
\* Mutant: an unreadable file of a directory is skipped.
ScanFileSkipping ==
  /\ At("scan") /\ Len(walked) < MaxFiles
  /\ \E file \in {"unreadable", "clean", "dirty"} :
       /\ walked' = Append(walked, file)
       /\ results' = IF file = "unreadable" THEN results ELSE Append(results, file = "dirty")
       /\ UNCHANGED <<stage, exit>>
  /\ UNCHANGED <<command, options, rules, config, scored, metrics>>

\* Scan, scanDir, scanFile: the first path or file that cannot be read ends the
\* scan, and what was found before is not reported.
ScanFile ==
  /\ At("scan") /\ Len(walked) < MaxFiles
  /\ \E file \in {"unreadable", "clean", "dirty"} :
       /\ walked' = Append(walked, file)
       /\ IF file = "unreadable"
          THEN Exit(Error) /\ results' = <<>>
          ELSE results' = Append(results, file = "dirty") /\ UNCHANGED <<stage, exit>>
  /\ UNCHANGED <<command, options, rules, config, scored, metrics>>

\* outputText or outputJSON; writing the JSON may fail.
Report ==
  /\ At("scan")
  /\ \/ Exit(IF \E i \in DOMAIN results : results[i] THEN Findings ELSE Clean)
     \/ Exit(Error)
  /\ UNCHANGED <<command, options, rules, config, walked, results, scored, metrics>>

-----------------------------------------------------------------------------
Entries == [class : Classes, expect : BOOLEAN]

\* LoadCorpus: broken or empty, or there are entries.
LoadCorpus ==
  /\ At("corpus")
  /\ Exit(Error) \/ Goto("evaluate")
  /\ UNCHANGED <<command, options, rules, config, walked, results, scored, metrics>>

Alike(entry, fired) == {s \in scored : s.entry = entry /\ s.fired = fired}

\* One entry: Find reports classes of loaded rules.
EvaluateEntry ==
  /\ At("evaluate") /\ Cardinality(scored) < MaxEntries
  /\ \E entry \in Entries : \E fired \in SUBSET ClassesOf(rules) :
       /\ metrics' = Score(metrics, entry, fired)
       /\ scored' = scored \cup {[entry |-> entry, fired |-> fired,
                                   copy |-> Cardinality(Alike(entry, fired)) + 1]}
  /\ UNCHANGED <<command, stage, options, rules, config, walked, results, exit>>

CorpusEntries == {s.entry : s \in scored}

\* The rest of runEval.
Judge ==
  /\ At("evaluate") /\ scored # {}
  /\ Exit(CASE command = "render" -> Clean
            [] command = "run" /\ UncoveredClasses(rules, CorpusEntries) # {} -> Error
            [] OTHER -> IF FailedClasses(rules, metrics, options.minPrecision,
                                         options.minRecall) # {}
                        THEN Findings ELSE Clean)
  /\ UNCHANGED <<command, options, rules, config, walked, results, scored, metrics>>

-----------------------------------------------------------------------------
Serve == LoadConfig \/ OpenLedger \/ NewGateway \/ ListenFails \/ Signal
Scan == ScanFile \/ Report
Eval == LoadCorpus \/ EvaluateEntry \/ Judge

Next == Parse \/ LoadRules \/ Serve \/ Scan \/ Eval

Spec == Init /\ [][Next]_vars

-----------------------------------------------------------------------------
\* A server that runs without a matcher has a policy that would only log,
\* whatever the matcher had found and wherever the request went: the warning in
\* loadRulesForConfig is true, and no block or mask rule is silently dead.
ServesBlindOnlyToLog ==
  At("serving") /\ rules = {} =>
    \A class \in Classes, dest \in Dests, confidence \in {0, 50, 100} :
      Evaluate(config, class, dest, confidence).action = "log_only"

\* More confidence never unblocks: whatever the order of the rules and the
\* default, a finding that is blocked would be blocked with more confidence.
ConfidenceNeverUnblocks ==
  At("serving") =>
    \A class \in Classes, dest \in Dests, more, less \in {0, 50, 100} :
      Evaluate(config, class, dest, less).action = "block" /\ less <= more =>
        Evaluate(config, class, dest, more).action = "block"

\* Exit code 0 of a scan says that all files were read and none has findings.
CleanScanReadEverything ==
  command = "scan" /\ Exited(Clean) => \A i \in DOMAIN walked : walked[i] = "clean"

\* The counts of a class are what their names say of the corpus, whatever the
\* order of entries and classes: nothing fires that is not counted once.
MetricsCountTheCorpus ==
  \A c \in DOMAIN metrics :
    LET labelled == {s \in scored : s.entry.class = c}
        positives == {s \in labelled : s.entry.expect}
        fires == {s \in scored : c \in s.fired}
        m == metrics[c]
    IN  /\ m.tp = Cardinality(fires \cap positives)
        /\ m.tp + m.fp = Cardinality(fires)
        /\ m.tp + m.fn = Cardinality(positives)
        /\ m.tn = Cardinality((labelled \ positives) \ fires)
        /\ MeasuredConfidence(m) \in 0..99

\* `eval run` passes only when every rule's class was measured: it has entries of
\* both kinds, four in five of its findings were expected, and it found the
\* required share of its positives.
PassMeansMeasured ==
  command = "run" /\ Exited(Clean) =>
    \A c \in ClassesOf(rules) :
      LET positives == {s \in scored : s.entry = [class |-> c, expect |-> TRUE]}
          fires == {s \in scored : c \in s.fired}
      IN  /\ positives # {}
          /\ [class |-> c, expect |-> FALSE] \in CorpusEntries
          /\ 100 * Cardinality(fires \cap positives) >= 80 * Cardinality(fires)
          /\ 100 * Cardinality(fires \cap positives) >= options.minRecall * Cardinality(positives)
=============================================================================
