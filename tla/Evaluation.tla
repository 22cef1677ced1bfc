----------------------------- MODULE Evaluation -----------------------------
(***************************************************************************)
(* The eval harness (evals/eval.go) and the thresholds of `eval run`       *)
(* (cmd/contextshield/main.go): how findings in a labelled corpus become   *)
(* counts per class, and when the counts are good enough.                  *)
(*                                                                         *)
(* An entry is [class, expect]: its label and whether a finding is         *)
(* expected.  A rule is [class, confidence].  Confidence, precision and    *)
(* recall are percentages; a ratio is compared by cross-multiplication, so *)
(* that a ratio with denominator 0 passes every threshold, as the 1.0 that *)
(* compute gives it does.                                                  *)
(***************************************************************************)
EXTENDS Integers, FiniteSets

NoCounts == [tp |-> 0, fp |-> 0, fn |-> 0, tn |-> 0]

\* metricFor: the counts of a class, created when they are first needed.
MetricFor(metrics, class) == IF class \in DOMAIN metrics THEN metrics[class] ELSE NoCounts

One(condition) == IF condition THEN 1 ELSE 0

\* Mutant: a finding of another class than the label is not counted.
ScoreOwnOnly(metrics, entry, fired) ==
  [c \in DOMAIN metrics \cup {entry.class} |->
     LET m == MetricFor(metrics, c)
         hit == c \in fired
         own == c = entry.class
     IN  [tp |-> m.tp + One(own /\ entry.expect /\ hit),
          fn |-> m.fn + One(own /\ entry.expect /\ ~hit),
          tn |-> m.tn + One(own /\ ~entry.expect /\ ~hit),
          fp |-> m.fp + One(own /\ ~entry.expect /\ hit)]]

\* One turn of Evaluate's loop: the entry's own class, then every class that
\* fired and is not the expected one.
Score(metrics, entry, fired) ==
  [c \in DOMAIN metrics \cup {entry.class} \cup fired |->
     LET m == MetricFor(metrics, c)
         hit == c \in fired
         expected == c = entry.class /\ entry.expect
     IN  [tp |-> m.tp + One(expected /\ hit),
          fn |-> m.fn + One(expected /\ ~hit),
          tn |-> m.tn + One(c = entry.class /\ ~entry.expect /\ ~hit),
          fp |-> m.fp + One(hit /\ ~expected)]]

BelowPrecision(m, percent) == 100 * m.tp < percent * (m.tp + m.fp)
BelowRecall(m, percent) == 100 * m.tp < percent * (m.tp + m.fn)

\* perClassPrecisionThreshold: 5 points below the declared confidence (0 stands
\* for 100), never under 80; of the rules of a class the smaller one is kept.
RuleThreshold(rule) ==
  LET declared == IF rule.confidence = 0 THEN 100 ELSE rule.confidence
  IN  IF declared - 5 < 80 THEN 80 ELSE declared - 5

PrecisionThreshold(rules, class) ==
  CHOOSE t \in {RuleThreshold(r) : r \in {r \in rules : r.class = class}} :
    \A r \in rules : r.class = class => t <= RuleThreshold(r)

ClassesOf(rules) == {r.class : r \in rules}

\* Mutant: one entry, of either kind, is coverage.
UncoveredClassesEither(rules, entries) ==
  {c \in ClassesOf(rules) : \A e \in entries : e.class # c}

\* uncoveredRuleClasses.
UncoveredClasses(rules, entries) ==
  {c \in ClassesOf(rules) : \E expect \in BOOLEAN :
     [class |-> c, expect |-> expect] \notin entries}

\* The classes `eval run` reports as failed.
FailedClasses(rules, metrics, minPrecision, minRecall) ==
  {c \in DOMAIN metrics :
     \/ BelowPrecision(metrics[c], IF c \in ClassesOf(rules)
                                   THEN PrecisionThreshold(rules, c) ELSE minPrecision)
     \/ BelowRecall(metrics[c], minRecall)}

\* Add-one smoothed precision, rounded down.
MeasuredConfidence(m) == (100 * (m.tp + 1)) \div (m.tp + m.fp + 2)
=============================================================================
