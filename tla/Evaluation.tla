----------------------------- MODULE Evaluation -----------------------------
(***************************************************************************)
(* evaluate_dataset (evaluate.py): the rules classifier on cases with one  *)
(* log event each, and the rates it reports.  A rate is computed as a      *)
(* fraction <<n, d>> and reported as the nearest number of units, of which *)
(* the code has 10000 to 1 (digits = 4).  Latencies are left out.          *)
(***************************************************************************)
EXTENDS Classification

Zero == <<0, 1>>
Plus(a, b) == <<a[1] * b[2] + b[1] * a[2], a[2] * b[2]>>

\* value / unit is as near to the rate as a multiple of 1 / unit can be.
Nearest(value, rate, unit) ==
  2 * (value * rate[2] - unit * rate[1]) \in -rate[2]..rate[2]

\* round(value, digits).  Which way a tie goes depends on the error of the floating-point number
\* (the exact half is not one, as a rule), so either value may be the nearest.
Rounded(rate, unit) ==
  LET below == (unit * rate[1]) \div rate[2]
  IN  CHOOSE value \in {below, below + 1} : Nearest(value, rate, unit)

Count(cases, Test(_)) == Cardinality({n \in DOMAIN cases : Test(cases[n])})

Predicted(case) == Classify(<<case.log>>).category

\* Faulty: a wrong prediction counts for both categories.
FalsePositivesOfAll(category, cases) ==
  Count(cases, LAMBDA c : c.expected_category # Predicted(c))

FalsePositives(category, cases) ==
  Count(cases, LAMBDA c : c.expected_category # category /\ Predicted(c) = category)

CategoryMetrics(category, cases, unit) ==
  LET true_positive == Count(cases, LAMBDA c : c.expected_category = category
                                               /\ Predicted(c) = category)
      false_negative == Count(cases, LAMBDA c : c.expected_category = category
                                                /\ Predicted(c) # category)
      precision == IF true_positive = 0 THEN Zero
                   ELSE <<true_positive, true_positive + FalsePositives(category, cases)>>
      recall == IF true_positive = 0 THEN Zero
                ELSE <<true_positive, true_positive + false_negative>>
      sum == Plus(precision, recall)
  IN  [support |-> Count(cases, LAMBDA c : c.expected_category = category),
       precision |-> Rounded(precision, unit),
       recall |-> Rounded(recall, unit),
       f1 |-> Rounded(IF sum[1] = 0 THEN Zero
                      ELSE <<2 * precision[1] * recall[1] * sum[2],
                             precision[2] * recall[2] * sum[1]>>, unit)]

CitationsAreValid(log, result) ==
  /\ result.category # "uncategorized" => result.cited_evidence_ids # {}
  /\ result.cited_evidence_ids \subseteq {log.event_id}

\* The macro average is that of the rounded f1s, rounded once more.  Of at least one case: an empty
\* dataset divides by zero (evaluate.py:114).
EvaluateDataset(cases, unit) ==
  LET categories == {c.expected_category : c \in ToSet(cases)}
      per_category == [category \in categories |-> CategoryMetrics(category, cases, unit)]
      f1_sum == FoldSet(LAMBDA category, sum : per_category[category].f1 + sum, 0, categories)
      Valid(c) == CitationsAreValid(c.log, Classify(<<c.log>>))
      Rate(Test(_)) == Rounded(<<Count(cases, Test), Len(cases)>>, unit)
  IN  [per_category |-> per_category,
       macro_f1 |-> Rounded(<<f1_sum, unit * Cardinality(categories)>>, unit),
       abstention_rate |-> Rate(LAMBDA c : Predicted(c) = "uncategorized"),
       unsupported_evidence_rate |->
         Rate(LAMBDA c : Predicted(c) # "uncategorized" /\ ~ Valid(c)),
       citation_validity |-> Rate(Valid)]
=============================================================================
