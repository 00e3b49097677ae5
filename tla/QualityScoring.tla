-------------------------- MODULE QualityScoring --------------------------
(***************************************************************************)
(* The scores of a dataset: the results of a validation count for the six  *)
(* DAMA dimensions, and the scores are held against the SLA of the         *)
(* dataset's layer and against the threshold of the promotion out of it.   *)
(*                                                                         *)
(* The code computes with doubles.  A quotient and a literal are each      *)
(* rounded correctly, which keeps their order, so that one dimension is    *)
(* compared as if it were exact.  The mean is a rounded sum divided again: *)
(* it may miss the exact mean on either side, by much less than the least  *)
(* difference two exact means can have, and no more is assumed of it.  So  *)
(* 6 * 0.7 / 6 may come out below 0.7, as it does in Python 3.13.          *)
(***************************************************************************)
EXTENDS Medallion, Integers, Sequences, FiniteSets

CONSTANTS
  Results, \* what one dimension may get: expectations passed, of a total
  Unit,    \* the score 1.0 of a dimension; a multiple of every total
  Rounding \* the error of the mean at most, where 600 * Unit is the mean 1.0

\* Every threshold is a multiple of 1/20 but platinum's, which no promotion asks.
ASSUME UnitAssumption ==
  /\ Unit \in Nat \ {0} /\ Unit % 20 = 0
  /\ Rounding \in 0 .. 99
ASSUME ResultsAssumption ==
  \A r \in Results :
    /\ r.passed \in Nat /\ r.total \in Nat /\ r.passed <= r.total
    /\ r.total # 0 => Unit % r.total = 0

VARIABLES
  passes,  \* per dimension: expectations that succeeded
  totals,  \* per dimension: expectations that were evaluated
  dq_score \* the overall score, of 600 * Unit

qualityVars == <<passes, totals, dq_score>>

----------------------------------------------------------------------------

Dimensions ==
  {"completeness", "accuracy", "consistency", "timeliness", "uniqueness", "validity"}

_EXPECTATION_DIMENSION_MAP ==
  [not_null |-> "completeness", row_count_between |-> "completeness",
   values_between |-> "accuracy", mean_between |-> "accuracy",
   match_regex |-> "validity", in_set |-> "validity", of_type |-> "validity",
   unique |-> "uniqueness", compound_unique |-> "uniqueness",
   pair_equal |-> "consistency", strftime_format |-> "timeliness"]

\* A dimension no expectation speaks of is assumed to pass.
DimensionScores ==
  [dim \in Dimensions |->
    IF totals[dim] = 0 THEN Unit ELSE (Unit * passes[dim]) \div totals[dim]]

SumOfScores(scores) ==
  scores.completeness + scores.accuracy + scores.consistency
    + scores.timeliness + scores.uniqueness + scores.validity

\* What a mean over the dimensions may be rounded to, given its exact sum.
Rounded(sum) ==
  {mean \in 100 * sum - Rounding .. 100 * sum + Rounding : 0 <= mean /\ mean <= 600 * Unit}

\* Mutant of OverallScore: a dimension without results adds nothing to the mean.
OverallScoreMeasured(scores) ==
  Rounded(SumOfScores([dim \in Dimensions |-> IF totals[dim] = 0 THEN 0 ELSE scores[dim]]))

OverallScore(scores) == Rounded(SumOfScores(scores))

DEFAULT_THRESHOLDS == [layer \in Layers |->
  CASE layer = "bronze" -> 70 [] layer = "silver" -> 85
    [] layer = "gold" -> 95 [] layer = "platinum" -> 98]

\* check_sla, for all dimensions of the layer.
MeetsSLA(scores, layer) ==
  \A dim \in Dimensions : 100 * scores[dim] >= DEFAULT_THRESHOLDS[layer] * Unit

----------------------------------------------------------------------------

\* Without any result, every dimension and their mean are 1.0.
QualityInit ==
  /\ passes = [dim \in Dimensions |-> 0]
  /\ totals = [dim \in Dimensions |-> 0]
  /\ dq_score = 600 * Unit

\* The suites of the repository; no other suite is found, platinum's neither.
LoadSuite(layer) ==
  CASE layer = "bronze" -> <<"row_count_between", "not_null", "of_type">>
    [] layer = "silver" -> <<"row_count_between", "not_null", "unique", "not_null",
                             "strftime_format">>
    [] layer = "gold"   -> <<"row_count_between", "not_null", "unique", "not_null",
                             "not_null", "strftime_format", "strftime_format">>
    [] OTHER            -> <<>>

Unscored == \A dim \in Dimensions : totals[dim] = 0

\* QualityEngine.validate: every expectation of the suite is taken to succeed.
Validate ==
  /\ Unscored
  /\ \E layer \in Layers :
       totals' = [dim \in Dimensions |-> Cardinality(
         {i \in DOMAIN LoadSuite(layer) : _EXPECTATION_DIMENSION_MAP[LoadSuite(layer)[i]] = dim})]
  /\ passes' = totals'
  /\ dq_score' \in OverallScore(DimensionScores')

\* The scorer on the results of a real runner; those of an expectation the
\* map does not know count nowhere.
Evaluate ==
  /\ Unscored
  /\ \E result \in [Dimensions -> Results] :
       /\ passes' = [dim \in Dimensions |-> result[dim].passed]
       /\ totals' = [dim \in Dimensions |-> result[dim].total]
  /\ dq_score' \in OverallScore(DimensionScores')

QualityNext == Validate \/ Evaluate

----------------------------------------------------------------------------
\* Properties.

\* The comparison of PromotionService.promote.
Promoted(layer) == dq_score >= 6 * _DQ_THRESHOLDS[layer] * Unit

\* The SLA is met in every dimension, and in one with something to spare.
ClearsSLA(scores, layer) ==
  /\ MeetsSLA(scores, layer)
  /\ \E dim \in Dimensions : 100 * scores[dim] > DEFAULT_THRESHOLDS[layer] * Unit

\* Two tables of thresholds in two services, a mean over dimensions of which
\* some were never measured, and rounding.  A dataset that meets the SLA of
\* its layer in every dimension, and one of them with something to spare, has
\* the score the promotion to the next layer asks for; and no rounding lets
\* one through whose exact mean is too low.  Of a dataset that is exactly at
\* the threshold in all six nothing is said: rounding may refuse it.
SLAMeetsPromotion ==
  \A layer \in DOMAIN _DQ_THRESHOLDS :
    /\ ClearsSLA(DimensionScores, layer) => Promoted(layer)
    /\ Promoted(layer) =>
         100 * SumOfScores(DimensionScores)
           >= _DQ_THRESHOLDS[layer] * Unit * Cardinality(Dimensions)
=============================================================================
