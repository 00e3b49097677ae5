--------------------------- MODULE PoliciesProofs ---------------------------
(***************************************************************************)
(* What the rule libraries of odg-core promise, for every set of columns,  *)
(* types and capabilities, every length of a masked value and every set of *)
(* validation results between which the rounding of a mean can tell.       *)
(***************************************************************************)
EXTENDS Policies, FiniteSetTheorems, TLAPS

-----------------------------------------------------------------------------
(***************************************************************************)
(* Contracts.  The schema in force still has every column the consumers    *)
(* agreed to, with its type; nobody relies on the other columns.           *)
(***************************************************************************)
Compatible(old, new) ==
  /\ DOMAIN old \subseteq DOMAIN new
  /\ \A name \in DOMAIN old : new[name].data_type = old[name].data_type

ContractInv == Compatible(agreed, contract)

(* A change that breaks nothing keeps the columns and their types. *)
LEMMA QuietChangeIsCompatible ==
  ASSUME NEW old, NEW new, GovernanceAction(old, new) \in {"no_change", "auto_approve"}
  PROVE  Compatible(old, new)
<1> DEFINE found(name) == IF name \in DOMAIN old THEN ClassifyModified(name, old, new)
                                                 ELSE ClassifyNew(name, new)
           removed == {<<"column_removed", name>> : name \in DOMAIN old \ DOMAIN new}
<1>1. detect_breaking_changes(old, new).breaking =
        removed \cup UNION {found(name).breaking : name \in DOMAIN new}
  BY DEF detect_breaking_changes
<1>2. detect_breaking_changes(old, new).breaking = {}
  BY DEF GovernanceAction
<1>3. DOMAIN old \subseteq DOMAIN new
  <2>1. ASSUME NEW name \in DOMAIN old \ DOMAIN new PROVE FALSE
    <3>1. <<"column_removed", name>> \in removed
      OBVIOUS
    <3> HIDE DEF removed, found
    <3> QED BY <1>1, <1>2, <3>1
  <2> QED BY <2>1
<1>4. ASSUME NEW name \in DOMAIN old PROVE new[name].data_type = old[name].data_type
  <2>1. found(name).breaking = {}
    BY <1>1, <1>2, <1>3
  <2> QED BY <2>1 DEF ClassifyModified
<1> QED BY <1>3, <1>4 DEF Compatible

(* A chain of compatible changes is compatible.                            *)
LEMMA CompatibleTransitive ==
  ASSUME NEW a, NEW b, NEW c, Compatible(a, b), Compatible(b, c)
  PROVE  Compatible(a, c)
BY DEF Compatible

(* However many changes take effect without asking the consumers, data     *)
(* that is valid under the contract in force is valid under the one they   *)
(* agreed to (detect_breaking_changes, validate_data).                     *)
THEOREM ConsumersAreSafe == Spec => []ConsumersKeepWorking
<1>1. Init => ContractInv
  BY DEF Init, ContractInit, ContractInv, Compatible
<1>2. ContractInv /\ [Next]_policyVars => ContractInv'
  <2> SUFFICES ASSUME ContractInv, [Next]_policyVars PROVE ContractInv'
    OBVIOUS
  <2>1. CASE ChangeQuietly
    <3>1. PICK new : /\ GovernanceAction(contract, new) \in {"no_change", "auto_approve"}
                     /\ contract' = new /\ agreed' = agreed
      BY <2>1 DEF ChangeQuietly
    <3>2. Compatible(agreed, new)
      BY <3>1, QuietChangeIsCompatible, CompatibleTransitive DEF ContractInv
    <3> QED BY <3>1, <3>2 DEF ContractInv
  <2>2. CASE ChangeApproved
    BY <2>2 DEF ChangeApproved, ContractInv, Compatible
  <2>3. CASE load_contract
    BY <2>3 DEF load_contract, contractVars, ContractInv, Compatible
  <2>4. CASE UNCHANGED contractVars
    BY <2>4 DEF contractVars, ContractInv
  <2> QED BY <2>1, <2>2, <2>3, <2>4 DEF Next, ContractNext, policyVars
<1>3. ContractInv => ConsumersKeepWorking
  BY DEF ContractInv, Compatible, ConsumersKeepWorking, Valid
<1> QED BY <1>1, <1>2, <1>3, PTL DEF Spec
-----------------------------------------------------------------------------
(***************************************************************************)
(* Privacy.                                                                *)
(***************************************************************************)
LEMMA MaskIsPartial ==
  ASSUME NEW length \in Nat, NEW first \in Nat, NEW last \in Nat
  PROVE  LET shown == PartialMask(length, first, last) IN
         /\ Cardinality(shown) <= first + last
         /\ length > 0 => \E i \in 1 .. length : i \notin shown
<1> DEFINE shown == PartialMask(length, first, last)
<1>1. CASE length <= first + last
  <2>1. shown = {}
    BY <1>1 DEF PartialMask
  <2>2. length > 0 => 1 \in 1 .. length
    OBVIOUS
  <2> QED BY <2>1, <2>2, FS_EmptySet
<1>2. CASE ~(length <= first + last)
  <2> DEFINE end == IF last = 0 THEN {} ELSE length - last + 1 .. length
  <2>1. shown = 1 .. first \cup end
    BY <1>2 DEF PartialMask
  <2>2. IsFiniteSet(1 .. first) /\ Cardinality(1 .. first) = first
    BY FS_Interval
  <2>3. IsFiniteSet(end) /\ Cardinality(end) = last
    <3>1. CASE last = 0
      BY <3>1, FS_EmptySet
    <3>2. CASE last # 0
      <4>1. length - last + 1 \in Int /\ length \in Int /\ ~(length - last + 1 > length)
        BY <3>2
      <4> QED BY <3>2, <4>1, FS_Interval
    <3> QED BY <3>1, <3>2
  <2> HIDE DEF end
  <2>4. Cardinality(shown) <= first + last
    <3>1. Cardinality(1 .. first \cap end) \in Nat
      BY <2>2, FS_Intersection, FS_CardinalityType
    <3>2. Cardinality(1 .. first \cup end) = first + last - Cardinality(1 .. first \cap end)
      BY <2>2, <2>3, FS_Union
    <3> QED BY <2>1, <3>1, <3>2
  <2>5. first + 1 \in 1 .. length /\ first + 1 \notin shown
    BY <1>2, <2>1 DEF end
  <2> QED BY <2>4, <2>5
<1> QED BY <1>1, <1>2

Masking ==
  /\ masked.length \in Nat /\ masked.first \in Nat /\ masked.last \in Nat
  /\ masked.shown = PartialMask(masked.length, masked.first, masked.last)

(* A partial mask shows at most the characters it was told to, and never   *)
(* a whole value (PartialMasker.mask), whatever its settings.              *)
THEOREM MasksHide == Spec => []MaskHides
<1>1. Init => Masking
  BY DEF Init, PrivacyInit, Masking, PartialMask
<1>2. Masking /\ [Next]_policyVars => Masking'
  <2> SUFFICES ASSUME Masking, [Next]_policyVars PROVE Masking'
    OBVIOUS
  <2>1. CASE Mask
    BY <2>1, LengthAssumption DEF Mask, Masking, PartialMask
  <2>2. CASE UNCHANGED masked
    BY <2>2 DEF Masking
  <2> QED BY <2>1, <2>2 DEF Next, PrivacyNext, Transfer, policyVars, privacyVars
<1>3. Masking => MaskHides
  BY MaskIsPartial DEF Masking, MaskHides
<1> QED BY <1>1, <1>2, <1>3, PTL DEF Spec

(* Every framework a jurisdiction names is one of the registry's.          *)
LEMMA FrameworksHaveCheckers ==
  ASSUME NEW j \in Jurisdiction
  PROVE  get_jurisdiction_policy(j).applicable_frameworks \subseteq ComplianceFramework
<1>1. get_jurisdiction_policy(j).applicable_frameworks = JURISDICTION_FRAMEWORKS[j]
  BY DEF get_jurisdiction_policy
<1>2. CASE j = "br"
  BY <1>2, <1>1 DEF JURISDICTION_FRAMEWORKS, ComplianceFramework, Jurisdiction
<1>3. CASE j = "eu"
  BY <1>3, <1>1 DEF JURISDICTION_FRAMEWORKS, ComplianceFramework, Jurisdiction
<1>4. CASE j = "us"
  BY <1>4, <1>1 DEF JURISDICTION_FRAMEWORKS, ComplianceFramework, Jurisdiction
<1>5. CASE j = "global"
  BY <1>5, <1>1 DEF JURISDICTION_FRAMEWORKS, ComplianceFramework, Jurisdiction
<1> QED BY <1>2, <1>3, <1>4, <1>5 DEF Jurisdiction

(* The step of RestrictedDataStays. *)
StaysWhereRestricted ==
  /\ get_jurisdiction_policy(location).data_transfer_restricted => location' = location
  /\ get_jurisdiction_policy(location').applicable_frameworks \subseteq ComplianceFramework

(* A dataset never leaves a jurisdiction that restricts transfers, and     *)
(* every framework that applies where it is has a checker: the Rego policy *)
(* and odg-core, which keep their lists apart, agree.                      *)
THEOREM RestrictedDataIsKept == Spec => RestrictedDataStays
<1> DEFINE Placed == location \in Jurisdiction
<1>1. Init => Placed
  BY DEF Init, PrivacyInit
<1>2. Placed /\ [Next]_policyVars => Placed' /\ [StaysWhereRestricted]_privacyVars
  <2> SUFFICES ASSUME Placed, [Next]_policyVars
               PROVE  Placed' /\ [StaysWhereRestricted]_privacyVars
    OBVIOUS
  <2>1. CASE Transfer
    <3>1. location' \in Jurisdiction /\ allow_transfer(location, location')
      BY <2>1 DEF Transfer
    <3>2. get_jurisdiction_policy(location).data_transfer_restricted => location' = location
      BY <3>1 DEF get_jurisdiction_policy, allow_transfer, restricted_jurisdictions
    <3> QED BY <3>1, <3>2, FrameworksHaveCheckers DEF StaysWhereRestricted
  <2>2. CASE UNCHANGED location
    <3>1. location' \in Jurisdiction
      BY <2>2
    <3> QED BY <2>2, <3>1, FrameworksHaveCheckers DEF StaysWhereRestricted
  <2> QED BY <2>1, <2>2 DEF Next, PrivacyNext, Mask, policyVars, privacyVars
<1> HIDE DEF Placed
<1>3. Spec => [][StaysWhereRestricted]_privacyVars
  BY <1>1, <1>2, PTL DEF Spec
<1> QED BY <1>3 DEF RestrictedDataStays, StaysWhereRestricted
-----------------------------------------------------------------------------
(***************************************************************************)
(* Quality.  The scores are numbers, and the overall score is one of the   *)
(* values their mean may be rounded to.                                    *)
(***************************************************************************)
Counted == passes \in [Dimensions -> Nat] /\ totals \in [Dimensions -> Nat]

QualityInv == Counted /\ dq_score \in OverallScore(DimensionScores)

(* The mean of OverallScore is over six dimensions.                        *)
LEMMA SixDimensions == Cardinality(Dimensions) = 6
<1>1. IsFiniteSet({"completeness"}) /\ Cardinality({"completeness"}) = 1
  BY FS_Singleton
<1> DEFINE s2 == {"completeness"} \cup {"accuracy"}
           s3 == s2 \cup {"consistency"}
           s4 == s3 \cup {"timeliness"}
           s5 == s4 \cup {"uniqueness"}
           s6 == s5 \cup {"validity"}
<1>2. IsFiniteSet(s2) /\ Cardinality(s2) = 2
  BY <1>1, FS_AddElement
<1>3. IsFiniteSet(s3) /\ Cardinality(s3) = 3
  BY <1>2, FS_AddElement
<1>4. IsFiniteSet(s4) /\ Cardinality(s4) = 4
  BY <1>3, FS_AddElement
<1>5. IsFiniteSet(s5) /\ Cardinality(s5) = 5
  BY <1>4, FS_AddElement
<1>6. Cardinality(s6) = 6
  BY <1>5, FS_AddElement
<1>7. Dimensions = s6
  BY DEF Dimensions
<1> QED BY <1>6, <1>7

(* A suite of the quality gate has finitely many expectations.             *)
LEMMA SuitesAreFinite ==
  ASSUME NEW layer \in Layers
  PROVE  IsFiniteSet(DOMAIN LoadSuite(layer))
<1>1. \E n \in Nat : DOMAIN LoadSuite(layer) = 1 .. n
  <2>1. CASE layer = "bronze"
    BY <2>1 DEF LoadSuite
  <2>2. CASE layer = "silver"
    BY <2>2 DEF LoadSuite
  <2>3. CASE layer = "gold"
    BY <2>3 DEF LoadSuite
  <2>4. CASE layer = "platinum"
    BY <2>4 DEF LoadSuite
  <2> QED BY <2>1, <2>2, <2>3, <2>4 DEF Layers
<1> QED BY <1>1, FS_Interval

(* A score is an integer, of units; a dimension without results has Unit.  *)
LEMMA ScoresAreNumbers ==
  ASSUME Counted, NEW dim \in Dimensions
  PROVE  DimensionScores[dim] \in Int
<1> DEFINE earned == Unit * passes[dim]
           measured == totals[dim]
<1>1. earned \in Int /\ Unit \in Int /\ measured \in Nat
  BY UnitAssumption DEF Counted
<1>2. DimensionScores[dim] = IF measured = 0 THEN Unit ELSE earned \div measured
  BY DEF DimensionScores
<1> HIDE DEF earned, measured
<1> QED BY <1>1, <1>2

(* A scorer without results says 1.0, exactly.                             *)
LEMMA QualityInitially ==
  ASSUME QualityInit
  PROVE  QualityInv
<1>1. Counted
  BY DEF QualityInit, Counted
<1>2. ASSUME NEW dim \in Dimensions PROVE DimensionScores[dim] = Unit
  BY DEF QualityInit, DimensionScores
<1>3. SumOfScores(DimensionScores) = 6 * Unit
  BY <1>2, UnitAssumption DEF SumOfScores, Dimensions
<1>4. 600 * Unit \in Rounded(6 * Unit)
  BY UnitAssumption DEF Rounded
<1> QED BY <1>1, <1>3, <1>4 DEF QualityInv, QualityInit, OverallScore

(* Every validation leaves numbers and a score rounded from them.          *)
LEMMA QualityStep ==
  ASSUME QualityInv, [Next]_policyVars
  PROVE  QualityInv'
<1>1. CASE Validate
  <2>1. PICK layer \in Layers :
          totals' = [dim \in Dimensions |-> Cardinality(
            {i \in DOMAIN LoadSuite(layer) :
               _EXPECTATION_DIMENSION_MAP[LoadSuite(layer)[i]] = dim})]
    BY <1>1 DEF Validate
  <2>2. ASSUME NEW dim \in Dimensions
        PROVE  Cardinality({i \in DOMAIN LoadSuite(layer) :
                 _EXPECTATION_DIMENSION_MAP[LoadSuite(layer)[i]] = dim}) \in Nat
    BY SuitesAreFinite, FS_Subset, FS_CardinalityType
  <2>3. totals' \in [Dimensions -> Nat]
    BY <2>1, <2>2
  <2>4. Counted'
    BY <1>1, <2>3 DEF Validate, Counted
  <2>5. (dq_score \in OverallScore(DimensionScores))'
    BY <1>1 DEF Validate, OverallScore
  <2> QED BY <2>4, <2>5 DEF QualityInv
<1>2. CASE Evaluate
  <2>1. Counted'
    BY <1>2, ResultsAssumption DEF Evaluate, Counted
  <2>2. (dq_score \in OverallScore(DimensionScores))'
    BY <1>2 DEF Evaluate, OverallScore
  <2> QED BY <2>1, <2>2 DEF QualityInv
<1>3. CASE UNCHANGED qualityVars
  BY <1>3 DEF qualityVars, QualityInv, Counted, OverallScore, DimensionScores
<1> QED BY <1>1, <1>2, <1>3 DEF Next, QualityNext, policyVars

(* The two tables of thresholds agree where both speak, and each threshold *)
(* is a whole number of hundredths of the scale.                           *)
LEMMA ThresholdsAgree ==
  ASSUME NEW layer \in DOMAIN _DQ_THRESHOLDS
  PROVE  /\ DEFAULT_THRESHOLDS[layer] = _DQ_THRESHOLDS[layer]
         /\ _DQ_THRESHOLDS[layer] \in Nat
         /\ \E k \in Int : _DQ_THRESHOLDS[layer] * Unit = 100 * k
<1>1. layer \in {"bronze", "silver", "gold"}
  BY DEF _DQ_THRESHOLDS
<1>2. PICK u \in Int : Unit = 20 * u
  BY UnitAssumption
<1>3. /\ DEFAULT_THRESHOLDS[layer] = _DQ_THRESHOLDS[layer]
      /\ _DQ_THRESHOLDS[layer] \in {70, 85, 95}
  BY <1>1 DEF _DQ_THRESHOLDS, DEFAULT_THRESHOLDS, Layers
<1>4. \E k \in Int : 70 * Unit = 100 * k
  <2> WITNESS 14 * u \in Int
  <2> QED BY <1>2
<1>5. \E k \in Int : 85 * Unit = 100 * k
  <2> WITNESS 17 * u \in Int
  <2> QED BY <1>2
<1>6. \E k \in Int : 95 * Unit = 100 * k
  <2> WITNESS 19 * u \in Int
  <2> QED BY <1>2
<1> QED BY <1>3, <1>4, <1>5, <1>6

(* Between a sum of scores and a threshold that differ lies more than the  *)
(* rounding, so that it puts no score on the wrong side.                   *)
LEMMA RoundingKeepsSides ==
  ASSUME NEW sum \in Int, NEW least \in Int, NEW mean \in Rounded(sum)
  PROVE  /\ sum > least => mean >= 100 * least
         /\ mean >= 100 * least => sum >= least
<1>1. mean \in Int /\ 100 * sum - Rounding <= mean /\ mean <= 100 * sum + Rounding
  BY UnitAssumption DEF Rounded
<1> QED BY <1>1, UnitAssumption

(* Six scores that reach k, one of them exceeding it, exceed 6 * k.        *)
LEMMA SixReachMore ==
  ASSUME NEW a \in Int, NEW b \in Int, NEW c \in Int, NEW d \in Int, NEW e \in Int,
         NEW f \in Int, NEW k \in Int,
         a >= k, b >= k, c >= k, d >= k, e >= k, f >= k,
         a > k \/ b > k \/ c > k \/ d > k \/ e > k \/ f > k
  PROVE  a + b + c + d + e + f > 6 * k
OBVIOUS

LEMMA SLACoversPromotion ==
  ASSUME QualityInv, NEW layer \in DOMAIN _DQ_THRESHOLDS
  PROVE  /\ ClearsSLA(DimensionScores, layer) => Promoted(layer)
         /\ Promoted(layer) =>
              100 * SumOfScores(DimensionScores)
                >= _DQ_THRESHOLDS[layer] * Unit * Cardinality(Dimensions)
<1> DEFINE t == _DQ_THRESHOLDS[layer]
           s == DimensionScores
           sum == SumOfScores(s)
<1>1. t \in Nat /\ DEFAULT_THRESHOLDS[layer] = t
  BY ThresholdsAgree
<1>2. PICK k \in Int : t * Unit = 100 * k
  BY ThresholdsAgree
<1>3. /\ s.completeness \in Int /\ s.accuracy \in Int /\ s.consistency \in Int
      /\ s.timeliness \in Int /\ s.uniqueness \in Int /\ s.validity \in Int
  BY ScoresAreNumbers DEF Dimensions, QualityInv
<1>4. sum \in Int
  BY <1>3 DEF SumOfScores
<1>5. dq_score \in Rounded(sum)
  BY DEF QualityInv, OverallScore
<1>6. Promoted(layer) <=> dq_score >= 100 * (6 * k)
  <2>1. 6 * t * Unit = 6 * (t * Unit)
    BY <1>1, UnitAssumption
  <2> QED BY <1>2, <2>1 DEF Promoted
<1>7. t * Unit * Cardinality(Dimensions) = 100 * (6 * k)
  BY <1>2, SixDimensions
<1> HIDE DEF t, s, sum
<1>8. ASSUME ClearsSLA(s, layer) PROVE sum > 6 * k
  <2>1. \A dim \in Dimensions : 100 * s[dim] >= 100 * k
    BY <1>1, <1>2, <1>8 DEF ClearsSLA, MeetsSLA
  <2>2. \E dim \in Dimensions : 100 * s[dim] > 100 * k
    BY <1>1, <1>2, <1>8 DEF ClearsSLA
  <2>3. /\ s.completeness >= k /\ s.accuracy >= k /\ s.consistency >= k
        /\ s.timeliness >= k /\ s.uniqueness >= k /\ s.validity >= k
    BY <1>3, <2>1 DEF Dimensions
  <2>4. \/ s.completeness > k \/ s.accuracy > k \/ s.consistency > k
        \/ s.timeliness > k \/ s.uniqueness > k \/ s.validity > k
    BY <1>3, <2>2 DEF Dimensions
  <2> QED BY <1>3, <2>3, <2>4, SixReachMore DEF sum, SumOfScores
<1> DEFINE least == 6 * k
<1>9. least \in Int
  OBVIOUS
<1> HIDE DEF least
<1>10. /\ sum > least => dq_score >= 100 * least
       /\ dq_score >= 100 * least => sum >= least
  BY <1>4, <1>5, <1>9, RoundingKeepsSides
<1>11. sum >= least => 100 * sum >= 100 * least
  BY <1>4, <1>9
<1> QED BY <1>6, <1>7, <1>8, <1>10, <1>11 DEF s, sum, t, least

(* A dataset that clears the SLA of its layer in every dimension has the   *)
(* score the promotion out of it asks for, and none is promoted on a mean  *)
(* that only rounding lifted (check_sla, overall_score, the thresholds of  *)
(* the lakehouse agent), whatever was validated and whatever was not.      *)
THEOREM SLASuffices == Spec => []SLAMeetsPromotion
<1>1. Init => QualityInv
  BY QualityInitially DEF Init
<1>2. QualityInv /\ [Next]_policyVars => QualityInv'
  BY QualityStep
<1>3. QualityInv => SLAMeetsPromotion
  BY SLACoversPromotion DEF SLAMeetsPromotion
<1> QED BY <1>1, <1>2, <1>3, PTL DEF Spec
-----------------------------------------------------------------------------
(***************************************************************************)
(* Compliance.  A checker's result depends on the findings alone: that     *)
(* there are finitely many, and that evidence takes findings away.         *)
(***************************************************************************)
LEMMA FiveAreFinite ==
  ASSUME NEW a, NEW b, NEW c, NEW d, NEW e
  PROVE  IsFiniteSet({a, b, c, d, e})
<1>1. IsFiniteSet({a} \cup {b})
  BY FS_Singleton, FS_AddElement
<1>2. IsFiniteSet(({a} \cup {b}) \cup {c})
  BY <1>1, FS_AddElement
<1>3. IsFiniteSet((({a} \cup {b}) \cup {c}) \cup {d})
  BY <1>2, FS_AddElement
<1>4. IsFiniteSet(((({a} \cup {b}) \cup {c}) \cup {d}) \cup {e})
  BY <1>3, FS_AddElement
<1>5. {a, b, c, d, e} = ((({a} \cup {b}) \cup {c}) \cup {d}) \cup {e}
  OBVIOUS
<1> QED BY <1>4, <1>5

LEMMA ValuesAreFinite ==
  ASSUME NEW S, IsFiniteSet(S), NEW f, DOMAIN f = S, f = [x \in S |-> f[x]]
  PROVE  IsFiniteSet({f[x] : x \in S})
<1> DEFINE T == {f[x] : x \in S}
<1>1. f \in Surjection(S, T)
  BY DEF Surjection
<1> HIDE DEF T
<1>2. IsFiniteSet(T)
  BY <1>1, FS_Surjection
<1> QED BY <1>2 DEF T

(* Fewer findings lower no score and fail no check. *)
LEMMA FewerFindings ==
  ASSUME NEW f, NEW g, IsFiniteSet(f), g \subseteq f, NEW total \in Nat, NEW percent \in Nat
  PROVE  /\ total - Cardinality(g) >= total - Cardinality(f)
         /\ NoCritical(f) => NoCritical(g)
         /\ ScoreAtLeast(percent, f, total) => ScoreAtLeast(percent, g, total)
<1>1. /\ Cardinality(g) <= Cardinality(f)
      /\ Cardinality(g) \in Nat /\ Cardinality(f) \in Nat
  BY FS_Subset, FS_CardinalityType
<1>2. NoCritical(f) => NoCritical(g)
  BY DEF NoCritical
<1>3. ScoreAtLeast(percent, f, total) => ScoreAtLeast(percent, g, total)
  <2> DEFINE least == percent * total
  <2>1. least \in Nat
    OBVIOUS
  <2> HIDE DEF least
  <2>2. 100 * (total - Cardinality(f)) >= least => 100 * (total - Cardinality(g)) >= least
    BY <1>1, <2>1
  <2> QED BY <2>2 DEF ScoreAtLeast, least
<1> QED BY <1>1, <1>2, <1>3

(* More evidence leaves fewer rules unmet.                                 *)
LEMMA MissingShrinks ==
  ASSUME NEW rules, NEW e, NEW key
  PROVE  /\ Missing(rules, e \cup {key}) \subseteq Missing(rules, e)
         /\ Missing(rules, e) \subseteq rules
BY DEF Missing

(* r and q are the results of a checker before and after more evidence. *)
Better(q, r) ==
  /\ q.findings \subseteq r.findings
  /\ q.score >= r.score
  /\ r.passed => q.passed

(* A checker that passes without a critical finding, with fewer findings.  *)
LEMMA NoCriticalBetter ==
  ASSUME NEW f, NEW g, IsFiniteSet(f), g \subseteq f, NEW total \in Nat
  PROVE  Better(ComplianceResult(g, total, NoCritical(g)),
                ComplianceResult(f, total, NoCritical(f)))
BY FewerFindings DEF Better, ComplianceResult

(* A checker that passes from a score on, with fewer findings.             *)
LEMMA ScoreBetter ==
  ASSUME NEW f, NEW g, IsFiniteSet(f), g \subseteq f, NEW total \in Nat, NEW percent \in Nat
  PROVE  Better(ComplianceResult(g, total, ScoreAtLeast(percent, g, total)),
                ComplianceResult(f, total, ScoreAtLeast(percent, f, total)))
BY FewerFindings DEF Better, ComplianceResult

LEMMA AreasAreFinite == IsFiniteSet(DAMA_KNOWLEDGE_AREAS) /\ IsFiniteSet(DAMADimension)
<1> DEFINE a == {"data_governance", "data_quality", "metadata_management", "data_architecture",
                 "data_modeling"}
           b == {"data_storage", "data_security", "data_integration", "reference_data",
                 "data_warehousing"}
           c == {"document_management", "document_management", "document_management",
                 "document_management", "document_management"}
           d == {"completeness", "accuracy", "consistency", "timeliness", "uniqueness"}
           e == {"validity", "validity", "validity", "validity", "validity"}
<1>1. /\ IsFiniteSet(a) /\ IsFiniteSet(b) /\ IsFiniteSet(c) /\ IsFiniteSet(d) /\ IsFiniteSet(e)
  BY FiveAreFinite
<1>2. DAMA_KNOWLEDGE_AREAS = (a \cup b) \cup c
  BY DEF DAMA_KNOWLEDGE_AREAS
<1>3. DAMADimension = d \cup e
  BY DEF DAMADimension
<1> HIDE DEF a, b, c, d, e
<1> QED BY <1>1, <1>2, <1>3, FS_Union

DAMARules ==
  {High(a) : a \in {"data_governance", "data_quality", "data_security"}}
    \cup {Medium(a) : a \in DAMA_KNOWLEDGE_AREAS
                           \ {"data_governance", "data_quality", "data_security"}}
    \cup {Medium(d) : d \in DAMADimension}

LEMMA DAMARulesAreFinite == IsFiniteSet(DAMARules)
<1> DEFINE weighty == {"data_governance", "data_quality", "data_security"}
           f == [a \in DAMA_KNOWLEDGE_AREAS |-> High(a)]
           g == [a \in DAMA_KNOWLEDGE_AREAS |-> Medium(a)]
           h == [d \in DAMADimension |-> Medium(d)]
           F == {f[a] : a \in DAMA_KNOWLEDGE_AREAS}
           G == {g[a] : a \in DAMA_KNOWLEDGE_AREAS}
           H == {h[d] : d \in DAMADimension}
<1>1. IsFiniteSet(F) /\ IsFiniteSet(G) /\ IsFiniteSet(H)
  BY AreasAreFinite, ValuesAreFinite
<1>2. {High(a) : a \in weighty} \subseteq F
  BY DEF DAMA_KNOWLEDGE_AREAS
<1>3. {Medium(a) : a \in DAMA_KNOWLEDGE_AREAS \ weighty} \subseteq G
  OBVIOUS
<1>4. {Medium(d) : d \in DAMADimension} = H
  OBVIOUS
<1>5. DAMARules \subseteq (F \cup G) \cup H
  BY <1>2, <1>3, <1>4 DEF DAMARules
<1> HIDE DEF F, G, H
<1>6. IsFiniteSet((F \cup G) \cup H)
  BY <1>1, FS_Union
<1> QED BY <1>5, <1>6, FS_Subset

(* A checker whose rules are a set, before and after. *)
LEMMA RulesBetter ==
  ASSUME NEW rules, IsFiniteSet(rules), NEW e, NEW key, NEW total \in Nat
  PROVE  LET f == Missing(rules, e)
             g == Missing(rules, e \cup {key})
         IN  Better(ComplianceResult(g, total, NoCritical(g)),
                    ComplianceResult(f, total, NoCritical(f)))
<1>1. IsFiniteSet(Missing(rules, e))
  BY MissingShrinks, FS_Subset
<1> QED BY <1>1, MissingShrinks, NoCriticalBetter

LEMMA ScoredRulesBetter ==
  ASSUME NEW rules, IsFiniteSet(rules), NEW e, NEW key, NEW total \in Nat,
         NEW percent \in Nat
  PROVE  LET f == Missing(rules, e)
             g == Missing(rules, e \cup {key})
         IN  Better(ComplianceResult(g, total, ScoreAtLeast(percent, g, total)),
                    ComplianceResult(f, total, ScoreAtLeast(percent, f, total)))
<1>1. IsFiniteSet(Missing(rules, e))
  BY MissingShrinks, FS_Subset
<1> QED BY <1>1, MissingShrinks, ScoreBetter

(* Each of the seven checkers: one more piece of the evidence it looks at  *)
(* makes its result no worse, whatever the risk level.                     *)
LEMMA CheckersImprove ==
  ASSUME NEW fw \in ComplianceFramework, NEW e, NEW key \in EvidenceFor(fw), NEW level
  PROVE  Better(RegistryCheck(fw, e \cup {key}, level), RegistryCheck(fw, e, level))
<1>1. CASE fw = "lgpd"
  <2> DEFINE rules == {Critical("legal_basis"), High("supports_data_subject_rights"),
                       Medium("dpo"), High("security_measures")}
  <2>1. rules = {Critical("legal_basis"), High("supports_data_subject_rights"),
                 Medium("dpo"), High("security_measures"), High("security_measures")}
    OBVIOUS
  <2>2. IsFiniteSet(rules)
    BY <2>1, FiveAreFinite
  <2>3. \A x : RegistryCheck(fw, x, level) =
                 ComplianceResult(Missing(rules, x), 4, NoCritical(Missing(rules, x)))
    BY <1>1 DEF RegistryCheck, LGPDCheck
  <2> HIDE DEF rules
  <2> QED BY <2>2, <2>3, RulesBetter
<1>2. CASE fw = "gdpr"
  <2> DEFINE rules == {Critical("lawful_basis"), High("supports_data_portability"),
                       Medium("dpia")}
             transfer(x) == {r \in {Critical("adequacy_decision")} :
                               "transfers_outside_eu" \in x /\ "adequacy_decision" \notin x}
             f(x) == Missing(rules, x) \cup transfer(x)
             all == {Critical("lawful_basis"), High("supports_data_portability"),
                     Medium("dpia"), Critical("adequacy_decision"),
                     Critical("adequacy_decision")}
  <2>1. IsFiniteSet(all)
    BY FiveAreFinite
  <2>2. f(e) \subseteq all
    BY DEF Missing
  <2>3. IsFiniteSet(f(e))
    BY <2>1, <2>2, FS_Subset
  <2>4. key # "transfers_outside_eu"
    BY <1>2 DEF EvidenceFor
  <2>5. f(e \cup {key}) \subseteq f(e)
    BY <2>4, MissingShrinks
  <2>6. \A x : RegistryCheck(fw, x, level) = ComplianceResult(f(x), 4, NoCritical(f(x)))
    BY <1>2 DEF RegistryCheck, GDPRCheck
  <2> HIDE DEF f
  <2> QED BY <2>3, <2>5, <2>6, NoCriticalBetter
<1>3. CASE fw = "eu_ai_act"
  <2> DEFINE rules == (IF level = "high"
                       THEN {Critical("risk_management_system"), Critical("data_governance"),
                             High("human_oversight")} ELSE {})
                      \cup (IF level \in {"high", "limited"}
                            THEN {Medium("transparency_info")} ELSE {})
             all == {Critical("risk_management_system"), Critical("data_governance"),
                     High("human_oversight"), Medium("transparency_info"),
                     Medium("transparency_info")}
             total == IF level = "high" THEN 4 ELSE 1
  <2>1. IsFiniteSet(all) /\ rules \subseteq all
    BY FiveAreFinite
  <2>2. IsFiniteSet(rules) /\ total \in Nat
    BY <2>1, FS_Subset
  <2>3. \A x : RegistryCheck(fw, x, level) =
                 ComplianceResult(Missing(rules, x), total, NoCritical(Missing(rules, x)))
    BY <1>3 DEF RegistryCheck, EUAIActCheck
  <2> HIDE DEF rules, total
  <2> QED BY <2>2, <2>3, RulesBetter
<1>4. CASE fw = "sox"
  <2> DEFINE rules == {Critical("audit_trail"), Critical("access_controls"),
                       High("change_management"), High("data_retention_policy")}
  <2>1. rules = {Critical("audit_trail"), Critical("access_controls"),
                 High("change_management"), High("data_retention_policy"),
                 High("data_retention_policy")}
    OBVIOUS
  <2>2. IsFiniteSet(rules)
    BY <2>1, FiveAreFinite
  <2>3. \A x : RegistryCheck(fw, x, level) =
                 ComplianceResult(Missing(rules, x), 4, NoCritical(Missing(rules, x)))
    BY <1>4 DEF RegistryCheck, SOXCheck
  <2> HIDE DEF rules
  <2> QED BY <2>2, <2>3, RulesBetter
<1>5. CASE fw = "nist_ai_rmf"
  <2> DEFINE rules == {High("ai_governance_policy"), Medium("ai_risk_mapping"),
                       Medium("ai_metrics"), High("ai_incident_response")}
  <2>1. rules = {High("ai_governance_policy"), Medium("ai_risk_mapping"),
                 Medium("ai_metrics"), High("ai_incident_response"),
                 High("ai_incident_response")}
    OBVIOUS
  <2>2. IsFiniteSet(rules)
    BY <2>1, FiveAreFinite
  <2>3. \A x : RegistryCheck(fw, x, level) =
                 ComplianceResult(Missing(rules, x), 4, ScoreAtLeast(50, Missing(rules, x), 4))
    BY <1>5 DEF RegistryCheck, NISTCheck
  <2> HIDE DEF rules
  <2>4. Better(ComplianceResult(Missing(rules, e \cup {key}), 4,
                              ScoreAtLeast(50, Missing(rules, e \cup {key}), 4)),
             ComplianceResult(Missing(rules, e), 4,
                              ScoreAtLeast(50, Missing(rules, e), 4)))
    BY <2>2, ScoredRulesBetter
  <2> QED BY <2>3, <2>4
<1>6. CASE fw = "iso_42001"
  <2> DEFINE rules == {Medium("ai_scope_definition"), Medium("ai_leadership_commitment"),
                       High("ai_risk_assessment"), High("ai_lifecycle_management"),
                       Medium("ai_monitoring")}
  <2>1. IsFiniteSet(rules)
    BY FiveAreFinite
  <2>2. \A x : RegistryCheck(fw, x, level) =
                 ComplianceResult(Missing(rules, x), 5, ScoreAtLeast(60, Missing(rules, x), 5))
    BY <1>6 DEF RegistryCheck, ISO42001Check
  <2> HIDE DEF rules
  <2>3. Better(ComplianceResult(Missing(rules, e \cup {key}), 5,
                              ScoreAtLeast(60, Missing(rules, e \cup {key}), 5)),
             ComplianceResult(Missing(rules, e), 5,
                              ScoreAtLeast(60, Missing(rules, e), 5)))
    BY <2>1, ScoredRulesBetter
  <2> QED BY <2>2, <2>3
<1>7. CASE fw = "dama_dmbok"
  <2>1. \A x : RegistryCheck(fw, x, level) =
                 ComplianceResult(Missing(DAMARules, x), 17,
                                  ScoreAtLeast(70, Missing(DAMARules, x), 17))
    BY <1>7 DEF RegistryCheck, DAMACheck, DAMARules
  <2>2. Better(ComplianceResult(Missing(DAMARules, e \cup {key}), 17,
                              ScoreAtLeast(70, Missing(DAMARules, e \cup {key}), 17)),
             ComplianceResult(Missing(DAMARules, e), 17,
                              ScoreAtLeast(70, Missing(DAMARules, e), 17)))
    BY DAMARulesAreFinite, ScoredRulesBetter
  <2> QED BY <2>1, <2>2
<1> QED BY <1>1, <1>2, <1>3, <1>4, <1>5, <1>6, <1>7 DEF ComplianceFramework

(* The step of EvidenceNeverHurts. *)
GatheringHelps ==
  Gather => /\ Report'.findings \subseteq Report.findings
            /\ Report'.score >= Report.score
            /\ Report.passed => Report'.passed

(* A piece of evidence more never adds a finding, lowers a score or fails  *)
(* a check that passed, under any framework (the checkers' check).         *)
THEOREM EvidenceHelps == Spec => EvidenceNeverHurts
<1> DEFINE Framed == framework \in ComplianceFramework
<1>1. Init => Framed
  BY DEF Init, ComplianceInit
<1>2. Framed /\ [Next]_policyVars => Framed' /\ [GatheringHelps]_complianceVars
  <2> SUFFICES ASSUME Framed, [Next]_policyVars
               PROVE  Framed' /\ GatheringHelps
    OBVIOUS
  <2>1. framework' = framework
    BY DEF Next, ComplianceNext, Gather, AddCapability, StartTransfer, policyVars,
           complianceVars
  <2>2. ASSUME Gather PROVE Better(Report', Report)
    <3>1. PICK key \in EvidenceFor(framework) : evidence' = evidence \cup {key}
      BY <2>2 DEF Gather
    <3>2. Report' = RegistryCheck(framework, evidence \cup {key}, Level)
      BY <2>1, <2>2, <3>1 DEF Gather, Report, Level
    <3> QED BY <3>2, CheckersImprove DEF Report
  <2> QED BY <2>1, <2>2 DEF GatheringHelps, Better
<1> HIDE DEF Framed
<1>3. Spec => [][GatheringHelps]_complianceVars
  BY <1>1, <1>2, PTL DEF Spec
<1> QED BY <1>3 DEF EvidenceNeverHurts, GatheringHelps
-----------------------------------------------------------------------------
(* What get_required_controls asks for leaves the EU AI Act no finding. *)
LEMMA RequiredControlsSuffice ==
  ASSUME NEW e, NEW level \in {"high", "limited", "minimal"},
         get_required_controls(level) \subseteq e
  PROVE  EUAIActCheck(e, level).findings = {}
BY DEF get_required_controls, EUAIActCheck, Missing, ComplianceResult, Critical, High, Medium

(* What get_required_controls names satisfies the EU AI Act checker, for   *)
(* whatever capabilities an AI system has or is given later.               *)
THEOREM ControlsAreEnough == Spec => []ControlsSuffice
<1>1. Level \in {"high", "limited", "minimal"}
  BY DEF Level, classify_ai_risk
<1>2. ASSUME framework = "eu_ai_act", get_required_controls(Level) \subseteq evidence
      PROVE  Report.findings = {}
  <2>1. Report = EUAIActCheck(evidence, Level)
    BY <1>2 DEF Report, RegistryCheck
  <2> QED BY <1>1, <1>2, <2>1, RequiredControlsSuffice
<1>3. ControlsSuffice
  BY <1>2 DEF ControlsSuffice
<1> QED BY <1>3, PTL
=============================================================================
