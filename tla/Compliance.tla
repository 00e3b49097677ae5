----------------------------- MODULE Compliance -----------------------------
(***************************************************************************)
(* The compliance checkers of odg-core, and an organisation that collects  *)
(* evidence for one framework and asks the default registry for a check at *)
(* every step.  The context key has_x of the code is the evidence x here.  *)
(***************************************************************************)
EXTENDS Naturals, FiniteSets

CONSTANT Capabilities \* the capabilities an AI system may be given

VARIABLES
  framework,     \* the framework under check
  capabilities,  \* what the AI system under check can do
  evidence       \* the facts the context states

complianceVars == <<framework, capabilities, evidence>>

----------------------------------------------------------------------------
\* Classification of AI systems (EU AI Act).

DEFAULT_HIGH_RISK_INDICATORS ==
  {"biometric_identification", "critical_infrastructure", "education_scoring",
   "employment_decisions", "essential_services", "law_enforcement", "migration_control"}

DEFAULT_LIMITED_RISK_INDICATORS ==
  {"chatbot", "emotion_recognition", "deepfake_generation", "content_generation"}

classify_ai_risk(caps) ==
  IF caps \cap DEFAULT_HIGH_RISK_INDICATORS # {} THEN "high"
  ELSE IF caps \cap DEFAULT_LIMITED_RISK_INDICATORS # {} THEN "limited"
  ELSE "minimal"

\* Mutant of get_required_controls: risk management is left to the assessment.
RequiredControlsShort(level) ==
  {"transparency_info"}
    \cup (IF level = "limited" THEN {"user_notification"} ELSE {})
    \cup (IF level = "high"
          THEN {"data_governance", "technical_documentation", "record_keeping",
                "human_oversight", "accuracy_robustness", "conformity_assessment"} ELSE {})

get_required_controls(level) ==
  {"transparency_info"}
    \cup (IF level = "limited" THEN {"user_notification"} ELSE {})
    \cup (IF level = "high"
          THEN {"risk_management_system", "data_governance", "technical_documentation",
                "record_keeping", "human_oversight", "accuracy_robustness",
                "conformity_assessment"} ELSE {})

----------------------------------------------------------------------------
\* The checkers: a rule whose evidence is missing is a finding.

Critical(key) == [key |-> key, severity |-> "critical"]
High(key)     == [key |-> key, severity |-> "high"]
Medium(key)   == [key |-> key, severity |-> "medium"]

Missing(rules, e) == {rule \in rules : rule.key \notin e}

\* The score is (total - findings) / total.
ComplianceResult(findings, total, passed) ==
  [findings |-> findings, total |-> total, score |-> total - Cardinality(findings),
   passed |-> passed]

NoCritical(findings) == \A f \in findings : f.severity # "critical"

\* total - findings is at least percent of total.
ScoreAtLeast(percent, findings, total) ==
  100 * (total - Cardinality(findings)) >= percent * total

LGPDCheck(e) ==
  LET f == Missing({Critical("legal_basis"), High("supports_data_subject_rights"),
                    Medium("dpo"), High("security_measures")}, e)
  IN  ComplianceResult(f, 4, NoCritical(f))

\* Mutant of GDPRCheck: the adequacy decision itself is taken for a transfer.
GDPRCheckSwapped(e) ==
  LET f == Missing({Critical("lawful_basis"), High("supports_data_portability"),
                    Medium("dpia")}, e)
             \cup {r \in {Critical("adequacy_decision")} :
                     "adequacy_decision" \in e /\ "transfers_outside_eu" \notin e}
  IN  ComplianceResult(f, 4, NoCritical(f))

GDPRCheck(e) ==
  LET f == Missing({Critical("lawful_basis"), High("supports_data_portability"),
                    Medium("dpia")}, e)
             \cup {r \in {Critical("adequacy_decision")} :
                     "transfers_outside_eu" \in e /\ "adequacy_decision" \notin e}
  IN  ComplianceResult(f, 4, NoCritical(f))

EUAIActCheck(e, level) ==
  LET f == Missing(
        (IF level = "high"
         THEN {Critical("risk_management_system"), Critical("data_governance"),
               High("human_oversight")} ELSE {})
        \cup (IF level \in {"high", "limited"} THEN {Medium("transparency_info")} ELSE {}), e)
  IN  ComplianceResult(f, IF level = "high" THEN 4 ELSE 1, NoCritical(f))

SOXCheck(e) ==
  LET f == Missing({Critical("audit_trail"), Critical("access_controls"),
                    High("change_management"), High("data_retention_policy")}, e)
  IN  ComplianceResult(f, 4, NoCritical(f))

NISTCheck(e) ==
  LET f == Missing({High("ai_governance_policy"), Medium("ai_risk_mapping"),
                    Medium("ai_metrics"), High("ai_incident_response")}, e)
  IN  ComplianceResult(f, 4, ScoreAtLeast(50, f, 4))

ISO42001Check(e) ==
  LET f == Missing({Medium("ai_scope_definition"), Medium("ai_leadership_commitment"),
                    High("ai_risk_assessment"), High("ai_lifecycle_management"),
                    Medium("ai_monitoring")}, e)
  IN  ComplianceResult(f, 5, ScoreAtLeast(60, f, 5))

DAMADimension ==
  {"completeness", "accuracy", "consistency", "timeliness", "uniqueness", "validity"}

DAMA_KNOWLEDGE_AREAS ==
  {"data_governance", "data_quality", "metadata_management", "data_architecture",
   "data_modeling", "data_storage", "data_security", "data_integration",
   "reference_data", "data_warehousing", "document_management"}

DAMACheck(e) ==
  LET weighty == {"data_governance", "data_quality", "data_security"}
      f == Missing({High(a) : a \in weighty}
                     \cup {Medium(a) : a \in DAMA_KNOWLEDGE_AREAS \ weighty}
                     \cup {Medium(d) : d \in DAMADimension}, e)
  IN  ComplianceResult(f, 17, ScoreAtLeast(70, f, 17))

\* create_default_registry and its check.
RegistryCheck(fw, e, level) ==
  CASE fw = "lgpd"        -> LGPDCheck(e)
    [] fw = "gdpr"        -> GDPRCheck(e)
    [] fw = "eu_ai_act"   -> EUAIActCheck(e, level)
    [] fw = "nist_ai_rmf" -> NISTCheck(e)
    [] fw = "iso_42001"   -> ISO42001Check(e)
    [] fw = "sox"         -> SOXCheck(e)
    [] fw = "dama_dmbok"  -> DAMACheck(e)

----------------------------------------------------------------------------
\* The organisation under check.

ComplianceFramework ==
  {"lgpd", "gdpr", "eu_ai_act", "nist_ai_rmf", "iso_42001", "sox", "dama_dmbok"}

\* The evidence a checker looks at.
EvidenceFor(fw) ==
  CASE fw = "gdpr"       -> {"lawful_basis", "supports_data_portability", "dpia", "adequacy_decision"}
    [] fw = "eu_ai_act"  -> get_required_controls("high") \cup get_required_controls("limited")
    [] fw = "dama_dmbok" -> DAMA_KNOWLEDGE_AREAS \cup DAMADimension
    [] OTHER             -> {f.key : f \in RegistryCheck(fw, {}, "minimal").findings}

Level  == classify_ai_risk(capabilities)
Report == RegistryCheck(framework, evidence, Level)

ComplianceInit ==
  /\ framework \in ComplianceFramework
  /\ capabilities = {}
  /\ evidence \in IF framework = "dama_dmbok" THEN {DAMA_KNOWLEDGE_AREAS, DAMADimension} ELSE {{}}

Gather ==
  /\ \E key \in EvidenceFor(framework) \ evidence : evidence' = evidence \cup {key}
  /\ UNCHANGED <<framework, capabilities>>

AddCapability ==
  /\ framework = "eu_ai_act"
  /\ \E cap \in Capabilities : capabilities' = capabilities \cup {cap}
  /\ UNCHANGED <<framework, evidence>>

StartTransfer ==
  /\ framework = "gdpr"
  /\ evidence' = evidence \cup {"transfers_outside_eu"}
  /\ UNCHANGED <<framework, capabilities>>

ComplianceNext == Gather \/ AddCapability \/ StartTransfer

----------------------------------------------------------------------------
\* Properties.

\* A piece of evidence more never adds a finding, lowers the score or turns a
\* passed check into a failed one, for any framework, also where a rule has
\* two conditions or the total depends on the risk level.
EvidenceNeverHurts ==
  [][Gather => /\ Report'.findings \subseteq Report.findings
               /\ Report'.score >= Report.score
               /\ Report.passed => Report'.passed]_complianceVars

\* What one module asks for is enough for the checker of another: with the
\* controls get_required_controls names for the risk of its capabilities, an
\* AI system has no finding under the EU AI Act, whatever was added meanwhile.
ControlsSuffice ==
  framework = "eu_ai_act" /\ get_required_controls(Level) \subseteq evidence =>
    Report.findings = {}
=============================================================================
