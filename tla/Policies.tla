------------------------------ MODULE Policies ------------------------------
(***************************************************************************)
(* The libraries of odg-core that decide by rules alone.  They share no    *)
(* state, so a behaviour exercises one of them, and the others rest.       *)
(***************************************************************************)
EXTENDS Privacy, Contracts, QualityScoring

VARIABLE subject \* the library the behaviour exercises

policyVars == <<subject, complianceVars, privacyVars, contractVars, qualityVars>>

Init ==
  /\ subject \in {"compliance", "privacy", "contracts", "quality"}
  /\ ComplianceInit /\ (subject # "compliance" => framework = "lgpd")
  /\ PrivacyInit    /\ (subject # "privacy" => location = "global")
  /\ ContractInit
  /\ QualityInit

Next ==
  /\ UNCHANGED subject
  /\ \/ /\ subject = "compliance" /\ ComplianceNext
        /\ UNCHANGED <<privacyVars, contractVars, qualityVars>>
     \/ /\ subject = "privacy" /\ PrivacyNext
        /\ UNCHANGED <<complianceVars, contractVars, qualityVars>>
     \/ /\ subject = "contracts" /\ ContractNext
        /\ UNCHANGED <<complianceVars, privacyVars, qualityVars>>
     \/ /\ subject = "quality" /\ QualityNext
        /\ UNCHANGED <<complianceVars, privacyVars, contractVars>>

Spec == Init /\ [][Next]_policyVars
=============================================================================
