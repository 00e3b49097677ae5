------------------------------ MODULE Privacy ------------------------------
(***************************************************************************)
(* Data residency and masking: where a dataset may be moved (the Rego      *)
(* policy) against what odg-core says of its jurisdiction, and the         *)
(* characters a mask leaves visible.                                       *)
(***************************************************************************)
EXTENDS Naturals, Sequences, Compliance

CONSTANT MaxLength \* bound: characters of a masked value

ASSUME LengthAssumption == MaxLength \in Nat

VARIABLES
  location, \* the jurisdiction the dataset is in
  masked    \* the last masking: the value's length, the mask and its result

privacyVars == <<location, masked>>

----------------------------------------------------------------------------
\* Residency.

Jurisdiction == {"br", "eu", "us", "global"}

JURISDICTION_FRAMEWORKS == [j \in Jurisdiction |-> {"dama_dmbok"} \cup
  CASE j = "br" -> {"lgpd"}
    [] j = "eu" -> {"gdpr", "eu_ai_act"}
    [] j = "us" -> {"sox", "nist_ai_rmf"}
    [] j = "global" -> {"iso_42001"}]

get_jurisdiction_policy(j) ==
  [applicable_frameworks |-> JURISDICTION_FRAMEWORKS[j],
   data_transfer_restricted |-> j \in {"eu", "br"}]

restricted_jurisdictions == {"eu", "br"}

\* Mutant of allow_transfer: what may come in may go out.
AllowTransferEither(source, target) ==
  \/ source = target
  \/ source \notin restricted_jurisdictions
  \/ target \notin restricted_jurisdictions

allow_transfer(source, target) ==
  \/ source = target
  \/ source \notin restricted_jurisdictions
  \/ source = "global"

Transfer ==
  /\ \E target \in Jurisdiction : allow_transfer(location, target) /\ location' = target
  /\ UNCHANGED masked

----------------------------------------------------------------------------
\* Masking.  A value is its length, a masked value the positions still shown.

\* Mutant of PartialMask: value[-0:] is the whole value.
PartialMaskNoGuard(length, first, last) ==
  IF length <= first + last THEN {}
  ELSE 1 .. first \cup (IF last = 0 THEN 1 .. length ELSE length - last + 1 .. length)

\* PartialMasker.mask
PartialMask(length, first, last) ==
  IF length <= first + last THEN {}
  ELSE 1 .. first \cup (IF last = 0 THEN {} ELSE length - last + 1 .. length)

\* RedactMasker and HashMasker show nothing of the value.
Mask ==
  /\ \E length, first, last \in 0 .. MaxLength :
       masked' = [length |-> length, first |-> first, last |-> last,
                  shown |-> PartialMask(length, first, last)]
  /\ UNCHANGED location

PrivacyInit ==
  /\ location \in Jurisdiction
  /\ masked = [length |-> 0, first |-> 0, last |-> 0, shown |-> {}]

PrivacyNext == Transfer \/ Mask

----------------------------------------------------------------------------
\* Properties.

\* The Rego policy and odg-core, which keep their lists apart, agree: a
\* dataset whose jurisdiction restricts transfers never leaves it, whatever
\* way it came there, and every framework that applies where it is has a
\* checker in the default registry.
RestrictedDataStays ==
  [][/\ get_jurisdiction_policy(location).data_transfer_restricted => location' = location
     /\ get_jurisdiction_policy(location').applicable_frameworks
          \subseteq ComplianceFramework]_privacyVars

\* A partial mask shows at most the characters it was told to, and always
\* hides one of a value that has any, at every length and setting.
MaskHides ==
  LET shown == masked.shown IN
  /\ Cardinality(shown) <= masked.first + masked.last
  /\ masked.length > 0 => \E i \in 1 .. masked.length : i \notin shown
=============================================================================
