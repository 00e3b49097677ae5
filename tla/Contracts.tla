----------------------------- MODULE Contracts -----------------------------
(***************************************************************************)
(* The versions of one data contract: each proposed schema is compared     *)
(* with the present one, and a change that needs no approval takes effect  *)
(* at once.  A schema is a function from column names to their             *)
(* definitions; descriptions are left out, and nobody compares the primary *)
(* key or the pii flag.                                                    *)
(***************************************************************************)
EXTENDS FiniteSets

CONSTANTS
  Columns,   \* column names
  DataTypes  \* column types

VARIABLES
  loaded,   \* the contract's file has been loaded
  contract, \* the schema in force, without columns before that
  agreed    \* history: the schema in force when consumers were last asked

contractVars == <<loaded, contract, agreed>>

ColumnDefinition == [data_type : DataTypes, nullable : BOOLEAN]
DataContractSchema == UNION {[names -> ColumnDefinition] : names \in SUBSET Columns}

\* A dataset, by the types of its columns.
Datasets == UNION {[names -> DataTypes] : names \in SUBSET Columns}

----------------------------------------------------------------------------

\* A column that exists only in the new schema.
ClassifyNew(name, new) ==
  [breaking |-> IF ~new[name].nullable THEN {<<"non_nullable_column_added", name>>} ELSE {},
   non_breaking |-> IF new[name].nullable THEN {<<"nullable_column_added", name>>} ELSE {}]

\* Mutant of ClassifyModified: a new type is a change but not a breaking one.
ClassifyModifiedLenient(name, old, new) ==
  [breaking |-> IF old[name].nullable /\ ~new[name].nullable
                THEN {<<"nullable_to_non_nullable", name>>} ELSE {},
   non_breaking |-> {}]

\* A column that exists in both.
ClassifyModified(name, old, new) ==
  [breaking |->
     (IF old[name].data_type # new[name].data_type THEN {<<"type_changed", name>>} ELSE {})
     \cup (IF old[name].nullable /\ ~new[name].nullable
           THEN {<<"nullable_to_non_nullable", name>>} ELSE {}),
   non_breaking |-> {}]

detect_breaking_changes(old, new) ==
  LET removed == {<<"column_removed", name>> : name \in DOMAIN old \ DOMAIN new}
      found(name) == IF name \in DOMAIN old THEN ClassifyModified(name, old, new)
                                            ELSE ClassifyNew(name, new)
  IN  [breaking |-> removed \cup UNION {found(name).breaking : name \in DOMAIN new},
       non_breaking |-> UNION {found(name).non_breaking : name \in DOMAIN new}]

\* evaluate_contract_change: its governance_action.
GovernanceAction(old, new) ==
  LET changes == detect_breaking_changes(old, new) IN
  CASE changes.breaking = {} /\ changes.non_breaking = {} -> "no_change"
    [] changes.breaking = {} /\ changes.non_breaking # {} -> "auto_approve"
    [] \E c \in changes.breaking : c[1] = "column_removed" -> "veto_eligible"
    [] OTHER -> "raci_approval"

\* validate_data: nothing is missing and no type differs; columns the contract
\* does not know do no harm.
Valid(schema, data) ==
  \A name \in DOMAIN schema : name \in DOMAIN data /\ data[name] = schema[name].data_type

----------------------------------------------------------------------------

NoSchema == [name \in {} |-> {}]

ContractInit == loaded = FALSE /\ contract = NoSchema /\ agreed = NoSchema

\* The file is missing, is no mapping or does not validate, and nothing comes
\* of it; or it holds a schema, which is empty when it has no such section.
\* Consumers agree to what is loaded.
load_contract ==
  /\ ~loaded
  /\ \/ UNCHANGED contractVars
     \/ /\ loaded' = TRUE
        /\ contract' \in DataContractSchema
        /\ agreed' = contract'

\* A change without a breaking part needs no approval.
ChangeQuietly ==
  /\ loaded
  /\ \E new \in DataContractSchema :
       /\ GovernanceAction(contract, new) \in {"no_change", "auto_approve"}
       /\ contract' = new
  /\ UNCHANGED <<loaded, agreed>>

\* A breaking change that the approval workflow let through.
ChangeApproved ==
  /\ loaded
  /\ \E new \in DataContractSchema :
       /\ GovernanceAction(contract, new) \in {"raci_approval", "veto_eligible"}
       /\ contract' = new
       /\ agreed' = new
  /\ UNCHANGED loaded

ContractNext == load_contract \/ ChangeQuietly \/ ChangeApproved

----------------------------------------------------------------------------
\* Properties.

\* However many changes took effect without approval, data that is valid
\* under the contract in force is still valid under the schema the consumers
\* last agreed to.
ConsumersKeepWorking ==
  \A data \in Datasets : Valid(contract, data) => Valid(agreed, data)
=============================================================================
