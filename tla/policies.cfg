SPECIFICATION Spec
CONSTANTS
  Capabilities <- OneOfEachRisk
  MaxLength = 4
  Columns = {"amount", "owner"}
  DataTypes = {"integer", "string"}
  Results <- ResultsAroundThresholds
  Unit = 20
  Rounding = 1
INVARIANTS
  ControlsSuffice
  MaskHides
  ConsumersKeepWorking
  SLAMeetsPromotion
PROPERTIES
  EvidenceNeverHurts
  RestrictedDataStays
CHECK_DEADLOCK FALSE
