SPECIFICATION Spec
CONSTANTS
  Nil = Nil
  NoNode = NoNode
  Schema <- MCSchema
  FieldOf <- MCFieldOf
  FirstSubmissions <- MCFirstSubmissions
  Catalogs <- MCCatalogs
  LowerInputs <- MCLowerInputs
INVARIANTS
  EscapesDecide
  StructureDecides
  SearchTypeOK
  AcceptedIsAcyclic
  CycleIsReal
  ValidateDecides
  ConvergedIsValid
  LoweredIsSameSource
  LowersWhatIsRepresentable
CHECK_DEADLOCK FALSE
