SPECIFICATION Spec
CONSTANTS
  Nil = Nil
  NoNode = NoNode
  Schema <- MCSchema
  FieldOf <- MCFieldOf
  FirstSubmissions <- MCFirstSubmissions
  Catalogs <- MCCatalogs
  LowerInputs <- MCLowerInputs
INVARIANT
  NoTrailingData
CHECK_DEADLOCK FALSE
