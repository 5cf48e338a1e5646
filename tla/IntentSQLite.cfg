SPECIFICATION Spec
CONSTANTS
  id1 = id1
  id2 = id2
  p1 = p1
  prev1 = prev1
  s1 = s1
  rev1 = rev1
  op = op
  OP = OP
  run1 = run1
  run2 = run2
  k1 = k1
  k2 = k2
  h1 = h1
  h2 = h2
  IDs = {id1, id2}
  Policies = {p1}
  PolicyRevisions = {prev1}
  Subjects = {s1}
  PipelineRevisions = {rev1}
  OperationIDs = {op, OP}
  RunIDs = {run1, run2}
  Positions = {}
  PublishedBefore <- MCPublishedBefore
  BlockerOwners = {"POLICY_DISABLE"}
  Nil = Nil
  NoCase <- MCNoCase
  Numeric <- MCNumeric
  Conns = {k1, k2}
  Handles = {h1, h2}
  HandleOf <- MCHandleOf
  Requests <- MCRequests
  Schemas <- MCSchemas
SYMMETRY MCSymmetry
INVARIANTS
  SQLiteTypeOK
  LockHeldByCall
  SchemaTakesTheContract
  AnswersStand
PROPERTIES
  OpenOnlyCreates
  ImplementsStore
