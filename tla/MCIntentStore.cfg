SPECIFICATION StoreSpec
CONSTANTS
  p1 = p1
  s1 = s1
  rev1 = rev1
  op1 = op1
  op2 = op2
  run1 = run1
  pos1 = pos1
  IDs = {id1, id2}
  Policies = {p1}
  PolicyRevisions = {prev1}
  Subjects = {s1, s2}
  PipelineRevisions = {rev1}
  OperationIDs = {op1, op2}
  RunIDs = {run1, run2}
  Positions = {pos1}
  PublishedBefore <- MCPublishedBefore
  BlockerOwners = {"POLICY_DISABLE", "CAMPAIGN_PAUSE"}
  Nil = Nil
  ExplicitDrafts <- MCExplicitDrafts
  MaxLog = 2
SYMMETRY MCSymmetry
INVARIANTS
  StoreTypeOK
  IndexesAgree
  PolicyFoldsLog
PROPERTIES
  FrozenOnceStored
  TransitionsOnlyHold
CHECK_DEADLOCK FALSE
