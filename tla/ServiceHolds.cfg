SPECIFICATION Spec
CONSTANTS
  a1 = a1
  a2 = a2
  a3 = a3
  b1 = b1
  rev1 = rev1
  rev2 = rev2
  Callers = {c1, c2}
  IDs = {id1, id2}
  Policies = {p1}
  PolicyRevisions = {prev1}
  Subjects = {s1, s2}
  PipelineRevisions = {rev1}
  OperationIDs = {}
  RunIDs = {run1}
  Positions = {a1, a2, a3, b1}
  PublishedBefore <- MCPublishedBefore
  BlockerOwners = {"POLICY_DISABLE"}
  Nil = Nil
  ExplicitDrafts = {}
  Requests <- HoldRequests
  BlockerUpdates <- Releases
  MaxLog = 3
  MaxPolicyRetries = 2
  InitiallyCommitted = {rev1}
SYMMETRY IdentitySymmetry
INVARIANTS
  HeldUntilReleased
  StopAccountsForMembers
PROPERTIES
  ImplementsPromise
