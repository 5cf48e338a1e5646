SPECIFICATION FairSpec
CONSTANTS
  c1 = c1
  c2 = c2
  c3 = c3
  h1 = h1
  h2 = h2
  body1 = body1
  other = other
  bad = bad
  formA = formA
  formB = formB
  Callers = {c1, c2, c3}
  Handles = {h1, h2}
  HandleOf <- MCHandleOf
  Pipelines = {p1}
  OperationIDs = {op1}
  RevisionIDs = {r1}
  Bodies = {body1, other}
  Forms = {formA, formB}
  Canonical <- TwoBodies
  Damage <- NoDamage
  Nil = Nil

PROPERTIES
  CallsReturn
