SPECIFICATION Spec
CONSTANTS
  c1 = c1
  c2 = c2
  c3 = c3
  h1 = h1
  h2 = h2
  body1 = body1
  other = other
  bad = bad
  formA = formA
  formB = formB
  Callers = {c1, c3}
  Handles = {h1, h2}
  HandleOf <- OnePerHandle
  Pipelines = {p1, p2}
  OperationIDs = {op1, op2}
  RevisionIDs = {r1, r2}
  Bodies = {body1, other, bad}
  Forms = {formA, formB}
  Canonical <- TwoBodiesOneBad
  Damage <- OneCell
  Nil = Nil
SYMMETRY RowSymmetry
INVARIANTS
  RevisionTypeOK
  TablesAgree
  AcknowledgedIsDurable
  ReturnsWhatWasMinted
PROPERTIES
  ImplementsLedger
