SPECIFICATION Spec
CONSTANTS
  k1 = k1
  k2 = k2
  f = f
  g = g
  v = v
  w = w
  Key <- MCKey
  Field <- MCField
  Value <- MCValue
  NoChange = NoChange
  Operand <- MCOperand
INVARIANTS TypeOK LoopsComputeOperators ConflictsStayOut
CHECK_DEADLOCK FALSE
