SPECIFICATION Spec
CONSTANTS
  Key = {k1}
  Field = {f}
  Value = {None, v, w}
  NoChange = NoChange
  None = None
  Inherit = Inherit
  Filtered = {}
  NonNoneField = {}
  Removed = Removed
  Tries = 3
INVARIANT RetryLosesNothing
