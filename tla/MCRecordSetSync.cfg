SPECIFICATION MCSpec
CONSTANTS
  Key = {k1}
  Field = {f}
  Value = {None, v, w}
  NoChange = NoChange
  None = None
  Inherit = Inherit
  Filtered = {}
  NonNoneField = {}
  Removed = Removed
  Tries = 3
INVARIANTS TypeOK BaselineRebuildsServer CaughtUpAgrees
PROPERTIES RemovalSparesEdits Delivered ImplementsShareState
