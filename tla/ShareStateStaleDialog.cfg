SPECIFICATION Spec
CONSTANTS
  Key = {k1}
  Field = {f, g}
  Value = {None, v}
  NoChange = NoChange
  None = None
  Inherit = Inherit
  Filtered = {}
  NonNoneField = {}
  ReadOnly = FALSE
  IsDiff = TRUE
  DialogSurvivesSync = TRUE
INVARIANTS BaselineTracksPeer
