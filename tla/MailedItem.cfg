SPECIFICATION Spec
CONSTANTS
  Key = {k1}
  Field = {f, g}
  Value = {None, v, w}
  NoChange = NoChange
  None = None
  Inherit = Inherit
  Filtered = {}
  NonNoneField = {}
  MaxSent = 2
PROPERTY EditsSurviveUpdates
