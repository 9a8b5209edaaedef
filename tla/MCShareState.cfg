SPECIFICATION MCSpec
CONSTANTS
  Key = {k1}
  Field = {f, g}
  f = f
  g = g
  Value = {None, v, w}
  NoChange = NoChange
  None = None
  Inherit = Inherit
  Filtered = {}
  NonNoneField = {}
  ReadOnly = FALSE
  IsDiff = TRUE
  DialogSurvivesSync = FALSE
  MaxSent = 3
INVARIANTS TypeOK BaselineTracksPeer FollowsNewest
PROPERTIES DivergenceIsPending ConflictsAreReal SyncKeepsEdits ConflictsComeFromPeer OtherSharesToo FilteredStaysHome Converges
