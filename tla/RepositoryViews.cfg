SPECIFICATION Spec
CONSTANTS
  View = {main, sync}
  ThisWins = {sync}
  Defers = {main, sync}
  Notifies = {main}
  main = main
  sync = sync
  a1 = a1
  a2 = a2
  x = x
  y = y
  Item = {i1}
  Attr = {a1, a2}
  Value = {x, y}
  Gone = Gone
  Same = Same
  NoView = NoView
  MaxVersion = 3
INVARIANT DeletedElsewhereIsResolved
CHECK_DEADLOCK FALSE
