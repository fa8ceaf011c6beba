CONSTANTS
  task = task
  app = app
  hover = hover
  figure = figure
  plain = plain
  ground = ground
  Caller = {task, app}
  Stabilizer = stabilizer
  Free = free
  Goal = {hover, figure}
  None = none
  Null = null
  CallLimit = 1
  Slot = {figure}
  Type = {plain}
  Point = {ground, hover}
  Origin = ground
SPECIFICATION FairDataSpec
PROPERTIES
  UnchangedWhileEvaluated
  StartIsWhole
  CommandReturns
  MotorsAreCut
