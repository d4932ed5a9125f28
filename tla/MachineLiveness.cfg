SPECIFICATION FairSpec
CONSTANTS
  Nil = nil
  Targets = {nil, s1}
  Priorities = {100, 200}
  NORMAL = 100
  Arbiters <- OnlyDefault
  Kinds = {"local", "send"}
  Direct = {"Event", "Request", "Start", "Stop"}
  Mailed = {"Event"}
  MaxStage = 4
  MaxSend = 2
  MaxTasks = 1
PROPERTIES BestRequestApplied AdvanceReturns EventsDispatched StopTakesEffect
