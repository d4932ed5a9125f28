SPECIFICATION Spec
CONSTANTS
  Nil = nil
  Targets = {nil, s1}
  Priorities = {0, 100, 200}
  NORMAL = 100
  Arbiters <- OnlyDefault
  Kinds = {"send"}
  Direct = {"Request", "Start"}
  Mailed = {"Request"}
  MaxStage = 3
  MaxSend = 1
  MaxTasks = 1
PROPERTY BestRequestApplied
