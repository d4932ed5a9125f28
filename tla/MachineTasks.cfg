SPECIFICATION Spec
CONSTANTS
  Nil = nil
  Targets = {nil}
  Priorities = {100}
  NORMAL = 100
  Arbiters <- OnlyDefault
  Kinds = {"local", "emitter", "send"}
  Direct = {"Event", "Start", "Stop", "Other"}
  Mailed = {"Start", "Stop"}
  MaxStage = 4
  MaxSend = 2
  MaxTasks = 3
INVARIANTS StopIsFinal HandlesKept RunningTasksAreHeld
