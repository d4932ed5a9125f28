SPECIFICATION Spec
CONSTANTS
  Nil = nil
  Targets = {nil}
  Priorities = {100}
  NORMAL = 100
  Arbiters <- ThreeArbiters
  Kinds = {"local", "emitter", "send"}
  Direct = {"Event", "Start", "Request"}
  Mailed = {"Event", "Request"}
  MaxStage = 4
  MaxSend = 3
  MaxTasks = 2
INVARIANTS TypeOK AtMostOneRequest EventsInOrder NoEventLost
PROPERTY AdvanceSettles
