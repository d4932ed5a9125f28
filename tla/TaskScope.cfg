SPECIFICATION FairScopeSpec
CONSTANTS
  tree <- MCTree
  Scoped <- MCScoped
  MaxRequests = 3
  MaxPosts = 1
  Nil = 2
  Targets <- MCTargets
  Priorities = {100}
  NORMAL = 100
  Arbiters <- MCArbiters
  Kinds = {"local", "send"}
  Direct = {"Event", "Request", "Start", "Stop"}
  Mailed = {"Event", "Request"}
  MaxStage = 16
  MaxSend = 1
  MaxTasks = 6
INVARIANT TasksMatchBranch
PROPERTY ExitedTasksEnd
