SPECIFICATION Spec
CONSTANTS
  MaxPriority = 1
  RuleTypes = {r1, r2}
  Indices = 4
  Overflow = "panic"
  Panics = {"rule", "apply"}
  MaxOps = 4
INVARIANTS TypeOK NoOpLost AppliedOnce RulesAsInstalled
PROPERTY ImplementsOpQueue
