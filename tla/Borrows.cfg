SPECIFICATION Spec
CONSTANT MaxDepth = 9
INVARIANTS BehaviorsCanStage OnlyUserCallsFail
