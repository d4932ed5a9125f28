SPECIFICATION Spec
CONSTANT MaxDepth = 9
INVARIANT ConsumersCanStage
