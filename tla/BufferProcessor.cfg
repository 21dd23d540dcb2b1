SPECIFICATION StraightSpec
CONSTANTS
    Variable = {v1}
    Value = {0, 1}
    MaxSize = 5
    MaxKeyPoints = 0
INVARIANT BufferConsistent
PROPERTY VariablesFollowIndex
PROPERTY ListenersFollowIndex
PROPERTY WholeWindowProcessed
PROPERTY ProcessorTerminates
