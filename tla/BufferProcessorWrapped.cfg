SPECIFICATION AnySpec
CONSTANTS
    Variable = {v1}
    Value = {0}
    MaxSize = 2
    MaxKeyPoints = 0
PROPERTY ProcessorTerminates
