SPECIFICATION ClearSpec
CONSTANTS
    Variable = {v1}
    Value = {0, 1}
    MaxSize = 3
    MaxKeyPoints = 0
INVARIANT IndicesInBuffer
