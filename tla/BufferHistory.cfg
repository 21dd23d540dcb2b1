SPECIFICATION HistorySpec
CONSTANTS
    Variable = {v1}
    Value = {0, 1}
    MaxSize = 5
    MaxKeyPoints = 1
PROPERTY ImplementsHistory
