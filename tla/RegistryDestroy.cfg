SPECIFICATION DestroyingSpec
CONSTANTS
    a = a  b = b  c = c  twin = twin
    v1 = v1  v2 = v2  v3 = v3
    None = None
    Registry = {a}
    RegistryName <- OneRegistryName
    LowerOf <- LowerNames
    Variable = {v1, v2, v3}
    VariableName <- OwnNames
VIEW NoHistory
INVARIANT RegisteredAreListed
