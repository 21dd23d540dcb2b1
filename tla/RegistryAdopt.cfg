SPECIFICATION FailingChildSpec
CONSTANTS
    a = a  b = b  c = c  twin = twin
    v1 = v1  v2 = v2  v3 = v3
    None = None
    Registry = {a, b, twin}
    RegistryName <- TwinNames
    LowerOf <- LowerNames
    Variable = {v1}
    VariableName <- OneName
VIEW NoHistory
INVARIANT TreeConsistent
