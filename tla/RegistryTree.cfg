SPECIFICATION Spec
CONSTANTS
    a = a  b = b  c = c  twin = twin
    v1 = v1  v2 = v2  v3 = v3
    None = None
    Registry = {a, b, c}
    RegistryName <- NamesOfOneKey
    LowerOf <- LowerNames
    Variable = {v1, v2}
    VariableName <- SameName
VIEW NoHistory
SYMMETRY VariableSymmetry
INVARIANT TreeWellFormed
INVARIANT NamesAreCurrent
INVARIANT RegistriesAgree
PROPERTY RestrictionHolds
PROPERTY VariablesAreTold
