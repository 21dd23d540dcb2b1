\* Three variables of one lower-case name, in and out of three registries.
CONSTANTS
    v1 = v1
    v2 = v2
    v3 = v3
    Variables = {v1, v2, v3}
    NoVariable = NoVariable
    NoNamespace = NoNamespace
    Separator = "."
    LowerOf <- MCLowerOf
    NameOf <- MCNameOf
    OwnNamespaces <- MCOwnNamespaces
    ParentName <- MCParentName
SPECIFICATION Spec
INVARIANTS
    MapMatchesList
    SearchesFindListed
    NamespacesAreLists
PROPERTIES
    CollisionsOnlyByMoving
