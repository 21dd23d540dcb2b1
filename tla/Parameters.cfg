SPECIFICATION Spec
CONSTANTS
    root = root  child = child  first = first  second = second
    None = None  Bad = Bad
    Parameter = {first, second}
    Registry = {root, child}
    Value = {0, 1, 2}
    Initial <- DefaultOne
    Printed <- LastDigitLost
    Listened = {second}
    Asks <- AskForBoth
    Path <- Paths
    Owner <- OwnerOfEach
    Order <- RootFirst
    Documents <- ForeignDocuments
    MaxEntries = 3
VIEW NoHistory
INVARIANT TypeOK
PROPERTY ReadIsComplete
PROPERTY ListenersCanRead
PROPERTY SavedComesBack
