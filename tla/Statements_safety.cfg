SPECIFICATION Spec
CONSTANTS
    Num <- MCNum
    CoreList <- MCCoreList
    Cidr <- MCCidr
    Ips <- MCIps
    Weak <- MCWeak
    Scopes <- Scoped
INVARIANTS Replayable DeletesRemove Confined
CHECK_DEADLOCK FALSE
