SPECIFICATION Spec
CONSTANTS
    VMOrder <- MCOrder
    Configs <- MCConfigs
    Config0 <- Behind
    MaxEvents = 4
    None = None
INVARIANTS LedgerExclusive SharingExplained
PROPERTIES SharesKeptBehind
CHECK_DEADLOCK FALSE
