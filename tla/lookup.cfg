SPECIFICATION Spec
CONSTANTS
    Hash <- HashOf
    Types <- SomeTypes
    Servers <- SomeServers
    MaxStored = 2
    Nothing = Nothing
    Own <- OwnExpression
INVARIANTS
    StoredByOwner
    LookupFindsStored
    RequestIsFresh
    NoIndexOutside
CHECK_DEADLOCK FALSE
