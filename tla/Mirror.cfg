SPECIFICATION FairSpec
CONSTANTS
    Syncers = {"timer", "ticker"}
    Ticker = "ticker"
    Remotes = {"a", "b"}
    Foreign = {9}
    MaxTrunk = 2
    MaxUpsets = 2
INVARIANT TypeOK
PROPERTIES NeverOverwritten FreezeHasCause MirrorFollows
