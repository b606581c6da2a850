SPECIFICATION Spec
CONSTANTS
    Syncers = {"timer", "ticker"}
    Ticker = "ticker"
    Remotes = {"a"}
    Foreign = {}
    MaxTrunk = 2
    MaxUpsets = 1
PROPERTY FreezeIsForeign
