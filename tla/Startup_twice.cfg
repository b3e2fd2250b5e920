SPECIFICATION Spec
CONSTANTS
    Instances = {i1, i2}
    Providers = {p1}
    ApiKeys = {k1}
    Prices = {"a"}
    Secrets = {s1}
    Databases <- TwoDatabases
    MaxCrashes = 0
    MaxEdits = 0
INVARIANT MoneyOnce
CHECK_DEADLOCK FALSE
