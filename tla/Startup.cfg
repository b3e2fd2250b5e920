SPECIFICATION FairSpec
CONSTANTS
    Instances = {i1}
    Providers = {p1, p2}
    ApiKeys = {k1, k2}
    Prices = {"a", "b"}
    Secrets = {s1, s2}
    Databases <- McDatabases
    MaxCrashes = 1
    MaxEdits = 1
INVARIANTS MoneyOnce KeysKept ServedIsWhole ChoicesKept
PROPERTY StartsInTheEnd
CHECK_DEADLOCK FALSE
