SPECIFICATION FairSessionSpec
CONSTANTS
    None = None
    NameOrder <- NamesInOrder
    r1 = r1
    r2 = r2
    MaxEvents = 3
    s1 = s1
    s2 = s2
    t1 = t1
    t2 = t2
    k1 = k1
    k2 = k2
    Sessions = {s1}
    Terminals = {t1, t2}
    Calls = {k1}
    Configs <- ThreeConfigs
    Window <- Windows
    Tokens <- Fifteen
    MaxFailures = 3
    MaxCalls = 4
PROPERTY DisabledForAnHour
CHECK_DEADLOCK FALSE
