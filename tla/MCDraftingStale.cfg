SPECIFICATION Spec
CONSTANTS
    Commissioned <- TwoModules
    Callers = {c1, c2}
    MaxRevision = 4
    MaxHolds = 1
    Bodies <- SomeBodies
    MaxEvents = 3
    MaxDamage = 2
    AreaModules <- OneArea
    Surveyed <- BothModules
    Screens = {s1, s2}
    Artifacts = {p1, p2}
    AttachedTo = {p1}
    MaxEntries = 3
    Attempts = {a1, a2}
    RunIds = {r1}
    PacketSources <- TwoPackets
    Proxies <- SomeProxies
    Texts <- SomeTexts
PROPERTY
    StaleStaysStale
CHECK_DEADLOCK FALSE
