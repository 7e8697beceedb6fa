SPECIFICATION Spec
CONSTANTS
    Slots = {s1, s2}
    Links = {l1, l2}
    Reminders = {r1}
    MaxAttempts = 2
    MaxReschedules = 1
    MaxCallbacks = 3
    BookSlots = {t1, t2}
    Bookings = {b1, b2}
    Keys = {k1, k2, k3}
    HoldTime = 1
    MaxClock = 2
    MaxSent = 3
    CallKeys = {c1, c2}
    Fingerprints = {f1, f2}
    Events = {e1, e2}
    Intents = {1, 2}
    CurrentIntent = 2
    RateLimit = 2
    Captures = {photo, voice}
    Handlers = {h1, h2}
    Areas <- TwoAreas
    Commissioned = {"building"}
    MaxPresses = 4
    MaxMishaps = 1
INVARIANTS
    PromisesKept
    NothingOfAnOldSlot
    AnswersAgree
    StepIsEarned
    AcknowledgedIsKept
    RestartIsClean
    NothingLinkedIsLost
    SequencesAreUnique
    ReportedIsDurable
    NoGhostInvestigation
    ApprovedIsAccepted
PROPERTIES
    CancellationIsFinal
SYMMETRY Symmetry
CHECK_DEADLOCK FALSE
