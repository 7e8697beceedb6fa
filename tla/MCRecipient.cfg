SPECIFICATION Spec
CONSTANTS
    Mailboxes = {o, g}
    Owners = {o}
    Modules <- TwoModules
    Actions = {a1}
    MaxReading = 1
    MaxGrants = 2
    MaxOwnerGrants = 1
    Invitations = {i1}
    FailedLimit = 1
    ChallengeLife = 1
    SessionLife = 1
    MaxTime = 1
    Servers = {p1, p2}
    Tokens = {t1}
    MaxLog = 4
    MaxLost = 1
    ChallengeTime = 1
    GrantTime = 1
    MaxMinutes = 1
INVARIANTS
    SharingOnlyNarrows
    OneUseEach
PROPERTIES
    NothingServedAfterRevocation
    SignedOutStaysOut
SYMMETRY Symmetry
CHECK_DEADLOCK FALSE
