SPECIFICATION Spec
CHECK_DEADLOCK FALSE
CONSTANTS
    p1 = p1
    p2 = p2
    api = api
    cli = cli
    none = none
    NoOne = none
    Participants = {p1}
    Voiceprints = {1, 2}
    Api = {api}
    Cli = {cli}
    SamplesTarget = 1
    MaxConsents = 3
    MaxMishaps = 1
INVARIANTS
    RowsAndEnvelopesAgree
    EligibleUnderCurrentConsent
    AllClear
PROPERTIES
    DeletedStaysDeleted
    LockIsRespected
