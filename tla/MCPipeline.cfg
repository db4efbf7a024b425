SPECIFICATION PipelineSpec
CHECK_DEADLOCK FALSE
CONSTANTS
    Layouts <- MCLayouts
    SpeechPad = 1
    MergeGap = 1
    MinSpeech = 2
    RegionLimit = 2
    Window = 4
    BudgetPercent = 67
    MaxUtterances = 2
    Costs = {1, 2}
    MaxItems = 2
    Tokens = 3
    Repeat = 1
    MinTail = 2
    MaxDistance = 0
    Claims <- MCClaims
    Undo = "undo"
    CellWidth = 1
    MaxSegments = 3
INVARIANTS
    TimeIsKept
    SpeechIsTakenOnce
    ItemsAreFaithful
    ItemsAreTold
    MeetingIsAccountedFor
