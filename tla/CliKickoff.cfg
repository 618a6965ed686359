SPECIFICATION FairSpec
CONSTANTS
    PendingMessagesLimit = 2
    Clis <- OldAndNew
    MaxPrompts = 2
    MaxPolls = 1
    MaxCrons = 1
    MaxSpawns = 2
    MaxLeaves = 1
INVARIANTS
    TypeOK
    NoRealTurnInterrupted
    PromptsInOrder
    PromptsAccountedFor
PROPERTIES
    ProbeIsInterrupted
    PromptStartsOrTold
CHECK_DEADLOCK FALSE
