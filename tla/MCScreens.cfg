SPECIFICATION Spec
CONSTANTS
    Pages <- MCPages
    Slots <- MCSlots
    MaxClicks = 3
    MaxOpens = 2
    Unlocked <- MCUnlocked
    Repeatable <- MCRepeatable
    Modal <- MCModal
INVARIANTS
    TypeOK
    OneAtATime
    SubmittedOnce
    OwnWritesShown
    AnswersTheQuestion
    NothingLeftBusy
 
CHECK_DEADLOCK FALSE
