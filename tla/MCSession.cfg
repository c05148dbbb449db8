SPECIFICATION Spec
CONSTANTS
    t1 = t1
    t2 = t2
    Tabs <- MCTabs
    Slots <- MCSlots
    MaxActs = 3
INVARIANTS
    TypeOK
    StoredIsOfOneSession
    ServedForItsSender
    DoneAtMostOnce
    WaitersHaveARenewal
CHECK_DEADLOCK FALSE
PROPERTIES EveryTabSettles
