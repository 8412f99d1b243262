SPECIFICATION FairSpec
CONSTANTS
    c1 = c1
    c2 = c2
    Clients = {c1, c2}
    bg = bg
    None = None
    MaxCalls = 2
    MaxFailures = 2
    MaxWakes = 1
INVARIANTS
    TypeOK
    ClosedIsFlushed
    ThreadGoneFirst
    NoLostWakeup
    ThrowLeavesCloser
    NobodyStuck
PROPERTIES
    RequestsTaken
    RequestsFlush
    CallsReturn
    SomeCloseFinishes
CHECK_DEADLOCK FALSE
