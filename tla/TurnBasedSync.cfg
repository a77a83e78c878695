\* Three workers, five items, two early returns of Condvar::wait.
CONSTANTS
    Threads = {w1, w2, w3}
    NoThread = NoThread
    Items = 5
    MaxSpurious = 2
SPECIFICATION FairSpec
INVARIANTS TypeOK NoLostWakeup OrderedParts
PROPERTIES ImplementsTurnOrder AllTurnsTaken
CHECK_DEADLOCK FALSE
