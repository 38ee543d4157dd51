SPECIFICATION FairSpec
CONSTANT MaxReady = 2
INVARIANTS
    TypeOK
PROPERTIES
    JobsAreNotCutShort
    StoppedWorkersEnd
    ReadyRowsAreClaimed
    ListenerReconnects
