SPECIFICATION FairSpec
CONSTANT MaxReady = 1
PROPERTIES
    ShutdownCompletes
