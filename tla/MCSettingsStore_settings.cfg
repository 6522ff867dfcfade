SPECIFICATION FairSpec
CONSTANTS
    Main = main
    UiThreads = {ui}
    WebThreads = {web1}
    Choices = {factory, evening}
    Default = factory
    Slots = 2
    Cut = Cut
    NoFile = NoFile
    MaxRequests = 3
    MaxCrashes = 2
    MaxFailures = 1
CHECK_DEADLOCK FALSE
INVARIANT StoreTypeOK
INVARIANT FileFollowsMemory
INVARIANT DialogLasts
INVARIANT OnlyCutFilesKill
PROPERTY StartsAgain
