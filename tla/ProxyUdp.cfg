SPECIFICATION FairSpec
CONSTANTS
    a = a
    b = b
    NoClient = NoClient
    Clients <- TwoClients
    Faults <- AllFaults
    MaxTasks = 2
    MaxArrivals = 5
    MaxReplies = 1
    MainCapacity = 1
    ClientCapacity = 2
INVARIANTS TypeOK TableOwned RepliesGoHome  DropsOnlyWhenFull
PROPERTIES ImplementsSessions SendsGoOn HearsAgain EntryGoes
CHECK_DEADLOCK FALSE
