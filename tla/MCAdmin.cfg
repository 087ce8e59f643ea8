\* Commands of two clients while jobs come and go and the module is removed.
SPECIFICATION FairSpec
CONSTANTS
    c1 = c1
    c2 = c2
    j1 = j1
    j2 = j2
    NoClient = NoClient
    NoJob = NoJob
    Clients <- TwoClients
    Jobs <- TwoJobs
    MaxJid = 1
    ULONG = 4
    CommandLines <- Lines
    ForcedRemoval = FALSE
INVARIANTS
    TypeOK
    OnlyProperSent
    CommandTouchesLiveJob
    NoIoctlInFreedText
PROPERTIES
    ImplementsCommands
    CommandEnds
