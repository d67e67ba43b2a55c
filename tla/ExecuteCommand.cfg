SPECIFICATION FairSpec

INVARIANT TypeOK
INVARIANT ExitHonest
INVARIANT NoStray
INVARIANT BrowserOnlyWhenUp
PROPERTY ReturnsAfterMake
PROPERTY PersistenceStops
PROPERTY ImplementsCommandRun

CHECK_DEADLOCK FALSE
