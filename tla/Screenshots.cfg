CONSTANTS
    Run = {r1, r2, r3}
    NFiles = 3
    Skipped = {2}
    NoRun = NoRun

SPECIFICATION FairSpec

INVARIANT TypeOK

PROPERTY SuccessComplete
PROPERTY ContainerAdvances
PROPERTY ContainerEnds

CHECK_DEADLOCK FALSE
