CONSTANTS
    r1 = r1
    r2 = r2
    Run <- MCRun
    MaxCommit = 2
    MaxOverlap = 2
    MaxVersion = 2
    MaxRC = 1

SPECIFICATION Spec
PROPERTY CreatesOnlyIfAbsent

CHECK_DEADLOCK FALSE
