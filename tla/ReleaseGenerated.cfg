CONSTANTS
    r1 = r1
    r2 = r2
    Run = {r1}
    MaxCommit = 2
    MaxOverlap = 2
    MaxVersion = 2
    MaxRC = 1

SPECIFICATION Spec

INVARIANT GeneratedCompiles

CHECK_DEADLOCK FALSE
