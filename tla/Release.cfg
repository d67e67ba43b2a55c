CONSTANTS
    r1 = r1
    r2 = r2
    Run <- MCRun
    MaxCommit = 3
    MaxOverlap = 2
    MaxVersion = 2
    MaxRC = 1

SPECIFICATION Spec
SYMMETRY RunSymmetry

INVARIANT TypeOK
INVARIANT CandidatesContiguous
INVARIANT CandidateSaysVersion
INVARIANT NoVersionSkipped
INVARIANT CandidateOnItsBranch
INVARIANT NamesAgree

PROPERTY ImplementsTrain

CHECK_DEADLOCK FALSE
