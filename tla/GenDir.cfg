CONSTANTS
    p1 = p1
    p2 = p2
    v1 = v1
    v2 = v2
    d = d
    f = f
    old = old
    NoProc = NoProc
    Proc <- MCProc
    Version <- MCVersion
    Name <- MCName
    DirName <- MCDirName
    Archive <- MCArchive

SPECIFICATION FairSpec

INVARIANT TypeOK
INVARIANT FreshTree
INVARIANT OnlyRacesFail
INVARIANT WaveConverges
PROPERTY ImplementsTree
PROPERTY ExtractionEnds
