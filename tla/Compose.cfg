CONSTANTS
    Stack <- ThreeStacks
    MaxStacks = 2
    MaxExited = 2

SPECIFICATION FairSpec

INVARIANT TypeOK
INVARIANT UpServes
INVARIANT OneStackUp

PROPERTY NoDeadGateway
PROPERTY GatewayConverges

CHECK_DEADLOCK FALSE
