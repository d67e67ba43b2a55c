CONSTANTS
    r1 = r1
    r2 = r2
    Run <- TwoRuns
    App <- Traces

SPECIFICATION Spec
SYMMETRY RunSymmetry

INVARIANT TypeOK
INVARIANT DemoRuns
INVARIANT DeployedIsReached
INVARIANT GatewayStarts
INVARIANT GatewayConverges
