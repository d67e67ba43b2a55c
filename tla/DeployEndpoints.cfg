CONSTANTS
    r1 = r1
    r2 = r2
    Run = {r1}
    App <- Traces

SPECIFICATION Spec

INVARIANT EndpointsUpdated
