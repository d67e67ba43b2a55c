SPECIFICATION Spec
INVARIANT MakeFindsTarget
PROPERTY UndercutAfterInterruptOnly
PROPERTY RefusedHasNoTarget
PROPERTY ImplementsSession

CHECK_DEADLOCK FALSE
