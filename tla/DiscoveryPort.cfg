CONSTANTS
    Port = {"8080", "9090"}
    Tenant = {"primary"}

SPECIFICATION Spec

INVARIANT PortOverrides

CHECK_DEADLOCK FALSE
