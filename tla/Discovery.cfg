CONSTANTS
    Port = {"8080", "9090"}
    Tenant = {"primary"}

SPECIFICATION Spec

INVARIANT OptOutWins

PROPERTY AddressKeepsHost

CHECK_DEADLOCK FALSE
