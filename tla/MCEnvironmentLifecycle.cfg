SPECIFICATION Spec
CONSTANTS
    Envs = {"first", "second"}
    ServerOf <- ServersDef
    AddressOf <- AddressesDef
    NoEnv = "none"
    Debugged = {"first"}
    TTL = 2
INVARIANTS TypeOK 
PROPERTIES ServesAgain CloseReturnsAtLast GoneServersExpire
