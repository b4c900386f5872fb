CONSTANTS
    None = None
    Junk = Junk
    Partial = Partial
    Services = {"Svc", "Other"}
    Methods = {"M", "Other"}
    Clients = {c1}
    MaxCalls = 2
    Registry <- MCRegistry
    Requests <- MCRequests
    HandlerBehaviours <- MCHandlerBehaviours
    Faults <- MCAllFaults
    RespHasRequired = TRUE
SPECIFICATION Spec
INVARIANT TypeOK
