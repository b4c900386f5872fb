CONSTANTS
    None = None
    Junk = Junk
    Partial = Partial
    Services = {"Svc", "Other"}
    Methods = {"M", "Other"}
    Clients = {c1}
    MaxCalls = 1
    Registry <- MCRegistry
    Requests <- MCRequests
    HandlerBehaviours <- MCHandlerBehaviours
    Faults <- MCNoFaults
    RespHasRequired = FALSE
SPECIFICATION Spec
INVARIANT NoDeliveryWithoutServerCallback
