CONSTANTS
    None = None
    Junk = Junk
    Partial = Partial
    Services = {"Svc", "Other"}
    Methods = {"M", "Other"}
    Clients = {c1, c2}
    MaxCalls = 1
    Registry <- MCRegistry
    Requests <- MCRequests
    HandlerBehaviours <- MCHandlerBehaviours
    Faults <- MCFaults
    RespHasRequired = TRUE
SPECIFICATION Spec
INVARIANTS
    DeliveredIsHandlerResponse
    EnvelopeErrorWins
    FailureNamesCause
    NoSocketLeak
PROPERTIES
    CallsComplete
    ImplementsRpcCall
