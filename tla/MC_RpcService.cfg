CONSTANTS
    None = None
    Junk = Junk
    Partial = Partial
    Services = {"Svc"}
    Methods = {"M"}
    Callers = {a}
    MaxCalls = 3
SPECIFICATION Spec
PROPERTIES
    BlockingCallsReturn
