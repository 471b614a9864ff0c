\* "Connection: close" on a request whose script is offloaded.
CONSTANTS
    MaxRequests = 2
    Strands = {s1}
    Outcomes = {"respond", "offload"}
    LuaOutcomes = {"respond"}
SPECIFICATION Spec
INVARIANTS GracefulClose
CHECK_DEADLOCK FALSE
