\* Liveness: no request is dropped on purpose; the second stream needs the slot of the first.
CONSTANTS
    MaxStreams = 2
    MaxConcurrent = 1
    WideWindow = FALSE
    BufferChunks = 1
    Outcomes = {"offload"}
    LuaOutcomes = {"body"}
    RequestTrailers = FALSE
SPECIFICATION FairSpec
PROPERTIES StreamReleased EndedSessionCloses
\* A connection ends.
CHECK_DEADLOCK FALSE
