\* Two streams, every kind of answer, an output buffer of one chunk.
CONSTANTS
    MaxStreams = 2
    MaxConcurrent = 2
    WideWindow = TRUE
    BufferChunks = 1
    Outcomes = {"head", "body", "trailer", "close", "offload"}
    LuaOutcomes = {"head", "body", "close"}
    RequestTrailers = TRUE
SPECIFICATION Spec
INVARIANTS ProviderAlive WireMatchesSession NoLostWakeup GracefulEnd
\* A connection ends.
CHECK_DEADLOCK FALSE
