\* Requests answered at once, dropped, or answered by two strands; the worker
\* thread, the strands and the kernel make progress.
CONSTANTS
    MaxRequests = 3
    Strands = {s1, s2}
    Outcomes = {"respond", "close", "offload"}
    LuaOutcomes = {"respond"}
SPECIFICATION FairSpec
INVARIANTS OrderOnWire StreamBookkeeping AnswerOnce NoLostWakeup
PROPERTIES OutbufStable CloseOnlyOverScripts PipelineSpec AnswerDelivered
\* A connection ends.
CHECK_DEADLOCK FALSE
