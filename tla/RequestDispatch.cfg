SPECIFICATION FairSpec
CONSTANTS
  Worker = {w1, w2}
  Pool = {t1, t2}
  Request = {r1, r2}
  Response = {"plain", "script", "heavy"}
  Inline = {"script"}
  Offload = {"heavy"}
  CanThrottle = {"plain"}
  CanProcess = {"plain"}
  Instances = {0, 2}
  Zero = {"heavy"}
  IntWidth = 4
CHECK_DEADLOCK FALSE
INVARIANTS
  AnswerReachesRequester
  LuaStateExclusive
  CountersTruthful
PROPERTIES
  OffloadedIsAnswered
  ReportCatchesUp
