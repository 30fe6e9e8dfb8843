SPECIFICATION CallSpec
CONSTANTS
  Json <- MCJson
  Requests <- MCRequests
  Configs <- MCConfigs
  AttemptLimits = {0, 1, 2}
  Answers <- MCAnswers
  Chunks = {1, 4}
  MaxLine = 8
  MaxEvent = 4
  MaxBytes = 100
  MaxDelivered = 2
  None = None
INVARIANTS StreamDecoded AnswerKept
PROPERTIES CallEnds Presented
CHECK_DEADLOCK FALSE
