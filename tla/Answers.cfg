SPECIFICATION FairAnswersSpec
CONSTANTS
  Node = {n1, n2}
  Direct = direct
  NoRoute = none
  Modes = {"hybrid", "proxy"}
  NumModels = 2
  NumKeys = 2
  MaxRetries = 2
  MaxPolls = 1
  MaxSearch = 1
  PerAttempt = 1
INVARIANTS
  ServedNodeNotPenalised
  RecordMatchesMessage
PROPERTIES
  RateLimitKeepsEgress ImplementsBoundedRequest
  ImplementsMessage ReplayUnseen EveryAnswerEnds
CHECK_DEADLOCK FALSE
