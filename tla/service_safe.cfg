SPECIFICATION Spec
CONSTANTS
  Scenarios <- AllScenarios
  MaxConns = 2
  MaxGen = 2
INVARIANTS QueueAccounted QueueBounded FinalReachable LateAudioHasCause StaleAudioHasCause OneConnection SecondReaderHasCause JoinLossHasCause
CHECK_DEADLOCK FALSE
