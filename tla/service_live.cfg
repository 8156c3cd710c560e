SPECIFICATION FairSpec
CONSTANTS
  Scenarios <- LiveScenarios
  MaxConns = 2
  MaxGen = 2
PROPERTIES PipelineReturns ControllerReturns
CHECK_DEADLOCK FALSE
