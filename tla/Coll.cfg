CONSTANTS
  Envs <- MCEnvs
  MaxId = 3
SPECIFICATION Spec
INVARIANTS ResultsRight NobodyEarly GroupsApart MemoryRespected NeverStuck
CHECK_DEADLOCK FALSE
