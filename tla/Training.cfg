SPECIFICATION Spec
CONSTANTS
  Rows <- MCRows
  Attempts <- MCAttempts
  NoPrompt = 0
  Permutation <- MCPermutation
  Configs <- MCConfigs
  TrainRatio = 8
  ValRatio = 1
  Epochs = 3
  Patience = 2
  DefaultWidth = 1
  Losses = {0, 1}
  Inf = 2
  NaN = NaN
  MaxRuns = 2
INVARIANTS CheckpointIsBest ResumeBaseKept EarlyStopping FiniteWeights ArtifactsAgree ServedAgrees
  DeployedWidth HeldOut
CHECK_DEADLOCK FALSE
