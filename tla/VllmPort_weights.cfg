SPECIFICATION Spec
CONSTANTS
  Configs <- MCConfigs
  Checkpoint <- MCCheckpoint
  Layouts <- MCLayouts
  MaxPatches = 2
INVARIANT AllWeightsLoaded
CHECK_DEADLOCK FALSE
