SPECIFICATION Spec
CONSTANTS
  Configs <- MCConfigs
  Checkpoint <- MCCheckpoint
  Layouts <- MCLayouts
  MaxPatches = 2
INVARIANTS WeightsInPlace PreNormStream LayerPlan HeadsPerRank PatchKeeps ExportedOnce
CHECK_DEADLOCK FALSE
