SPECIFICATION Spec
CONSTANTS
  Tasks <- MCTasks
  AppOf <- MCAppOf
  Dimensions <- MCDimensions
  MaxNodeScore <- MCMaxNodeScore
  BarWeights <- MCBarWeights
  LeastUsedWeights <- MCLeastUsedWeights
  LeastUsedWeight <- MCLeastUsedWeight
  MergeThreshold <- MCMergeThreshold
  CpuScaleFactor <- MCCpuScale
  ScoreTarget = 1
  StrictPlacement = FALSE
  Targeted <- MCTargeted
  Nodes <- MCNodes
  Capacity <- MCCapacity
  Requested <- MCRequested
  Score <- MCScore
  Duration <- MCDuration
  MaxRough = 0
INVARIANT TypeOK
INVARIANT NoRoughAssignment
PROPERTY RoomIsUsed
CHECK_DEADLOCK FALSE
