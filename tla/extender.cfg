SPECIFICATION Spec
CONSTANTS
  Tasks <- MCTasks
  AppOf <- MCAppOf
  Dimensions <- MCDimensions
  MaxNodeScore <- MCOne
  BarWeights <- MCBarWeights
  LeastUsedWeights <- MCBarWeights
  LeastUsedWeight <- MCOne
  MergeThreshold <- MCMergeThreshold
  CpuScaleFactor <- MCOne
  ScoreTarget = 1
  StrictPlacement = FALSE
  Targeted <- MCTargeted
  Nodes <- MCNodes
  Late = {3}
  NodeType <- MCNodeType
  Capacity <- MCCapacity
  Requested <- MCRequested
  Score <- MCScore
  Foreign = {2}
  Handlers = {h1, h2}
  MaxExtra = 1
  MaxMissing = 1
CHECK_DEADLOCK FALSE
INVARIANT TypeOK
INVARIANT FitsUnlessUnseen
INVARIANT Counted
 
PROPERTY EventuallyBound
