SPECIFICATION Spec
CONSTANTS
  Tasks <- MCTasks
  NumaNodes <- MCNumaNodes
  NodeSize = 2
  Declared <- MCDeclared
  CgroupLimit <- MCCgroupLimit
  MaxUsage <- MCMaxUsage
  LogClass <- MCLogClass
  Options <- MCOptions
  MinBalance = 0
  MigrateBalance = 9500
INVARIANT TypeOK
 
PROPERTY StaysAndGathers
PROPERTY EventuallyPinned
