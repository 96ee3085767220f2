SPECIFICATION Spec
CONSTANTS
  Containers = {a, b}
  Pids = {p1, p2}
  Groups = {g1, g2}
  Root = root
  NoOne = noone
  NumClosids = 3
  Allocator <- AnyAllocation
  ResetChoices = {TRUE, FALSE}
SYMMETRY Sym
PROPERTY RestartKeepsAllocations
