SPECIFICATION FairSpec
CONSTANTS
  g = g
  Containers = {a, b}
  Pids = {a, b}
  Groups = {a, b, g}
  Root = root
  NoOne = noone
  NoName = noname
  NumClosids = 3
  Resources = {"L3", "MB"}
  Full <- MCFull
  Rounded <- MCRounded
  Requests <- MCRequests
INVARIANTS TypeOK AppliedWhenUniform
PROPERTIES OmittedUnaffectedUnlessMissing RowsConverge
