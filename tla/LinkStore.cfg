\* Three threads that append, look up and extract; two cells for three links, so
\* that cells are used again and an append runs out of memory.
CONSTANTS
  Threads = {t1, t2, t3}
  a1 = a1
  a2 = a2
  b = b
  Links = {a1, a2, b}
  Name <- MCName
  Nodes = {n1, n2}
  NONE = NONE
SPECIFICATION Spec
INVARIANTS
  NodesAccountedFor
  GetIsStored
PROPERTIES
  ListSpec
