SPECIFICATION Spec
CONSTANTS
  n1 = n1
  n2 = n2
  k1 = k1
  k2 = k2
  k3 = k3
  DictKey = {k1, k2, k3}
  NList = 2
  Hash <- MCHash
  NodeSeq <- MCNodeSeq
  Listed <- MCListed
  Val = {0, 1}
  NoVal = NoVal
  Length = {1, 4}
  Block = 4
INVARIANTS
  PageWhole
PROPERTIES
  PageShowsLast
