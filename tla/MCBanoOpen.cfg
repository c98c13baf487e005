SPECIFICATION Spec
CONSTANTS
  File <- MCFile
  Text <- MCText
  OtherDirective = {".define"}
  Conf <- MCConf
  DictKey = {"0", "1", "2"}
  NList = 2
  Hash <- MCHash
  Refused = {"perhaps"}
  NodlDir = {"nodl", "other", "broken", "looping"}
  Nodl <- MCNodl
INVARIANTS
  TextKept
  Released
  NodesOnRadio
  NodlWhole
PROPERTIES
  Settles
CHECK_DEADLOCK FALSE
