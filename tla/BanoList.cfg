SPECIFICATION ListSpec
CONSTANTS
  Item = {a, b, c, loop}
  LoopItem = loop
  Null = Null
  Freed = Freed
INVARIANTS
  ForeachVisitsAll
PROPERTIES
  ImplementsItemQueue
