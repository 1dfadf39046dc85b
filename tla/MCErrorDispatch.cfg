SPECIFICATION Spec
CONSTANTS
  main = main
  child = child
  grandchild = grandchild
  b1 = b1
  b2 = b2
  e1 = e1
  e2 = e2
  d1 = d1
  d2 = d2
  Tasks = {main, child, grandchild}
  Main = main
  Boxes = {b1}
  Callback = Callback
  Errors = {e1, e2}
  Data = {d1}
  MaxDepth = 2
  NoError = NoError
  NoTask = NoTask
  NoData = NoData
\* fatalError stops the process.
CHECK_DEADLOCK FALSE
SYMMETRY Interchangeable
INVARIANTS DataAlive ThrowsFirst
PROPERTIES NoErrorSwallowed
