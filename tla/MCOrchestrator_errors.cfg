\* Two secrets whose jobs may end in an error.
CONSTANTS
  p1 = p1
  p2 = p2
  p3 = p3
  Paths = {p1, p2}
  Concurrency = 1
SPECIFICATION Spec
PROPERTY ErrorsCountAsFailed
