SPECIFICATION FairSpec
CONSTANTS
  b1 = b1
  b2 = b2
  q1 = q1
  p1 = p1
  p2 = p2
  Calls = {b1, b2, q1}
  Lookups = {q1}
  Conns = {p1, p2}
  IdSpace = 4
  n1 = n1
  n2 = n2
  n3 = n3
  Nodes = {n1, n2, n3}
  Unreliable = {n3}
INVARIANTS LogIsTrue AnswerIsOwn
PROPERTIES HandlersEnd PoolComesBack
