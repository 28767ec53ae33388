SPECIFICATION Spec
CONSTANTS
  h1 = h1
  h2 = h2
  a = a
  b = b
  c = c
  Heads = {h1, h2}
  Items = {a, b, c}
  Wild = Wild
  Dead = Dead
  NULL = NULL
INVARIANT UnlinkedIsEmpty
