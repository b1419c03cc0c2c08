SPECIFICATION Spec
CONSTANTS
  c1 = c1
  c2 = c2
  n1 = n1
  n2 = n2
  k1 = k1
  k2 = k2
  h1 = h1
  h2 = h2
  Nil = Nil
  NoOne = NoOne
  Containers = {c1, c2}
  Namespaces = {n1, n2}
  Keys = {k1, k2}
  Masks = {0, 1}
  Postures = {0, 1}
  Handles = {h1, h2}
  Capacity = 1
SYMMETRY Symmetry
INVARIANTS
  
  NoLeftovers
  StaysInForce
