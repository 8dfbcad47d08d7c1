SPECIFICATION Spec
CONSTANTS
  x1 = x1 x2 = x2 x3 = x3
  Node = {n1, n2, n3}
  Iter = {i1, i2}
  Item = {x1, x2, x3}
  Key <- TwoEqual
  ListHead = ListHead
  Null = Null
SYMMETRY Interchange
INVARIANT Shape
INVARIANT VisitsAll
PROPERTY Implements
