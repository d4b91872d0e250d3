SPECIFICATION Spec
CONSTANTS
  Client = {p1, p2}
  Key = {k1, k2}
  Content = {c1, c2}
  None = None
SYMMETRY Symmetry
INVARIANTS
  AnswersAreTrue
PROPERTIES
  ImplementsTarget
