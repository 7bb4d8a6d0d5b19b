SPECIFICATION Spec
CONSTANTS
  Codes = {a, b, l}
  Large = {l}
  Cells = {p1, p2, p3}
  Vals = {x, y}
  Nil = Nil
SYMMETRY Symmetry
INVARIANTS
  NoPayloadLeaks
