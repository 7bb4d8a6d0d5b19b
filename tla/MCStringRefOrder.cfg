SPECIFICATION OrderSpec
CONSTANTS
  Threads = {t1, t2}
  Refs = {r1, r2}
  Blocks = {b1}
  Texts = {hello}
  Null = Null
SYMMETRY Symmetry
INVARIANTS
  FreeAfterAllUses
