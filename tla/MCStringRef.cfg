SPECIFICATION Spec
CONSTANTS
  Threads = {t1, t2}
  Refs = {r1, r2, r3, r4}
  Blocks = {b1, b2}
  Texts = {hello, bye}
  Null = Null
SYMMETRY Symmetry
INVARIANTS
  TypeOK
  CountIsExact
  NoDangling
  FreedOnce
PROPERTIES
  MessagesAreValues
