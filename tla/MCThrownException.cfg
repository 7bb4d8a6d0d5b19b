SPECIFICATION Spec
CONSTANTS
  Threads = {t1, t2}
  MaxItems = 3
  Thrown <- MCThrown
SYMMETRY Symmetry
CHECK_DEADLOCK FALSE
INVARIANTS
  TextsStayValid
  CodesNameTheirException
  OnlyTheOldestExpires
