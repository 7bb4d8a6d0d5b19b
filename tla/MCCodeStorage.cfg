SPECIFICATION Spec
CONSTANTS
  Base = 4
  Align = 2
  Typed <- MCTyped
  Erased <- MCErased
INVARIANTS
  TypeOK
  DomainReadsItsValue
  ErasedNumberIsTheCode
