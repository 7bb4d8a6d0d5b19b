SPECIFICATION Spec
CONSTANTS
  Win32Table <- MCWin32Table
  NtTable <- MCNtTable
  NtWin32Table <- MCNtWin32Table
  QuickTable <- MCQuickTable
  FlatCodes <- MCFlatCodes
INVARIANTS
  SameDomainComparesValues
