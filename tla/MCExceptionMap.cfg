SPECIFICATION CatchSpec
CONSTANTS
  Win32Table <- MCWin32Table
  NtTable <- MCNtTable
  NtWin32Table <- MCNtWin32Table
  QuickTable <- MCQuickTable
  FlatCodes <- MCFlatCodes
  Large = {"quick"}
INVARIANTS
  ComparisonIsSymmetric
  EqualToItsErrc
  NestingIsInvisible
  EqualCodesAgreeOnFailure
  ExactCodesAreFaithful
  NearestClassWins
  KeepsWhatItCannotMap
  ThrownMeansFailure
  CaughtEqualsThrown
