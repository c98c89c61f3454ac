SPECIFICATION BackOfficeSpec
CONSTANTS
  Ask <- MCAsk
  Groups <- MCGroups
  CustomerOpening <- MCOpening
  Currencies = {"ETB", "USD"}
  OfficeOpening <- MCOffice
  File <- MCFile
  ReceiptOf <- MCReceiptOf
  Today = 2
  MaxStarts = 4
INVARIANTS
  SessionsAreEarned
  RecordsAreKept
CHECK_DEADLOCK FALSE
