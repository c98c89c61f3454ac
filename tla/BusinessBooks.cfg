SPECIFICATION BooksSpec
CONSTANTS
  Requests <- MCRequests
  Form <- MCForm
  Opening <- MCOpening
  OwnerOf <- MCOwnerOf
  Receipts = {"tx1", "tx2"}
  Pots = {"pot"}
  Profile <- MCProfile
  MaxServed = 3
INVARIANTS
  BooksAddUp
  PaymentsAreKept
CHECK_DEADLOCK FALSE
