SPECIFICATION FairSpec
CONSTANTS
  alice = alice
  t1 = t1
  t2 = t2
  Users = {alice}
  Transfers = {t1, t2}
  Owner <- MCOwner
  Amount <- MCAmount
  Opening <- MCOpening
  DailyLimit = 4
  Attempts = 3
INVARIANTS
  TypeOK
  HoldSpentOnce
  LedgerFollowsNetwork
  ReplyIsTrue
  MoneyAccountedFor
  BooksNeverOverstate
PROPERTIES
  ImplementsEscrow
  EveryRequestEnds
