SPECIFICATION Spec
CONSTANTS
  U = U
  A = A
  B = B
  P = P
  Q = Q
  NoLoan = NoLoan
  Users = {U}
  Applies = {A, B}
  Repays = {P, Q}
  By <- TheBy
  Principal <- ThePrincipal
  Days <- TheDays
  Asked <- TheAsked
  Limit <- TheLimit
  Opening <- TheOpening
  Capital = 25
  MaxMonths = 2
INVARIANTS
  MoneyConserved
  BooksClaimWhatWasTaken
  RepaidIsCovered
  ScheduleCoversDebt
  CapitalGetsItsShare
CHECK_DEADLOCK FALSE
