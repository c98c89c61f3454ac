SPECIFICATION Spec
CONSTANTS
  alice = alice
  bob = bob
  optin = optin
  send = send
  batch = batch
  inflow = inflow
  repay = repay
  optout = optout
  Users = {alice, bob}
  Requests = {optin, batch, inflow, repay, optout}
  Kind <- MCKind
  Actor <- MCActor
  Items <- MCItems
  Repayment <- MCRepayment
  Opening <- MCOpening
  Profile <- MCProfile
  Capital = 3
INVARIANTS
  MoneyConserved
  BooksFollowPayments
  DebtMatchesMoneyApart
  FacilityConsistent
