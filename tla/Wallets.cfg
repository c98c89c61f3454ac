SPECIFICATION Spec
CONSTANTS
  Calls = {c1, c2}
  PotIds = {p1, p2}
  Labels = {rent}
  Currencies <- MCCurrencies
  Amounts = {2}
  Opening <- MCOpening
  Debt = 1
  Verified = TRUE
  Mid <- MCMid
  SpreadBps = 1000
  MaxRows = 3
  MaxStarts = 4
SYMMETRY CallSymmetry
INVARIANTS
  HiddenMoneyCameLate
  WalletBooksConsistent
  HistoryShowsEachReceiptOnce
