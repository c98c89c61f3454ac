SPECIFICATION Spec
CONSTANTS
  visa = visa
  first = first
  again = again
  dollars = dollars
  clear = clear
  cancel = cancel
  cancelToo = cancelToo
  Cards = {visa}
  Currencies = {"ETB", "USD"}
  Deliveries = {first, again, dollars}
  Rrn <- MCRrn
  Stan <- MCStan
  CardOf <- MCCardOf
  Amount <- MCAmount
  Merchant <- MCMerchant
  Ask <- MCAsk
  Waterfall <- MCWaterfall
  Opening <- MCOpening
  PerTxnLimit = 2
  DailyLimit = 4
  Jobs = {clear, cancel, cancelToo}
  JobKind <- MCJobKind
  JobRrn <- MCJobRrn
SYMMETRY MCSymmetry
INVARIANTS
  OneHoldPerMessage
  ClearingFollowsLedger
  HoldCoversPurchase
PROPERTY
  ClosedRowIsFinal
