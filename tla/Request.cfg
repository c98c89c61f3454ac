SPECIFICATION Spec
CONSTANTS
  Ann = Ann
  Bob = Bob
  Cat = Cat
  Ice = Ice
  BobPhone = BobPhone
  BobName = BobName
  CatName = CatName
  NewPhone = NewPhone
  IceName = IceName
  Nobody = Nobody
  NoRow = NoRow
  Users <- TheUsers
  Frozen = {Ice}
  Names <- TheNames
  Phones <- ThePhones
  Owner <- TheOwner
  Workloads <- TheWorkloads
  MaxReminders = 1
INVARIANTS
  TransfersAccountedFor
  BatchAsksForTheTotal
PROPERTY ClosedRequestIsFinal
CHECK_DEADLOCK FALSE
