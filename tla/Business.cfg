SPECIFICATION Spec
CONSTANTS
  ann = ann
  bob = bob
  transfer = transfer
  Calls = {"register", "inviteBob", "promoteBob", "demoteAnn", "removeAnn", "removeBob",
           "newRole", "editRole", "editAgain", "dropRole", "annApproves", "bobRejects"}
  Ask <- MCAsk
  Users = {ann, bob}
  Founder = ann
  SystemRoles <- MCSystemRoles
  CustomRoles = {"clerk"}
  Granted <- MCGranted
  Transfers = {transfer}
  Initiator <- MCInitiator
  MaxStarts = 3
INVARIANTS
  FounderKeepsBusiness
  RightsWereGranted
PROPERTIES
  ApprovalsKeepTheRules
