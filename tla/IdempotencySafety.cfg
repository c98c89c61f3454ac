SPECIFICATION FairSpec
CONSTANTS
  c1 = c1
  c2 = c2
  c3 = c3
  c4 = c4
  k1 = k1
  pay50 = pay50
  pay500 = pay500
  Clients = {c1, c2, c3, c4}
  Keys = {k1}
  Bodies = {pay50, pay500}
  KeyOf <- MCKeyOf
  BodyOf <- MCBodyOf
  Anonymous = {c4}
  MaxFailures = 1
INVARIANTS
  OneBodyPerKey
  ReplayIsGenuine
PROPERTIES
  CompletedIsFinal
  EveryClientServed
