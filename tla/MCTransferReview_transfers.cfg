SPECIFICATION Spec
CONSTANTS
  s1 = s1
  s2 = s2
  o1 = o1
  o2 = o2
  i1 = i1
  i2 = i2
  t1 = t1
  t2 = t2
  home = home
  spot = spot
  safe = safe
  vaultA = vaultA
  vaultB = vaultB
  A = A
  N = N
  Sessions = {s1, s2}
  Outflows = {o1, o2}
  Inflows = {i1, i2, t1, t2}
  Recorded = {i1, i2, t1}
  Typed = {t1, t2}
  Marked = {o2}
  Size <- MCSize
  HoldingOf <- MCHoldingOf
  Close <- MCClose
  Accounts = {A, N}
  Room <- MCRoom
  Answers <- MCAnswers
  Opening <- MCOpening
  Groups = {1, 2, 3, 4, 5, 6}
  MaxCalls = 3
  MaxEdits = 1
  None = none
SYMMETRY Symmetric
CHECK_DEADLOCK FALSE
INVARIANTS
  TypeOK
  GroupsAreWhole
  ArrivalsAreAnswered
  AnswersAndLinksAgree
  AnchorsAddUp
  OnlyUsedHoldingsKeepMoney
  DepositsAreKept
PROPERTIES
  RulesNeverOverrule
  LinksAreNotStolen
