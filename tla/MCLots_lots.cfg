SPECIFICATION Spec
CONSTANTS
  here = here  there = there  cash = cash  purse = purse
  coin = coin  dollar = dollar  euro = euro  g1 = g1
  Holdings <- MCHoldings
  TokenOf <- Tokens
  Base = dollar
  Groups = {g1}
  Vocabularies <- MCVocabularies
  InstantsPerDay = 2
  BedAndBreakfastDays = 1
  EarlyArrivalWindow = 1
  None = None
INVARIANTS
  MoneyIsConserved
  BalancesAgree
  GainsAddUp
  PlanIsLawful
  LinkedLotsArrive
PROPERTY
  OldestFirst
CHECK_DEADLOCK FALSE
