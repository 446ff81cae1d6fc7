SPECIFICATION Spec
CONSTANTS
  a1 = a1
  a2 = a2
  p1 = p1
  p2 = p2
  c1 = c1
  c2 = c2
  share = share
  bond = bond
  Accounts = {a1, a2}
  Processes = {p1, p2}
  Files = {}
  End = 9
  Horizon = 4
  Instruments = {share, bond}
  Currencies = {"USD", "EUR"}
  Base = "USD"
  Scale = 2
  CurrencyOf <- MCCurrencyOf
  AssetOf <- MCAssetOf
  DayOf <- MCDayOf
  Labels = {"v1", "v2"}
  Contents <- MCContents
  Changes = {c1, c2}
  Calls = 3
  Uses <- MCUses
  Portfolio = 1
SYMMETRY Symmetry
CHECK_DEADLOCK FALSE
INVARIANTS FastAgrees FlowsAreNotReturns ScenarioIsBooking DatasetsTruthful MaterialChangeOnce
ACTION_CONSTRAINT InOrder
