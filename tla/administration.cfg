SPECIFICATION AdministrationSpec
CONSTANTS
  a1 = a1
  a2 = a2
  u1 = u1
  u2 = u2
  Users = {u1, u2}
  Treasury = treasury
  Assets = {a1, a2}
  Feeds = {}
  None = none
  Categories = {}
  MAX_RESERVES_COUNT = 3
  PERCENTAGE_FACTOR = 100
  WAD = 100
  TOKEN_UNIT = 2
  CEILING_UNIT = 1
  MAX_STABLE_PERCENT = 50
  Amounts = {1, 2}
  MaxSupply = 2
  Prices = {2}
  Percentages = {50, 80, 125}
  Limits = {0, 1}
  Proxies = {p1, p2, p3, p4}
  ZERO = zero
  REGISTRY = registry
  Pool1 = pool1
  Pool2 = pool2
  Configurator1 = configurator1
  Configurator2 = configurator2
  AToken1 = aToken1
  AToken2 = aToken2
  Pools = {pool1, pool2}
  Configurators = {configurator1, configurator2}
  ATokens = {aToken1, aToken2}
  Revision <- Revisions
  Underlyings = {asset}
  Premiums = {0, 12}
  Scenarios = {"listing", "switches", "risk", "limits", "upgrades"}
SYMMETRY Symmetry
INVARIANT ListedAtOwnId
INVARIANT DebtIsFlagged
 
INVARIANT InactiveIsEmpty
INVARIANT Solvent
INVARIANT InitializedForItsCode
INVARIANT TokensStayUpgradable
INVARIANT ConfiguratorAtThePool
INVARIANT PremiumsSplit
PROPERTY LoanIsHealthy
PROPERTY LoanCoversBonus
PROPERTY CapsRespected
PROPERTY PausedIsStill
PROPERTY FrozenTakesNothing
