CONSTANTS
  c1 = c1
  c2 = c2
  Calls <- TwoCalls
  NoCall = NoCall
  MaxParallel = 2
  Models <- MCModels
  Warning = 2
  RepeatCap = 3
  LongResult = 3
  MaxTurns = 2
  Fixed = {"flash", "argon"}
  Default = "flash"
  Tiers = {"low", "medium"}
  Stale = "qwen"
  Pools <- SomePools
  Routable = {"flash", "luna", "argon", "unlisted"}
  ListedContext <- SomeContexts
  Nominal = 20
  Local = 2
  MaxPrice = "1"
  MaxPrices <- TierPrices
  Uncapped = "none"
  Routes = {"argon"}
  Big = 8
  BigBudget = 3
  SmallBudget = 2
  BigResult = 60
  SmallResult = 16
  ReasoningTurns = 2
  MaxRouted = 2
  Unnamed = "unnamed"
SPECIFICATION MCSpec
INVARIANTS TurnPaired FetchedOnce RoundsSound HistorySound RoutingSound
PROPERTIES TurnEnds
CHECK_DEADLOCK FALSE
