SPECIFICATION MCSpec
CONSTANTS
  Clients = {ann, bob}
  Opponents <- MCOpponents
  Legal = {"north", "south"}
  Beats <- MCBeats
  MaxVariants = 2
  MaxGames = 2
  Cap = 6
  Timeout = 3
  MaxCalls = 2
  MaxLost = 1
  Databases <- MCDatabases
  Roster <- MCRoster
  Learns <- MCLearns
  Items = {"orb", "scarf"}
  ChoiceItems = {"scarf"}
  StatusMoves = {"wait"}
  TeamSize = 2
  MovesPerMember = 2
  MaxLimit = 4
  NoSpread = "none"
  Fallback = "bulky"
  Own = {"garchomp"}
  Foes = {"charizard", "absol"}
  Set <- Sets
  Beliefs <- Usual
  Stone <- MegaStones
  MegaAbility <- MegaAbilities
  NoItem = "no item"
  Unknown = "unknown"
  MoveSlots = 2
  MaxEvents = 4
  Members = {1, 2, 3}
  Orders <- MCOrders
  Slots = 2
  Stones = {1, 2}
  Policy <- MCPolicy
  MaxTurns = 2
  MaxBreaks = 1
CHECK_DEADLOCK FALSE
INVARIANTS ReportsSound AnswersOwn  BattleSound ViewsSound
PROPERTY PlayedOut
