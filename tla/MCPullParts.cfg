SPECIFICATION MCSpec
CONSTANTS
  Pulls = {p1}
  Files = {f1, f2, f3, f4, f5}
  None = None
  Sheets = {1}
  Items = {1}
  Gens = {1}
  MaxEvents = 2
  MaxSeason = 3
  PageSize = 1
  Limit = 2
  ShortTtl = 0
  DayTtl = 1
  MaxVersion = 1
  MaxTime = 2
  Events <- SomeEvents
  Exports <- SomeExports
  Reported <- SomeReported
  Regulations = {"M-C"}
  MinPlayers = 16
  TeamSize = 2
  AllyMoves = {"ragepowder"}
  HazardMoves = {"spikes"}
  ProtectMoves = {"protect", "spikyshield"}
  Nowhere = "nowhere"
  Sources <- SomeListed
  SetsOn <- SomeSets
  Addresses = {"k1", "k2"}
  Species = {"garchomp", "rotom"}
  Unknown = "unread"
  MinKnown = 1
  Team <- Duo
  Names <- Written
  Kinds = {"item", "moves"}
  Nobody = "nobody"
  Apart = 1
  Ahead = 2
  Enough = 6
  HeadLength = 3
  SectionLength = 5
  MaxLines = 7
  MaxHeads = 2
  MaxProse = 1
INVARIANTS  CacheSound NamesAgree CorpusSound  TextSound
PROPERTY ServedUnchanged
CHECK_DEADLOCK FALSE
