SPECIFICATION MCSpec
CONSTANTS
  Unset = unset
  MaxPerStat = 7
  MaxTotal = 14
  AllStats <- MCStats
  Alias <- MCAlias
  Natures <- MCNatures
  Bases <- SomeBases
  Mods <- SomeMods
  NaturesAsked <- SomeAsked
  Teams <- MCTeams
  TeamSize = 3
  MovesPerSet = 2
  Dex <- MCDex
  NameOf <- MCNames
  CloseTo <- MCClose
  MegaForms <- MCMegas
  ChampionsItems <- MCItems
  WeatherSetters <- MCSetters
  WeatherAbusers <- MCAbusers
  WeatherMoves <- MCWeatherMoves
  Species <- SomeSpecies
  Forms <- SomeForms
  BaseSpeed <- SomeBase
  Usages <- SomeUsages
  Threshold = 50
  NoForm <- NoMega
  MaxAnswers = 2
INVARIANTS TeamSound ReadsSound  NamesFound ThresholdExact
CHECK_DEADLOCK FALSE
