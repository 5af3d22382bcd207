SPECIFICATION FairSpec
CONSTANTS
  Today <- MCToday
  DataFormats <- MCDataFormats
  MaxAge = 1
  PageTTL = 1
  MaxStops = 2
INVARIANT FreshIsRecent
PROPERTIES StaleOnlyAfterFailure IsMirrorStore ServesWhatItHas FirstBuild
CHECK_DEADLOCK FALSE
