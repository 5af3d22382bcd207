CONSTANTS
  Tabs = {t1}
  Ids = {c1, c2, c3, c4, c5, c6}
  MaxAsked = 2
  MaxTxs <- MCMaxTxs
  NoChat = NoChat
SPECIFICATION FairSpec
INVARIANT OwnEventsOnly
