CONSTANTS
  Query = query
  Messages = {query}
  Hotels = {ritz, inn}
  NoCount = NoCount
  Counts <- MCCounts
  DefaultNumHotels = 2
  MaxNumHotels = 3
  Scripts <- MCScripts
  EventsBeforeDrop = 4
  MaxRestarts = 1
SPECIFICATION ClientsSpec
INVARIANTS
  NothingLost
  ToldPrefix
  SearchComplete
  LastChunkIsLast
PROPERTIES
  RefinesLifecycle
  ScriptsEnd
CHECK_DEADLOCK FALSE
