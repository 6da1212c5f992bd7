SPECIFICATION PagingSpec
CONSTANTS
  Null = Null
  Ids <- MCIds
  Times <- MCTimes
  Priorities = {high, low}
  MaxLimit = 2
CHECK_DEADLOCK FALSE
INVARIANTS
  PagesDescend
  ListingExact
PROPERTIES
  ListingEnds
