SPECIFICATION Spec
CONSTANTS
  Classes = {"date", "datetime", "zone", "other"}
  Supers <- MCSupers
  Table <- MCTable
  KeyErrors = {2}
  NoEntry = NoEntry
  Root = "root"
  Handlers = {"root", "space", "list"}
  Strict = {"list"}
  Marked = {"func", "coro"}
  Item <- MCItem
  Blank = ""
  Parts = {"", "f", "g", "ns", "l"}
  Kinds = {"pubsub", "pipeline"}
  MaxMessages = 2
  Topics = {"t", "tt"}
  Offers <- MCOffers
  BadTopic = "bad"
  Plans <- MCPlans
  Matching <- MCMatching
  MaxFilters = 2
  Coroutines = {"coro"}
  ServerCodes = {1, 2}
INVARIANTS
  Books
  RightCall
  PendingKnown
CHECK_DEADLOCK FALSE
