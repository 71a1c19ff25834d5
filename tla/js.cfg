SPECIFICATION JsSpec
CONSTANTS
  Broker = {1, 3}
  Link = {1, 2, 3}
  Client <- PageEnd
  Server <- HomeEnd
  Chan = {c1}
  MaxCalls = 2
  MaxLosses = 2
  PageId = {2, 4}
  Home = 3
  MaxPosts = 2
CHECK_DEADLOCK FALSE
INVARIANTS
  ListsAgree
  ComesOnce
