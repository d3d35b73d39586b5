SPECIFICATION HostSpec
CONSTANTS
  ohFast = TRUE
  Node = {d1, d2, d3}
  NoNode = NoNode
INVARIANTS PoolsWhole EhNoStaleFlag HostKnowsAddress QueueLinked
PROPERTIES EhFreesWhenDone HostReturns OhFinished ImplementsPool
