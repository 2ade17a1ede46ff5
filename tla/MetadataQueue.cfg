SPECIFICATION FairSpec
CONSTANTS
  NumQueues = 2
  Capacity = 2
  Main = Main
  Clients = {c1}
  NoMessage = NoMessage
  Messages = {m1}
  MaxItems = 2
  EarlySends = FALSE
CHECK_DEADLOCK FALSE
INVARIANTS RefsExact SleepsOnlyWhenEmpty
PROPERTIES ImplementsFifo MessagesFreed
