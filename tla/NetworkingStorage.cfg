SPECIFICATION Spec
CONSTANTS
  Sockets = {s1}
  Listener = Listener
  Zero = Zero
  Poller = Poller
  MaxOpens = 2
  MaxUnread = 1
INVARIANTS
  OpenSocketsArePolled
  RecvDoesNotBlock
  ClosedSocketsAreNotPolled
PROPERTIES
  TransfersHappen
