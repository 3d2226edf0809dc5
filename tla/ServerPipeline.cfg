SPECIFICATION Spec
CONSTANTS
  Peers = {p1, p2}
  Sockets = {s1, s2}
  NoPeer = NoPeer
  NoSocket = NoSocket
  MaxCommands = 2
  TersePeers = {p1}
  OddPeers = {p2}
CHECK_DEADLOCK FALSE
INVARIANTS
  ClientsAreTheProxies
  LiveAnswersStayHome
  DeathHasACause
PROPERTIES
  NothingHandledAfterStop
  LostClientsAreErased
  ImplementsRequestReply
