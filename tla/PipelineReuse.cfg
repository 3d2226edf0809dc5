SPECIFICATION Spec
CONSTANTS
  Peers = {p1, p2}
  Sockets = {s1}
  NoPeer = NoPeer
  NoSocket = NoSocket
  MaxCommands = 1
  TersePeers = {}
  OddPeers = {}
CHECK_DEADLOCK FALSE
INVARIANT
  AnswersReachTheAsker
