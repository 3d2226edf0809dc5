SPECIFICATION Spec
CONSTANTS
  Users = {u1, u2, u3}
  NoUser = NoUser
  ChatIds = {c1, c2}
  MessageIds = {m1}
  MaxChats = 2
  MaxParticipants = 2
SYMMETRY Symmetry
INVARIANTS
  SizeCountsMembers
  OnePrivateChatPerPair
PROPERTIES
  OrphansOnlyByFault
  ImplementsChatRooms
