SPECIFICATION MessagesSpec
CONSTANTS
  Users = {u1, u2}
  NoUser = NoUser
  ChatIds = {c1}
  MessageIds = {m1, m2}
  MaxChats = 2
  MaxParticipants = 2
  MaxTime = 1
  PageSize = 1
SYMMETRY Symmetry
INVARIANTS
  MessagesTypeOK
  MessagesAreReadable
  ReadersMissOnlyTheLate
  ListingsAgree
PROPERTIES
  PostsAreSound
