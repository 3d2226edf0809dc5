SPECIFICATION SearchSpec
CONSTANTS
  u1 = u1
  u2 = u2
  u3 = u3
  NoUser = NoUser
  Users <- MCUsers
  Searchers <- MCSearchers
  Renamers <- MCRenamers
  FirstLogin <- MCFirstLogin
  NewLogins <- MCNewLogins
  NewNames <- MCNewNames
  Queries <- MCQueries
  PageSize = 1
VIEW AllButReply
INVARIANTS
  CacheInv
  SearchShowsTheMatches
