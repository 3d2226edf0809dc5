SPECIFICATION Spec
CONSTANTS
  ann = ann
  ANN = ANN
  Users = {u1, u2}
  NoUser = NoUser
  Logins = {ann, ANN, bob, malformed}
  ValidLogins = {ann, ANN, bob}
  NoLogin = NoLogin
  Passwords = {strong, other, weak}
  ValidPasswords = {strong, other}
  Fold <- InLowerCase
  Keep = Keep
  Tokens = {t1, t2}
SYMMETRY Symmetry
INVARIANTS
  SessionMeansOnline
  OneSessionPerUser
  CachedLoginIsFresh
PROPERTIES
  LockoutsHaveACause
  ImplementsPresence
