SPECIFICATION Spec
CONSTANTS
  ann = ann
  ANN = ANN
  Users = {u1, u2}
  NoUser = NoUser
  Logins = {ann, bob}
  ValidLogins = {ann, bob}
  NoLogin = NoLogin
  Passwords = {strong}
  ValidPasswords = {strong}
  Fold <- InLowerCase
  Keep = Keep
  Tokens = {t1, t2}
INVARIANT AlreadyLoggedInIsTrue
