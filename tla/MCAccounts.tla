----------------------------- MODULE MCAccounts -----------------------------
(* Accounts on a small instance.  User ids and tokens are interchangeable: *)
(* no operation tells one of them from another.  ANN is ann in capitals.   *)
EXTENDS Accounts, TLC

CONSTANTS ann, ANN

Lower == ANN :> ann

InLowerCase == [x \in Logins \cup Passwords |-> IF x \in DOMAIN Lower THEN Lower[x] ELSE x]

Symmetry == Permutations(Users) \cup Permutations(Tokens)
=============================================================================
