------------------------------ MODULE MCChats -------------------------------
(* Three users and two chats, so that a public chat can outgrow the limit  *)
(* of two participants and a pair can try for a second private chat; one   *)
(* message, as text or as a file, posted into the chats that come and go.  *)
EXTENDS Chats, TLC

Symmetry == Permutations(Users) \cup Permutations(ChatIds)
=============================================================================
