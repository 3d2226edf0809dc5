---------------------------- MODULE MCMessages -----------------------------
(* Two users in one chat, which may be deleted; two messages, which can be *)
(* simultaneous or not, and fill two pages.                                *)
EXTENDS ChatMessages, TLC

Symmetry == Permutations(Users) \cup Permutations(ChatIds) \cup Permutations(MessageIds)
=============================================================================
