---------------------------- MODULE MCRelations -----------------------------
(* Relations between three users, so that a pair has a bystander whose     *)
(* rows and lists must not be touched by what the pair does.               *)
EXTENDS Relations, TLC

Symmetry == Permutations(Users)
=============================================================================
