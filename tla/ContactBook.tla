---------------------------- MODULE ContactBook -----------------------------
(***************************************************************************)
(* What the invite and contact_delete commands promise: between two users  *)
(* there is nothing, one invitation, or a friendship, and a friendship     *)
(* grows only out of an invitation.  Nothing keeps the two apart: an id in *)
(* other letters passes for another user.                                  *)
(***************************************************************************)
CONSTANT Ids

VARIABLES
  invited,  (* <<u, v>>: u has invited v                                   *)
  friends   (* {u, v}: u and v are contacts of each other                  *)

vars == <<invited, friends>>

TypeOK == invited \subseteq Ids \X Ids /\ friends \subseteq SUBSET Ids

Init == invited = {} /\ friends = {}

Strangers(u, v) ==
  /\ <<u, v>> \notin invited /\ <<v, u>> \notin invited
  /\ {u, v} \notin friends

Invite(u, v) ==
  /\ Strangers(u, v)
  /\ invited' = invited \cup {<<u, v>>}
  /\ UNCHANGED friends

(* The invitation is refused, taken back or lost. *)
Withdraw(u, v) ==
  /\ <<u, v>> \in invited
  /\ invited' = invited \ {<<u, v>>}
  /\ UNCHANGED friends

Befriend(u, v) ==
  /\ <<u, v>> \in invited
  /\ invited' = invited \ {<<u, v>>}
  /\ friends' = friends \cup {{u, v}}

Part(u, v) ==
  /\ {u, v} \in friends
  /\ friends' = friends \ {{u, v}}
  /\ UNCHANGED invited

Next ==
  \E u, v \in Ids : Invite(u, v) \/ Withdraw(u, v) \/ Befriend(u, v) \/ Part(u, v)

Spec == Init /\ [][Next]_vars
=============================================================================
