----------------------------- MODULE ChatRooms ------------------------------
(***************************************************************************)
(* What the chat commands promise: a room is opened with all its members   *)
(* at once, a private room has two members and closes when one leaves, a   *)
(* public room grows one member at a time and closes with the last one.    *)
(***************************************************************************)
EXTENDS FiniteSets

CONSTANTS Users, Chats

VARIABLES
  party,  (* chat -> its members; empty: there is no such room             *)
  kind    (* chat -> "private", "public", or "none" without a room         *)

vars == <<party, kind>>

TypeOK ==
  /\ party \in [Chats -> SUBSET Users]
  /\ kind \in [Chats -> {"none", "private", "public"}]

Init ==
  /\ party = [c \in Chats |-> {}]
  /\ kind = [c \in Chats |-> "none"]

Become(c, k, who) ==
  /\ kind' = [kind EXCEPT ![c] = k]
  /\ party' = [party EXCEPT ![c] = who]

OpenPublic(c, u) == kind[c] = "none" /\ Become(c, "public", {u})

OpenPrivate(c, u, v) ==
  /\ kind[c] = "none" /\ u # v
  /\ \A d \in Chats : kind[d] = "private" => party[d] # {u, v}
  /\ Become(c, "private", {u, v})

Join(c, u) ==
  /\ kind[c] = "public" /\ u \notin party[c]
  /\ Become(c, "public", party[c] \cup {u})

Leave(c, u) ==
  /\ u \in party[c]
  /\ IF kind[c] = "public" /\ party[c] # {u}
       THEN Become(c, "public", party[c] \ {u})
       ELSE Become(c, "none", {})

(* Every step changes who is in exactly one room. *)
Changed == {c \in Chats : party'[c] # party[c]}

Next ==
  \E c \in Changed, u \in Users :
    \/ OpenPublic(c, u)
    \/ \E v \in Users : OpenPrivate(c, u, v)
    \/ Join(c, u)
    \/ Leave(c, u)

Spec == Init /\ [][Next]_vars
=============================================================================
