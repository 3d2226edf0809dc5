---------------------------- MODULE UserPresence ----------------------------
(***************************************************************************)
(* What the account system promises about one user at a time: a user is    *)
(* unknown, out, in, lost - marked as logged in with no session left - or  *)
(* stale - holding a session of somebody who is marked as out.             *)
(*                                                                         *)
(* A user enters only from outside and leaves only from inside.  Either    *)
(* may fail half way, when the database does its part and is not heard.    *)
(* A departure that was not heard of is the last thing that happens before *)
(* the server stops.                                                       *)
(***************************************************************************)
CONSTANT Users

VARIABLE presence  (* user -> what the system believes about the user      *)

States == {"unknown", "out", "in", "lost", "stale"}

TypeOK == presence \in [Users -> States]

Init == presence = [u \in Users |-> "unknown"]

NobodyStale == \A u \in Users : presence[u] # "stale"

Move(u, from, to) ==
  /\ NobodyStale
  /\ presence[u] = from
  /\ presence' = [presence EXCEPT ![u] = to]

Register(u) == Move(u, "unknown", "out")

Enter(u) == Move(u, "out", "in")

EnterUnheard(u) == Move(u, "out", "lost")

Leave(u) == Move(u, "in", "out")

LeaveUnheard(u) == Move(u, "in", "stale")

(* The process dies: whoever was in is lost. *)
Lose ==
  presence' = [u \in Users |-> IF presence[u] = "in" THEN "lost"
                               ELSE IF presence[u] = "stale" THEN "out" ELSE presence[u]]

(* The server shuts down: everybody is out, or, when the database is not   *)
(* reached, only who was marked so.                                        *)
Reset ==
  presence' = [u \in Users |-> IF presence[u] = "unknown" THEN "unknown" ELSE "out"]

Forget ==
  presence' = [u \in Users |-> IF presence[u] = "stale" THEN "out" ELSE presence[u]]

Step(u) == Register(u) \/ Enter(u) \/ EnterUnheard(u) \/ Leave(u) \/ LeaveUnheard(u)

Next == (\E u \in Users : Step(u)) \/ Lose \/ Reset \/ Forget

Spec == Init /\ [][Next]_presence
=============================================================================
