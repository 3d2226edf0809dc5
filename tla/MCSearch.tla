------------------------------ MODULE MCSearch ------------------------------
(* Instance of Search: three users whose logins are strings of up to three *)
(* letters, one of whom searches and another may take a new login and name.*)
EXTENDS Search, TLC

CONSTANTS u1, u2, u3

(* No action reads reply, and no property of this run does. *)
AllButReply == <<registered, requests, contacts, connection, accepting, profile, session, touched>>

MCUsers == {u1, u2, u3}

MCSearchers == {u1, NoUser}

MCRenamers == {u2}

MCFirstLogin == (u1 :> <<"a">>) @@ (u2 :> <<"b", "a">>) @@ (u3 :> <<"a", "b", "c">>)

MCNewLogins == {<<"c", "b">>}

MCNewNames == {<<"a", "b">>}

MCQueries == {<<>>, <<"a", "c", "b">>, <<"a", "b">>}
=============================================================================
