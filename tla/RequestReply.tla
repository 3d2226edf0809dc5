---------------------------- MODULE RequestReply ----------------------------
(***************************************************************************)
(* What the server promises to a client that connects once: its requests,  *)
(* numbered from 1, are answered in the order in which they were sent.     *)
(* One answer may cover several requests that arrived together.  Nothing   *)
(* is answered before it was sent or after the client is gone, and while a *)
(* client is connected to a running server that does not stall, its        *)
(* requests do get answers.                                                *)
(***************************************************************************)
EXTENDS Naturals

CONSTANT Clients

VARIABLES
  phase,     (* client -> its connection, see Phases                       *)
  sent,      (* client -> number of requests sent                          *)
  answered   (* client -> number of the last request answered              *)

vars == <<phase, sent, answered>>

(* "stalled": nothing is promised at the moment, perhaps never again.      *)
(* "ending": the server shuts down and answers only what it has handled.   *)
Here == {"connected", "stalled", "ending"}
Phases == {"new", "gone"} \cup Here

TypeOK ==
  /\ phase \in [Clients -> Phases]
  /\ sent \in [Clients -> Nat]
  /\ answered \in [Clients -> Nat]

Init ==
  /\ phase = [c \in Clients |-> "new"]
  /\ sent = [c \in Clients |-> 0]
  /\ answered = [c \in Clients |-> 0]

Connect(c) ==
  /\ phase[c] = "new"
  /\ \E p \in Here : phase' = [phase EXCEPT ![c] = p]
  /\ UNCHANGED <<sent, answered>>

(* A request may be what the stalled server has waited for. *)
Send(c) ==
  /\ phase[c] \in Here
  /\ sent' = [sent EXCEPT ![c] = @ + 1]
  /\ phase' = phase \/ (phase[c] = "stalled" /\ phase' = [phase EXCEPT ![c] = "connected"])
  /\ UNCHANGED answered

AnswerIn(c, phases) ==
  /\ phase[c] \in phases
  /\ \E n \in (answered[c] + 1)..sent[c] : answered' = [answered EXCEPT ![c] = n]
  /\ UNCHANGED <<phase, sent>>

Answer(c) == AnswerIn(c, Here)

(* For one client, several or all at once. *)
Stall ==
  /\ \E C \in SUBSET Clients :
       phase' = [c \in Clients |-> IF c \in C /\ phase[c] = "connected" THEN "stalled" ELSE phase[c]]
  /\ UNCHANGED <<sent, answered>>

Resume(c) ==
  /\ phase[c] = "stalled"
  /\ phase' = [phase EXCEPT ![c] = "connected"]
  /\ UNCHANGED <<sent, answered>>

Leave(c) ==
  /\ phase[c] \in Here
  /\ phase' = [phase EXCEPT ![c] = "gone"]
  /\ UNCHANGED <<sent, answered>>

(* The server begins to stop. *)
Shutdown ==
  /\ phase' = [c \in Clients |-> IF phase[c] \in Here THEN "ending" ELSE phase[c]]
  /\ UNCHANGED <<sent, answered>>

(* The process ends and takes every connection along. *)
Collapse ==
  /\ phase' = [c \in Clients |-> IF phase[c] = "new" THEN "new" ELSE "gone"]
  /\ UNCHANGED <<sent, answered>>

Next ==
  \/ \E c \in Clients : Connect(c) \/ Send(c) \/ Answer(c) \/ Resume(c) \/ Leave(c)
  \/ Stall
  \/ Shutdown
  \/ Collapse

Fairness == \A c \in Clients : WF_vars(AnswerIn(c, {"connected"}))

Spec == Init /\ [][Next]_vars /\ Fairness
=============================================================================
