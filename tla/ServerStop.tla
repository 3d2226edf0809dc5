----------------------------- MODULE ServerStop -----------------------------
(***************************************************************************)
(* server::stop and the threads it waits for: it joins the handler thread, *)
(* which may be inside a command and so inside the database, then the      *)
(* acceptor, which may be inside accept, and then uses the database itself *)
(* to put all users out.                                                   *)
(***************************************************************************)
EXTENDS Database

CONSTANTS
  MaxCommandCalls,  (* most calls of the database in one command           *)
  MaxIncoming       (* bound on the connections that clients open          *)

ASSUME StopConstants == MaxCommandCalls \in Nat /\ MaxIncoming \in Nat

VARIABLES
  stage,     (* where stop is                                              *)
  handler,   (* the thread of server::handle_command                       *)
  left,      (* calls the command in progress has still to make, at most   *)
  acceptor,  (* the thread of server_networking                            *)
  flag,      (* the last poll has seen a connection in the backlog; before *)
             (* the first poll, whatever the memory holds                  *)
  backlog,   (* connections to be accepted                                 *)
  incoming   (* connections opened so far (auxiliary)                      *)

listening == <<acceptor, flag, backlog, incoming>>
handling == <<handler, left>>
vars == <<dbVars, stage, handling, listening>>

Refresh == [transaction |-> FALSE, statements |-> 1]

StopTypeOK ==
  /\ stage \in {"running", "joinHandler", "joinAcceptor", "refresh", "stopped", "died"}
  /\ handler \in {"loop", "command", "off"}
  /\ left \in 0 .. MaxCommandCalls
  /\ acceptor \in {"loop", "accept", "off"}
  /\ flag \in BOOLEAN
  /\ backlog \in 0 .. incoming /\ incoming \in 0 .. MaxIncoming
  /\ stage \in {"refresh", "stopped"} => handler = "off" /\ acceptor = "off"

-----------------------------------------------------------------------------
(* The handler thread.                                                     *)

(* A command arrives and is taken from the queue. *)
TakeCommand ==
  /\ handler = "loop" /\ stage = "running"
  /\ handler' = "command" /\ left' = MaxCommandCalls
  /\ UNCHANGED <<dbVars, stage, listening>>

CommandCalls ==
  /\ handler = "command" /\ left > 0
  /\ \E method \in Methods : StartCall(method)
  /\ left' = left - 1
  /\ UNCHANGED <<stage, handler, listening>>

(* The command has made its calls, or one of them failed: an exception is  *)
(* answered with "invalid command".                                        *)
CommandEnds ==
  /\ handler = "command" /\ phase = "none"
  /\ handler' = "loop" /\ left' = 0
  /\ UNCHANGED <<dbVars, stage, listening>>

(* Mutant of HandlerLeaves: only a thread that is in a command notices.    *)
HandlerLeavesCommand ==
  /\ handler = "command" /\ phase = "none" /\ stage = "joinHandler"
  /\ handler' = "off" /\ left' = 0
  /\ UNCHANGED <<dbVars, stage, listening>>

HandlerLeaves ==
  /\ handler = "loop" /\ stage = "joinHandler"
  /\ handler' = "off"
  /\ UNCHANGED <<dbVars, stage, left, listening>>

MethodRuns ==
  /\ stage \notin {"stopped", "died"}
  /\ MethodStep
  /\ stage' = IF stage = "refresh" /\ phase' = "none"
                THEN (IF thrown' > thrown THEN "died" ELSE "stopped")
                ELSE stage
  /\ UNCHANGED <<handling, listening>>

-----------------------------------------------------------------------------
(* The acceptor, and those who poll the listening socket.                  *)

Incoming ==
  /\ incoming < MaxIncoming
  /\ incoming' = incoming + 1 /\ backlog' = backlog + 1
  /\ UNCHANGED <<dbVars, stage, handling, acceptor, flag>>

(* Any thread's update polls all sockets, also between the check of the    *)
(* acceptor and its accept.                                                *)
Poll ==
  /\ flag' = (backlog > 0)
  /\ UNCHANGED <<dbVars, stage, handling, acceptor, backlog, incoming>>

Check ==
  /\ acceptor = "loop" /\ flag
  /\ acceptor' = "accept" /\ flag' = FALSE
  /\ UNCHANGED <<dbVars, stage, handling, backlog, incoming>>

Accept ==
  /\ acceptor = "accept" /\ backlog > 0
  /\ acceptor' = "loop" /\ backlog' = backlog - 1
  /\ UNCHANGED <<dbVars, stage, handling, flag, incoming>>

AcceptorLeaves ==
  /\ acceptor = "loop" /\ stage = "joinAcceptor"
  /\ acceptor' = "off"
  /\ UNCHANGED <<dbVars, stage, handling, flag, backlog, incoming>>

-----------------------------------------------------------------------------
(* server::stop.                                                           *)

StopBegins ==
  /\ stage = "running"
  /\ stage' = "joinHandler"
  /\ UNCHANGED <<dbVars, handling, listening>>

Joined(thread) == thread = "off"

HandlerJoined ==
  /\ stage = "joinHandler" /\ Joined(handler)
  /\ stage' = "joinAcceptor"
  /\ UNCHANGED <<dbVars, handling, listening>>

(* networking.stop returns; refresh calls sys_logout_users. *)
AcceptorJoined ==
  /\ stage = "joinAcceptor" /\ Joined(acceptor)
  /\ stage' = "refresh"
  /\ StartCall(Refresh)
  /\ UNCHANGED <<handling, listening>>

(* The process is killed, dies, or ends after stop, and is started again;  *)
(* the entry of the listening socket is new (networking_storage.cpp:33).   *)
StartAgain ==
  /\ Restart
  /\ stage' = "running" /\ handler' = "loop" /\ left' = 0
  /\ acceptor' = "loop" /\ flag' \in BOOLEAN /\ backlog' = 0
  /\ UNCHANGED incoming

-----------------------------------------------------------------------------
Init ==
  /\ DbInit
  /\ stage = "running" /\ handler = "loop" /\ left = 0
  /\ acceptor = "loop" /\ flag \in BOOLEAN /\ backlog = 0 /\ incoming = 0

StopStep == StopBegins \/ HandlerJoined \/ AcceptorJoined

HandlerStep == CommandCalls \/ CommandEnds \/ HandlerLeaves \/ MethodRuns

AcceptorStep == Check \/ Accept \/ AcceptorLeaves

Next ==
  \/ TakeCommand
  \/ HandlerStep
  \/ Incoming
  \/ Poll
  \/ AcceptorStep
  \/ StopStep
  \/ StartAgain

(* The threads run, the database answers or fails in the end, and stop     *)
(* goes on when what it waits for has happened.                            *)
Fairness ==
  /\ WF_vars(HandlerStep) /\ WF_vars(AcceptorStep)
  /\ WF_vars(HandlerJoined) /\ WF_vars(AcceptorJoined)

Spec == Init /\ [][Next]_vars /\ Fairness

-----------------------------------------------------------------------------
(* Properties.                                                             *)

(* The stop and the database it uses are in order together.                *)
ServerStopInv == StopTypeOK /\ DatabaseInv

(* A stop that has begun ends, unless it waits for a connection that was   *)
(* thrown away, or for an acceptor that a stale or uninitialized poll      *)
(* result sent into accept with nobody in the backlog                      *)
(* (server_networking.cpp:81-87, networking_storage.cpp:33).               *)
StopEnds ==
  stage = "joinHandler" ~>
    \/ stage \in {"stopped", "died", "running"}
    \/ thrown >= Cardinality(Connections)
    \/ acceptor = "accept" /\ backlog = 0
=============================================================================
