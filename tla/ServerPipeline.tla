--------------------------- MODULE ServerPipeline ---------------------------
(***************************************************************************)
(* The way of a command through the server: accept, receive, queue,        *)
(* handle, answer - and what departures and stop do to it.                 *)
(*                                                                         *)
(* Threads: one acceptor (server_networking), one worker per client        *)
(* (client_networking_proxy), one handler thread (server), one short-lived *)
(* thread per lost client (the asynchronous error event), the thread that  *)
(* calls stop.  The map clients is keyed by SOCKET numbers, which the      *)
(* operating system hands out again after closesocket, and the handler     *)
(* thread reads it without clients_mutex.                                  *)
(*                                                                         *)
(* A peer is one connection; a message is its number and its kind: "blank" *)
(* is read as the empty string, "void" is a search for nothing.  Commands  *)
(* and answers carry, as auxiliary data, the peer that sent the message.   *)
(*                                                                         *)
(* The sockets are blocking.  Three waits may last for ever: a recv that   *)
(* finds nothing, the send to a peer that does not read, and the handler's *)
(* wait for a connection to the database when the only one is lost.        *)
(***************************************************************************)
EXTENDS Naturals, Sequences, FiniteSets, SequencesExt

CONSTANTS
  Peers,        (* connections that clients may open, each once            *)
  Sockets,      (* SOCKET numbers of the operating system                  *)
  NoPeer,       (* no proxy                                                *)
  NoSocket,     (* INVALID_SOCKET                                          *)
  MaxCommands,  (* bound on the messages of one peer                       *)
  TersePeers,   (* those that send one message at most (a bound)           *)
  OddPeers      (* those that may send blank and void messages, fill the   *)
                (* buffer of recv exactly, stop reading, and whose socket  *)
                (* may get bad entries in the descriptor maps (a bound)    *)

ASSUME PipelineConstants ==
  /\ NoPeer \notin Peers
  /\ NoSocket \notin Sockets
  /\ MaxCommands \in Nat
  /\ OddPeers \subseteq Peers

VARIABLES
  server,    (* life cycle of the server object and its process            *)
  link,      (* peer -> the TCP connection as the operating system sees it *)
  toServer,  (* peer -> messages sent and not yet read by recv             *)
  sent,      (* peer -> number of messages sent                            *)
  got,       (* peer -> answers that arrived                               *)
  stage,     (* peer -> what the server has made of the connection         *)
  sock,      (* peer -> its SOCKET number while it has one                 *)
  clients,   (* map SOCKET -> proxy                                        *)
  used,      (* SOCKET numbers that were closed, and may be handed out     *)
  blind,     (* peer -> descriptor maps in which its socket is not polled  *)
  call,      (* peer -> the call of the operating system its worker is in  *)
  piece,     (* peer -> what receive_message has collected                 *)
  outbox,    (* peer -> messages_to_send of its proxy                      *)
  commands,  (* queue commands_to_handle                                   *)
  handling,  (* what handle_command has taken from the queue               *)
  target,    (* the proxy whose pointer handle_command has read            *)
  hung       (* the handler waits for a database connection that is lost   *)

network == <<link, toServer, sent, got>>
workers == <<blind, call, piece>>
proxies == <<stage, sock, clients, used, outbox, workers>>
handler == <<commands, handling, target, hung>>
vars == <<server, network, proxies, handler>>

Kinds == {"text", "blank", "void"}
Message == [n : 1..MaxCommands, kind : Kinds]
Piece == {x \in [upto : 0..MaxCommands, kind : Kinds] : x.upto = 0 => x.kind = "blank"}
Command ==
  {c \in [sock : Sockets, from : Peers, upto : 0..MaxCommands, kind : Kinds] :
     c.upto = 0 => c.kind = "blank"}
Reply == [from : Peers, upto : 1..MaxCommands]

Nothing == [sock |-> NoSocket, from |-> NoPeer, upto |-> 0, kind |-> "text"]
EmptyPiece == [upto |-> 0, kind |-> "blank"]

ServerState == {"setup", "running", "stopping", "stopped", "dead"}
LinkState == {"none", "open", "full", "closed", "reset"}
Calls == {"none", "recv", "send"}
Stages == {"none", "waiting", "registering", "serving", "failing", "erased"}

(* Values of the state; the map holds proxies, never a null pointer. *)
TypeOK ==
  /\ server \in ServerState
  /\ link \in [Peers -> LinkState]
  /\ toServer \in [Peers -> Seq(Message)]
  /\ sent \in [Peers -> 0..MaxCommands]
  /\ got \in [Peers -> Seq(Reply)]
  /\ stage \in [Peers -> Stages]
  /\ sock \in [Peers -> Sockets \cup {NoSocket}]
  /\ DOMAIN clients \subseteq Sockets
  /\ clients \in [DOMAIN clients -> Peers]
  /\ used \subseteq Sockets
  /\ blind \in [Peers -> SUBSET {"read", "write"}]
  /\ call \in [Peers -> Calls]
  /\ piece \in [Peers -> Piece]
  /\ outbox \in [Peers -> Seq(Reply)]
  /\ commands \in Seq(Command)
  /\ handling \in Command \cup {Nothing}
  /\ target \in Peers \cup {NoPeer}
  /\ hung \in BOOLEAN

Alive == server # "dead"

(* Stages in which the operating system holds a SOCKET for the peer. *)
WithSocket == {"registering", "serving", "failing"}

(* Stages in which the proxy exists and is in the map. *)
WithProxy == {"serving", "failing"}

Init ==
  /\ server = "setup"
  /\ link = [p \in Peers |-> "none"]
  /\ toServer = [p \in Peers |-> <<>>]
  /\ sent = [p \in Peers |-> 0]
  /\ got = [p \in Peers |-> <<>>]
  /\ stage = [p \in Peers |-> "none"]
  /\ sock = [p \in Peers |-> NoSocket]
  /\ clients = [s \in {} |-> NoPeer]
  /\ used = {}
  /\ blind = [p \in Peers |-> {}]
  /\ call = [p \in Peers |-> "none"]
  /\ piece = [p \in Peers |-> EmptyPiece]
  /\ outbox = [p \in Peers |-> <<>>]
  /\ commands = <<>>
  /\ handling = Nothing
  /\ target = NoPeer
  /\ hung = FALSE

-----------------------------------------------------------------------------
(* Peers and the network.                                                  *)

Connect(p) ==
  /\ server \in {"running", "stopping"}
  /\ link[p] = "none"
  /\ link' = [link EXCEPT ![p] = "open"]
  /\ stage' = [stage EXCEPT ![p] = "waiting"]
  /\ UNCHANGED <<server, toServer, sent, got, sock, clients, used, outbox, workers, handler>>

(* The peer has the connection, whether it reads or not. *)
Connected(p) == link[p] \in {"open", "full"}

SendCommand(p, kind) ==
  /\ Alive
  /\ Connected(p)
  /\ sent[p] < MaxCommands
  /\ p \in TersePeers => sent[p] = 0
  /\ kind # "text" => p \in OddPeers
  /\ sent' = [sent EXCEPT ![p] = @ + 1]
  /\ toServer' = [toServer EXCEPT ![p] = Append(@, [n |-> sent[p] + 1, kind |-> kind])]
  /\ UNCHANGED <<server, link, got, proxies, handler>>

(* What the peer leaves unread fills the buffers of the connection. *)
StopReading(p) ==
  /\ Alive
  /\ p \in OddPeers
  /\ link[p] = "open"
  /\ link' = [link EXCEPT ![p] = "full"]
  /\ UNCHANGED <<server, toServer, sent, got, proxies, handler>>

ReadAgain(p) ==
  /\ Alive
  /\ link[p] = "full"
  /\ link' = [link EXCEPT ![p] = "open"]
  /\ UNCHANGED <<server, toServer, sent, got, proxies, handler>>

(* In good order: what was sent can still be read, and nothing tells the   *)
(* server, for a send of no bytes to such a connection succeeds.           *)
Close(p) ==
  /\ Alive
  /\ Connected(p)
  /\ link' = [link EXCEPT ![p] = "closed"]
  /\ UNCHANGED <<server, toServer, sent, got, proxies, handler>>

(* With a reset: WSAECONNRESET from now on, unread bytes are lost. *)
Reset(p) ==
  /\ Alive
  /\ link[p] \notin {"none", "reset"}
  /\ link' = [link EXCEPT ![p] = "reset"]
  /\ toServer' = [toServer EXCEPT ![p] = <<>>]
  /\ UNCHANGED <<server, sent, got, proxies, handler>>

-----------------------------------------------------------------------------
(* The acceptor.                                                           *)

FreeSockets == Sockets \ {sock[p] : p \in Peers}

Accept(p) ==
  /\ server \in {"running", "stopping"}
  /\ stage[p] = "waiting"
  /\ \A q \in Peers : stage[q] # "registering"
  /\ \E s \in FreeSockets : sock' = [sock EXCEPT ![p] = s]
  /\ stage' = [stage EXCEPT ![p] = "registering"]
  /\ UNCHANGED <<server, network, clients, used, outbox, workers, handler>>

Registered(p) == [s \in DOMAIN clients \cup {sock[p]} |->
                    IF s \in DOMAIN clients THEN clients[s] ELSE p]

(* insert leaves an entry alone that the key already has.  A number that   *)
(* was used before may find entries without a descriptor in the maps of    *)
(* networking_storage, and is never reported there; a new entry starts     *)
(* with an uninitialized revents, which may send the worker to recv.       *)
OnConnectionIncoming(p) ==
  /\ Alive
  /\ stage[p] = "registering"
  /\ clients' = Registered(p)
  /\ stage' = [stage EXCEPT ![p] = "serving"]
  /\ \E maps \in SUBSET {"read", "write"} :
       /\ maps # {} => p \in OddPeers /\ sock[p] \in used
       /\ blind' = [blind EXCEPT ![p] = maps]
       /\ \E c \in {"none", "recv"} :
            /\ c = "recv" => p \in OddPeers /\ "read" \notin maps
            /\ call' = [call EXCEPT ![p] = c]
  /\ UNCHANGED <<server, network, sock, used, outbox, piece, handler>>

-----------------------------------------------------------------------------
(* The worker of a client.                                                 *)

Serves(p) == Alive /\ stage[p] = "serving"

(* recv returns what has arrived: one message or several at once.  It is   *)
(* read as a C string, empty if the first one is, and appended.            *)
Extended(p, k) ==
  [upto |-> toServer[p][k].n,
   kind |-> IF piece[p].kind = "blank" THEN toServer[p][1].kind ELSE piece[p].kind]

Received(p, x) == [sock |-> sock[p], from |-> p, upto |-> x.upto, kind |-> x.kind]

(* Mutant of Enqueue: the newest command comes first. *)
EnqueueFirst(c) == commands' = <<c>> \o commands

Enqueue(c) == commands' = Append(commands, c)

(* receive_message returns: the message is handed over. *)
HandOver(p, x) ==
  /\ Enqueue(Received(p, x))
  /\ call' = [call EXCEPT ![p] = "none"]
  /\ piece' = [piece EXCEPT ![p] = EmptyPiece]

(* After a buffer that was filled exactly, recv is called again. *)
ReceiveMore(p, x) ==
  /\ p \in OddPeers
  /\ call' = [call EXCEPT ![p] = "recv"]
  /\ piece' = [piece EXCEPT ![p] = x]
  /\ UNCHANGED commands

Receive(p) ==
  /\ Serves(p)
  /\ link[p] # "reset"
  /\ call[p] = "recv" \/ (call[p] = "none" /\ "read" \notin blind[p])
  /\ \E k \in DOMAIN toServer[p] :
       /\ HandOver(p, Extended(p, k)) \/ ReceiveMore(p, Extended(p, k))
       /\ toServer' = [toServer EXCEPT ![p] = SubSeq(@, k + 1, Len(@))]
  /\ UNCHANGED <<server, link, sent, got, stage, sock, clients, used, outbox, blind,
                 handling, target, hung>>

(* The peer closes while the worker is in recv: recv returns 0, and what   *)
(* was collected so far, perhaps nothing, is the message.                  *)
ReceiveEnd(p) ==
  /\ Serves(p)
  /\ link[p] = "closed"
  /\ call[p] = "recv"
  /\ toServer[p] = <<>>
  /\ HandOver(p, piece[p])
  /\ UNCHANGED <<server, network, stage, sock, clients, used, outbox, blind,
                 handling, target, hung>>

(* The worker is about to send, or in the send that has waited. *)
Sends(p) ==
  /\ Serves(p)
  /\ outbox[p] # <<>>
  /\ call[p] = "send" \/ (call[p] = "none" /\ "write" \notin blind[p])

(* send waits; the worker does nothing else meanwhile.  The message that   *)
(* it has taken from the queue is still counted there.                     *)
SendWaits(p) ==
  /\ Sends(p)
  /\ link[p] = "full"
  /\ call[p] = "none"
  /\ call' = [call EXCEPT ![p] = "send"]
  /\ UNCHANGED <<server, network, stage, sock, clients, used, outbox, blind, piece, handler>>

(* A connection that was closed in good order answers the first send with  *)
(* a reset; the message is lost.                                           *)
SendAnswer(p) ==
  /\ Sends(p)
  /\ call' = [call EXCEPT ![p] = "none"]
  /\ outbox' = [outbox EXCEPT ![p] = Tail(@)]
  /\ \/ /\ link[p] = "open"
        /\ got' = [got EXCEPT ![p] = Append(@, Head(outbox[p]))]
        /\ UNCHANGED <<link, toServer>>
     \/ /\ link[p] = "closed"
        /\ link' = [link EXCEPT ![p] = "reset"]
        /\ toServer' = [toServer EXCEPT ![p] = <<>>]
        /\ UNCHANGED got
  /\ UNCHANGED <<server, sent, stage, sock, clients, used, blind, piece, handler>>

(* Mutant of IsDisconnected: a close in good order counts, too. *)
IsNotOpen(p) == ~Connected(p)

(* Mutant of IsDisconnected: the error code is never one of the two. *)
IsNeverLost(p) == FALSE

IsDisconnected(p) == link[p] = "reset"

(* A recv or send that waits fails, or the next look at the connection     *)
(* does; the worker ends its loop and starts the thread of the error       *)
(* event.  What it has collected is dropped.                               *)
NoticeLoss(p) ==
  /\ Serves(p)
  /\ IsDisconnected(p)
  /\ stage' = [stage EXCEPT ![p] = "failing"]
  /\ call' = [call EXCEPT ![p] = "none"]
  /\ piece' = [piece EXCEPT ![p] = EmptyPiece]
  /\ UNCHANGED <<server, network, sock, clients, used, outbox, blind, handler>>

(* Mutant of Unregistered: the socket is closed, the entry stays. *)
StillRegistered(p) == clients

Unregistered(p) == [s \in DOMAIN clients \ {sock[p]} |-> clients[s]]

(* Joins the worker, erases the entry; the destructor closes the SOCKET. *)
OnClientNetError(p) ==
  /\ Alive
  /\ stage[p] = "failing"
  /\ clients' = Unregistered(p)
  /\ sock' = [sock EXCEPT ![p] = NoSocket]
  /\ outbox' = [outbox EXCEPT ![p] = <<>>]
  /\ stage' = [stage EXCEPT ![p] = "erased"]
  /\ used' = used \cup {sock[p]}
  /\ UNCHANGED <<server, network, workers, handler>>

-----------------------------------------------------------------------------
(* The handler thread.                                                     *)

Idle == handling = Nothing

Dies == server' = "dead" /\ UNCHANGED <<network, proxies, handler>>

(* The command is interpreted and handled; an exception of the handler is  *)
(* answered like any other result.                                         *)
TakeCommand ==
  /\ server = "running"
  /\ Idle
  /\ commands # <<>>
  /\ handling' = Head(commands)
  /\ commands' = Tail(commands)
  /\ UNCHANGED <<server, network, proxies, target, hung>>

(* interpret throws on "": com is still null where it is cleared. *)
ClearNullCommand ==
  /\ Alive
  /\ ~Idle
  /\ handling.kind = "blank"
  /\ Dies

Answering == Alive /\ ~Idle /\ handling.kind # "blank" /\ ~hung

(* A search for nothing reads outside of the query when it finds rows. *)
SearchForNothing ==
  /\ Answering
  /\ target = NoPeer
  /\ handling.kind = "void"
  /\ Dies

(* wait_and_erase: the handler of this command never returns. *)
HandlerHangs ==
  /\ Answering
  /\ target = NoPeer
  /\ hung' = TRUE
  /\ UNCHANGED <<server, network, proxies, commands, handling, target>>

(* Another thread is inside an insert or an erase of the map. *)
MapIsChanging == \E p \in Peers : stage[p] \in {"registering", "failing"}

(* Mutant of Addressee: the front of the queue after the pop. *)
SenderOfNext ==
  IF commands = <<>> \/ Head(commands).sock \notin DOMAIN clients
  THEN clients[handling.sock]
  ELSE clients[Head(commands).sock]

Addressee == clients[handling.sock]

LookUpClient ==
  /\ Answering
  /\ target = NoPeer
  /\ handling.sock \in DOMAIN clients
  /\ target' = Addressee
  /\ UNCHANGED <<server, network, proxies, commands, handling, hung>>

(* operator[] makes a null entry for a SOCKET that is not there, and the   *)
(* call through it fails; a lookup during a change of the map may fail.    *)
LookUpFails ==
  /\ Answering
  /\ target = NoPeer
  /\ handling.sock \notin DOMAIN clients \/ MapIsChanging
  /\ Dies

PushAnswer ==
  /\ Answering
  /\ target # NoPeer
  /\ outbox' = IF stage[target] \in WithProxy
               THEN [outbox EXCEPT ![target] =
                       Append(@, [from |-> handling.from, upto |-> handling.upto])]
               ELSE outbox
  /\ handling' = Nothing
  /\ target' = NoPeer
  /\ UNCHANGED <<server, network, stage, sock, clients, used, workers, commands, hung>>

(* The proxy was destroyed between the lookup and the call. *)
PushFails ==
  /\ Answering
  /\ target # NoPeer
  /\ stage[target] \notin WithProxy
  /\ Dies

-----------------------------------------------------------------------------
(* The life cycle.                                                         *)

Run ==
  /\ server = "setup"
  /\ server' = "running"
  /\ UNCHANGED <<network, proxies, handler>>

(* cancellation_flag of the handler thread is set. *)
StopBegins ==
  /\ server = "running"
  /\ server' = "stopping"
  /\ UNCHANGED <<network, proxies, handler>>

(* Mutant of Joined: stop does not wait for the handler thread. *)
NotJoined == TRUE

Joined == Idle

(* The handler thread is joined; then networking.stop, joining the         *)
(* acceptor, and refresh.  The client workers go on.                       *)
StopEnds ==
  /\ server = "stopping"
  /\ Joined
  /\ \A p \in Peers : stage[p] # "registering"
  /\ server' = "stopped"
  /\ UNCHANGED <<network, proxies, handler>>

PeerStep(p) ==
  \/ Connect(p)
  \/ \E kind \in Kinds : SendCommand(p, kind)
  \/ StopReading(p)
  \/ ReadAgain(p)
  \/ Close(p)
  \/ Reset(p)

ConnectionStep(p) ==
  \/ Accept(p)
  \/ OnConnectionIncoming(p)
  \/ Receive(p)
  \/ ReceiveEnd(p)
  \/ SendWaits(p)
  \/ SendAnswer(p)
  \/ NoticeLoss(p)
  \/ OnClientNetError(p)

HandlerStep ==
  \/ TakeCommand
  \/ ClearNullCommand
  \/ SearchForNothing
  \/ HandlerHangs
  \/ LookUpClient
  \/ LookUpFails
  \/ PushAnswer
  \/ PushFails

Next ==
  \/ \E p \in Peers : PeerStep(p) \/ ConnectionStep(p)
  \/ HandlerStep
  \/ Run
  \/ StopBegins
  \/ StopEnds

(* Every thread is a loop that wakes up each millisecond until its flag is *)
(* set.  A worker looks at its connection, reads and writes in every       *)
(* round; a thread that waits in recv, in send or for the database has no  *)
(* step.  Peers and stop owe nothing.                                      *)
Fairness ==
  /\ WF_vars(HandlerStep)
  /\ \A p \in Peers :
       /\ WF_vars(Accept(p))
       /\ WF_vars(OnConnectionIncoming(p))
       /\ WF_vars(Receive(p))
       /\ WF_vars(ReceiveEnd(p))
       /\ WF_vars(SendAnswer(p))
       /\ WF_vars(NoticeLoss(p))
       /\ WF_vars(OnClientNetError(p))

Spec == Init /\ [][Next]_vars /\ Fairness

-----------------------------------------------------------------------------
(* Properties.                                                             *)

(* server.cpp, clients: the map holds exactly the proxies of live workers, *)
(* each under the SOCKET it talks on, whatever connects, fails and is      *)
(* numbered again.                                                         *)
ClientsAreTheProxies ==
  /\ \A s \in DOMAIN clients : stage[clients[s]] \in WithProxy /\ sock[clients[s]] = s
  /\ \A p \in Peers : stage[p] \in WithProxy => sock[p] \in DOMAIN clients

Answers(p) == ToSet(outbox[p]) \cup ToSet(got[p])

(* server.cpp 105: as long as a client is in the map, the answers to its   *)
(* commands go to it and to nobody else.                                   *)
LiveAnswersStayHome ==
  \A p \in Peers : \A a \in Answers(p) : a.from = p \/ stage[a.from] = "erased"

(* docs/login.md: in case of success the server returns the session token. *)
(* The stronger statement: whoever receives an answer has asked for it.    *)
AnswersReachTheAsker ==
  \A p \in Peers : \A a \in Answers(p) : a.from = p

(* handle_command: the process survives everything but an empty message,   *)
(* which a client has sent or has left behind by closing while its worker  *)
(* was in recv, a search for nothing, a lookup that meets a change of the  *)
(* map, and the loss of a connection.                                      *)
DeathHasACause ==
  server = "dead" =>
    \/ handling.kind = "blank" /\ (handling.upto = 0 => ~Connected(handling.from))
    \/ handling.kind = "void"
    \/ \E p \in Peers : stage[p] = "registering" \/ link[p] = "reset"

(* server::stop resets the sessions last: no command is handled after that *)
(* although the client workers go on filling the queue.                    *)
NothingHandledAfterStop == [][server = "stopped" => UNCHANGED handling]_vars

(* client_networking_base: a lost connection is removed in the end. *)
LostClientsAreErased ==
  \A p \in Peers :
    (stage[p] = "serving" /\ link[p] = "reset") ~> (stage[p] = "erased" \/ ~Alive)

(* Nothing is promised while the handler or the worker waits, or to a      *)
(* client whose socket is not polled.                                      *)
Stalled(p) ==
  \/ hung
  \/ link[p] = "full"
  \/ blind[p] # {}
  \/ call[p] = "recv" /\ toServer[p] = <<>>

(* The server as one client sees it: see RequestReply. *)
PhaseOf(p) ==
  IF link[p] = "none" THEN "new"
  ELSE IF link[p] \in {"closed", "reset"} \/ ~Alive THEN "gone"
  ELSE IF server # "running" THEN "ending"
  ELSE IF Stalled(p) THEN "stalled"
  ELSE "connected"

LastAnswered(p) ==
  LET mine == {i \in DOMAIN got[p] : got[p][i].from = p}
  IN  IF mine = {} THEN 0 ELSE got[p][Max(mine)].upto

Service == INSTANCE RequestReply WITH
  Clients <- Peers,
  phase <- [p \in Peers |-> PhaseOf(p)],
  sent <- sent,
  answered <- [p \in Peers |-> LastAnswered(p)]

ImplementsRequestReply == Service!Spec
=============================================================================
