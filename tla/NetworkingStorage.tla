------------------------- MODULE NetworkingStorage --------------------------
(***************************************************************************)
(* The descriptor maps that decide which sockets are read and written.     *)
(*                                                                         *)
(* Threads: the poller (the context of networking_storage), the acceptor   *)
(* with the listening socket, one worker per client socket.  A worker      *)
(* polls, too: it calls update() after each recv and send.  Every access   *)
(* to the maps is under descs_events_mutex, and no thread waits while it   *)
(* holds it (WSAPoll has timeout 0), so each critical section is a step.   *)
(* update_descs has two of them per map: it copies the descriptors, lets   *)
(* the lock go, and then polls the copy and writes the results back.       *)
(*                                                                         *)
(* A key of a map is a SOCKET number; numbers are used again after a       *)
(* socket is closed.  An entry that operator[] makes is all zero: its fd   *)
(* is Zero, no socket, and it asks for no events.  An entry that           *)
(* add_socket makes has an uninitialized revents.                          *)
(***************************************************************************)
EXTENDS Naturals, Functions

CONSTANTS
  Sockets,    (* SOCKET numbers of clients                                 *)
  Listener,   (* the SOCKET number of the listening socket                 *)
  Zero,       (* fd of an entry that is all zero                           *)
  Poller,     (* the thread of networking_storage                          *)
  MaxOpens,   (* bound on the connections that get one number              *)
  MaxUnread   (* bound on what waits in a socket                           *)

AllSockets == Sockets \cup {Listener}
Threads == AllSockets \cup {Poller}
Keys == AllSockets \cup {Zero}

ASSUME StorageConstants ==
  /\ Listener \notin Sockets
  /\ Zero \notin AllSockets
  /\ Poller \notin AllSockets
  /\ MaxOpens \in Nat \ {0}
  /\ MaxUnread \in Nat \ {0}

VARIABLES
  opens,     (* socket -> how many connections have had the number         *)
  open,      (* the sockets in use                                         *)
  unread,    (* socket -> messages or connections waiting in it            *)
  outgoing,  (* clients with a message in messages_to_send                 *)
  ended,     (* sockets whose peer has closed in good order                *)
  deaf,      (* sockets whose peer has stopped reading; buffers are full   *)
  asked,     (* clients from which something was received                  *)
  descs,     (* map "read" or "write" -> key -> poll descriptor            *)
  pc,        (* socket -> where the loop of its worker is                  *)
  upd,       (* thread -> where it is in update                            *)
  copied     (* thread -> the fds in transformed_descs                     *)

peers == <<unread, ended, deaf>>
sockets == <<opens, open, peers, outgoing, asked>>
threads == <<pc, upd, copied>>
vars == <<sockets, descs, threads>>

Maps == {"read", "write"}
Desc == [fd : Keys, revents : BOOLEAN]
Loop == {"off", "canRead", "recv", "recvMore", "canWrite", "send"}
Update == {"none", "copyRead", "backRead", "copyWrite", "backWrite"}

(* Values of the state; fds under the key of their socket or all zero. *)
TypeOK ==
  /\ opens \in [AllSockets -> 0..MaxOpens]
  /\ open \subseteq AllSockets
  /\ unread \in [AllSockets -> 0..MaxUnread]
  /\ ended \subseteq Sockets
  /\ deaf \subseteq Sockets
  /\ outgoing \subseteq Sockets
  /\ asked \subseteq Sockets
  /\ DOMAIN descs = Maps
  /\ \A m \in Maps :
       /\ DOMAIN descs[m] \subseteq Keys
       /\ \A k \in DOMAIN descs[m] : descs[m][k] \in [fd : {k, Zero}, revents : BOOLEAN]
  /\ pc \in [AllSockets -> Loop]
  /\ upd \in [Threads -> Update]
  /\ copied \in [Threads -> SUBSET Keys]

-----------------------------------------------------------------------------
(* The operations of networking_storage on one map.                        *)

ZeroDesc == [fd |-> Zero, revents |-> FALSE]

(* insert leaves the entry alone that the key already has; garbage is what *)
(* the stack holds.                                                        *)
Inserted(map, s, garbage) ==
  [k \in DOMAIN map \cup {s} |->
     IF k \in DOMAIN map THEN map[k] ELSE [fd |-> s, revents |-> garbage]]

(* Mutant of Erased: the entry stays. *)
NotErased(map, s) == map

Erased(map, s) == Restrict(map, DOMAIN map \ {s})

(* operator[] *)
At(map, k) == IF k \in DOMAIN map THEN map[k] ELSE ZeroDesc

CanDo(m, s) == At(descs[m], s).revents

(* The flag is taken: a second look says no until the next poll. *)
Taken(map, s) ==
  [k \in DOMAIN map \cup {s} |->
     IF k = s THEN [At(map, s) EXCEPT !.revents = FALSE] ELSE map[k]]

(* What WSAPoll says of an fd: the flags of can_read and can_write.  The   *)
(* end of a stream is POLLHUP, which is neither.                           *)
Ready(m, fd) ==
  /\ fd \in open
  /\ m = "read" => unread[fd] > 0
  /\ m = "write" => fd \notin deaf

(* Mutant of WrittenBack: the map becomes the copy. *)
ReplacedByCopy(map, m, fds) ==
  [k \in fds |-> [At(map, k) EXCEPT !.revents = Ready(m, k)]]

WrittenBack(map, m, fds) ==
  [k \in DOMAIN map \cup fds |->
     IF k \in fds THEN [At(map, k) EXCEPT !.revents = Ready(m, k)] ELSE map[k]]

-----------------------------------------------------------------------------
Init ==
  /\ opens = [s \in AllSockets |-> IF s = Listener THEN 1 ELSE 0]
  /\ open = {Listener}
  /\ unread = [s \in AllSockets |-> 0]
  /\ ended = {}
  /\ deaf = {}
  /\ outgoing = {}
  /\ asked = {}
  /\ \E garbage \in [Maps -> BOOLEAN] :
       descs = [m \in Maps |->
                  [k \in {Listener} |-> [fd |-> Listener, revents |-> garbage[m]]]]
  /\ pc = [s \in AllSockets |-> IF s = Listener THEN "canRead" ELSE "off"]
  /\ upd = [t \in Threads |-> IF t = Poller THEN "copyRead" ELSE "none"]
  /\ copied = [t \in Threads |-> {}]

(* Something arrives; on the listening socket, a connection. *)
Arrive(s) ==
  /\ s \in open \ ended
  /\ unread[s] < MaxUnread
  /\ unread' = [unread EXCEPT ![s] = @ + 1]
  /\ UNCHANGED <<opens, open, ended, deaf, outgoing, asked, descs, threads>>

(* The peer shuts its side down, stops reading, reads again. *)
EndStream(s) ==
  /\ s \in open \ ended
  /\ ended' = ended \cup {s}
  /\ UNCHANGED <<opens, open, unread, deaf, outgoing, asked, descs, threads>>

StopReading(s) ==
  /\ s \in open
  /\ deaf' = deaf \cup {s}
  /\ UNCHANGED <<opens, open, unread, ended, outgoing, asked, descs, threads>>

ReadAgain(s) ==
  /\ deaf' = deaf \ {s}
  /\ UNCHANGED <<opens, open, unread, ended, outgoing, asked, descs, threads>>

(* push_message of the handler thread: the answer to what the client, or   *)
(* an earlier one with the same number, has sent.                          *)
Push(s) ==
  /\ s \in open \ {Listener}
  /\ s \in asked \/ opens[s] > 1
  /\ outgoing' = outgoing \cup {s}
  /\ UNCHANGED <<opens, open, peers, asked, descs, threads>>

(* The constructor and run of a client_networking_proxy: the acceptor has  *)
(* got the number s from accept, add_socket, then a worker.                *)
Accept(s) ==
  /\ pc[Listener] = "recv"
  /\ unread[Listener] > 0
  /\ s \in Sockets \ open
  /\ opens[s] < MaxOpens
  /\ open' = open \cup {s}
  /\ opens' = [opens EXCEPT ![s] = @ + 1]
  /\ unread' = [unread EXCEPT ![Listener] = @ - 1, ![s] = 0]
  /\ \E garbage \in [Maps -> BOOLEAN] :
       descs' = [m \in Maps |-> Inserted(descs[m], s, garbage[m])]
  /\ pc' = [pc EXCEPT ![Listener] = "canRead", ![s] = "canRead"]
  /\ UNCHANGED <<ended, deaf, outgoing, asked, upd, copied>>

(* The connection was accepted and lost at once, or accept failed. *)
AcceptNothing ==
  /\ pc[Listener] = "recv"
  /\ unread[Listener] > 0
  /\ unread' = [unread EXCEPT ![Listener] = @ - 1]
  /\ pc' = [pc EXCEPT ![Listener] = "canRead"]
  /\ UNCHANGED <<opens, open, ended, deaf, outgoing, asked, descs, upd, copied>>

(* The worker has ended and is joined; the destructor removes the socket   *)
(* from both maps and closes it.                                           *)
Close(s) ==
  /\ s \in open \ {Listener}
  /\ upd[s] = "none"
  /\ open' = open \ {s}
  /\ ended' = ended \ {s}
  /\ deaf' = deaf \ {s}
  /\ outgoing' = outgoing \ {s}
  /\ asked' = asked \ {s}
  /\ unread' = [unread EXCEPT ![s] = 0]
  /\ descs' = [m \in Maps |-> Erased(descs[m], s)]
  /\ pc' = [pc EXCEPT ![s] = "off"]
  /\ UNCHANGED <<opens, upd, copied>>

-----------------------------------------------------------------------------
(* The worker of a socket between two calls of update.                     *)

Works(s, at) == pc[s] = at /\ upd[s] = "none"

Goto(s, at) == pc' = [pc EXCEPT ![s] = at]

CanRead(s) ==
  /\ Works(s, "canRead")
  /\ descs' = [descs EXCEPT !["read"] = Taken(@, s)]
  /\ Goto(s, IF CanDo("read", s) THEN "recv"
             ELSE IF s = Listener THEN "canRead" ELSE "canWrite")
  /\ UNCHANGED <<sockets, upd, copied>>

(* Mutant of AfterTransfer: nobody polls again. *)
NoUpdate == "none"

AfterTransfer == "copyRead"

(* receive_message has returned. *)
Received(s) ==
  /\ asked' = asked \cup {s}
  /\ Goto(s, "canWrite")
  /\ upd' = [upd EXCEPT ![s] = AfterTransfer]

(* recv takes what has come.  If it filled the buffer to the last byte,    *)
(* receive_message calls it again, and there recv waits for more.          *)
Receive(s) ==
  /\ Works(s, "recv") \/ Works(s, "recvMore")
  /\ unread[s] > 0
  /\ unread' = [unread EXCEPT ![s] = 0]
  /\ \/ Received(s)
     \/ Goto(s, "recvMore") /\ UNCHANGED <<asked, upd>>
  /\ UNCHANGED <<opens, open, ended, deaf, outgoing, descs, copied>>

(* recv returns 0: the stream has ended. *)
ReceiveEnd(s) ==
  /\ Works(s, "recv") \/ Works(s, "recvMore")
  /\ unread[s] = 0
  /\ s \in ended
  /\ Received(s)
  /\ UNCHANGED <<opens, open, peers, outgoing, descs, copied>>

CanWrite(s) ==
  /\ Works(s, "canWrite")
  /\ descs' = [descs EXCEPT !["write"] = Taken(@, s)]
  /\ Goto(s, IF CanDo("write", s) /\ s \in outgoing THEN "send" ELSE "canRead")
  /\ UNCHANGED <<sockets, upd, copied>>

(* send waits while the peer does not read. *)
Send(s) ==
  /\ Works(s, "send")
  /\ s \notin deaf
  /\ outgoing' = outgoing \ {s}
  /\ Goto(s, "canRead")
  /\ upd' = [upd EXCEPT ![s] = AfterTransfer]
  /\ UNCHANGED <<opens, open, peers, asked, descs, copied>>

-----------------------------------------------------------------------------
(* update: update_descs of one map, then of the other.                     *)

Copy(t, m, at, next) ==
  /\ upd[t] = at
  /\ copied' = [copied EXCEPT ![t] = {descs[m][k].fd : k \in DOMAIN descs[m]}]
  /\ upd' = [upd EXCEPT ![t] = next]
  /\ UNCHANGED <<sockets, descs, pc>>

PollAndWriteBack(t, m, at, next) ==
  /\ upd[t] = at
  /\ descs' = [descs EXCEPT ![m] = WrittenBack(@, m, copied[t])]
  /\ copied' = [copied EXCEPT ![t] = {}]
  /\ upd' = [upd EXCEPT ![t] = next]
  /\ UNCHANGED <<sockets, pc>>

AfterUpdate(t) == IF t = Poller THEN "copyRead" ELSE "none"

UpdateStep(t) ==
  \/ Copy(t, "read", "copyRead", "backRead")
  \/ PollAndWriteBack(t, "read", "backRead", "copyWrite")
  \/ Copy(t, "write", "copyWrite", "backWrite")
  \/ PollAndWriteBack(t, "write", "backWrite", AfterUpdate(t))

WorkerStep(s) ==
  \/ CanRead(s) \/ Receive(s) \/ ReceiveEnd(s)
  \/ CanWrite(s) \/ Send(s)
  \/ UpdateStep(s)

PeerStep(s) == EndStream(s) \/ StopReading(s) \/ ReadAgain(s)

AcceptorStep ==
  \/ CanRead(Listener)
  \/ \E s \in Sockets : Accept(s)
  \/ AcceptNothing

PollerStep == UpdateStep(Poller)

Next ==
  \/ \E s \in AllSockets : Arrive(s)
  \/ \E s \in Sockets : PeerStep(s) \/ Push(s) \/ Close(s) \/ WorkerStep(s)
  \/ AcceptorStep
  \/ PollerStep

(* All three kinds of thread are loops that wake up every millisecond.  A  *)
(* worker that waits in recv or send has no step; peers owe nothing.       *)
Fairness ==
  /\ WF_vars(PollerStep)
  /\ WF_vars(AcceptorStep)
  /\ \A s \in Sockets : WF_vars(WorkerStep(s))

Spec == Init /\ [][Next]_vars /\ Fairness

-----------------------------------------------------------------------------
(* Properties.                                                             *)

IsPolled(s) == \A m \in Maps : s \in DOMAIN descs[m] /\ descs[m][s].fd = s

FirstOfItsNumber(s) == s \in open /\ opens[s] = 1

(* add_socket, update_descs: a socket is polled in both maps as long as it *)
(* lives, whoever writes old copies back.  A socket with the number of an  *)
(* earlier one may find an entry that was written back after that one was  *)
(* removed, and is then never polled.                                      *)
OpenSocketsArePolled == \A s \in AllSockets : FirstOfItsNumber(s) => IsPolled(s)

(* remove_socket: what a late write-back makes of a removed socket is an   *)
(* entry that asks for nothing.                                            *)
ClosedSocketsAreNotPolled ==
  \A m \in Maps : \A k \in DOMAIN descs[m] : descs[m][k].fd = k => k \in open \cup {Zero}

(* client_networking_base: a worker that was told to read finds something  *)
(* to read, since no result of an earlier poll survives its own update();  *)
(* recv would wait, and the worker would send nothing meanwhile.  Two      *)
(* calls may wait: the first recv of a client, before the client is owed   *)
(* anything, since its flag may be the uninitialized one; and the one that *)
(* receive_message makes after a full buffer, without a look at the flag   *)
(* (networking.cpp:68).                                                    *)
RecvDoesNotBlock ==
  \A s \in Sockets :
    Works(s, "recv") /\ FirstOfItsNumber(s) /\ s \in asked => unread[s] > 0

(* Whatever arrives on a socket that is polled is read, unless the worker  *)
(* waits in send for a peer that does not read.                            *)
ArrivalsAreRead ==
  \A s \in AllSockets :
    (FirstOfItsNumber(s) /\ unread[s] > 0) ~>
      \/ ~FirstOfItsNumber(s) \/ unread[s] = 0
      \/ pc[s] = "send" /\ s \in deaf

(* recv would wait. *)
NothingComes(s) == unread[s] = 0 /\ s \notin ended

(* Whatever is pushed to a client that is polled is sent, unless the       *)
(* client does not read or has the worker wait after a full buffer.        *)
AnswersAreSent ==
  \A s \in Sockets :
    (FirstOfItsNumber(s) /\ s \in outgoing) ~>
      \/ ~FirstOfItsNumber(s) \/ s \notin outgoing
      \/ s \in deaf
      \/ pc[s] = "recvMore" /\ NothingComes(s)

(* Both: the poll results reach the worker that needs them.                *)
TransfersHappen == ArrivalsAreRead /\ AnswersAreSent
=============================================================================
