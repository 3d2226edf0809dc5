--------------------------- MODULE PipelineProofs ---------------------------
(***************************************************************************)
(* Proofs about ServerPipeline, for every value of its constants.          *)
(***************************************************************************)
EXTENDS ServerPipeline, SequenceTheorems, WellFoundedInduction, TLAPS

(* A SOCKET number belongs to one connection at a time. *)
SocketsAreOwned ==
  /\ \A p \in Peers : stage[p] \in WithSocket <=> sock[p] # NoSocket
  /\ \A p, q \in Peers : p # q /\ sock[p] # NoSocket => sock[p] # sock[q]

(* Only a connection that was reset is taken down. *)
LossesAreReal ==
  \A p \in Peers :
    /\ link[p] = "none" => stage[p] = "none"
    /\ stage[p] \in {"failing", "erased"} => link[p] = "reset"

Served == WithProxy \cup {"erased"}

Over == {"closed", "reset"}

(* The SOCKET in a command is that of its sender, unless the sender left;  *)
(* a command without a message is what a closed connection leaves behind.  *)
KnowsSender(c) ==
  /\ stage[c.from] \in Served
  /\ stage[c.from] \in WithProxy => sock[c.from] = c.sock
  /\ c.upto = 0 => link[c.from] \in Over

QueueKnowsSenders == \A i \in DOMAIN commands : KnowsSender(commands[i])

HandlerKnowsSender == ~Idle => KnowsSender(handling)

TargetIsRight ==
  target # NoPeer =>
    /\ ~Idle
    /\ stage[target] \in Served
    /\ target = handling.from \/ stage[handling.from] = "erased"

IsHome(p, a) == a.from = p \/ stage[a.from] = "erased"

AnswersAreHome ==
  \A p \in Peers :
    /\ \A i \in DOMAIN outbox[p] : IsHome(p, outbox[p][i])
    /\ \A i \in DOMAIN got[p] : IsHome(p, got[p][i])

DeathIsExplained ==
  server = "dead" =>
    \/ handling.kind \in {"blank", "void"}
    \/ \E p \in Peers : stage[p] = "registering" \/ link[p] = "reset"

StoppedIsIdle == server = "stopped" => Idle

(* The inductive invariant: an answer finds its way because the map, the   *)
(* SOCKET numbers and the queued commands agree on who has which number.   *)
IInv ==
  /\ TypeOK
  /\ ClientsAreTheProxies
  /\ SocketsAreOwned
  /\ LossesAreReal
  /\ QueueKnowsSenders
  /\ HandlerKnowsSender
  /\ TargetIsRight
  /\ AnswersAreHome
  /\ DeathIsExplained
  /\ StoppedIsIdle

-----------------------------------------------------------------------------
(* The invariant holds at the start. *)
LEMMA InitInv == Init => IInv
<1> SUFFICES ASSUME Init PROVE IInv
  OBVIOUS
<1>1. TypeOK
  <2>1. EmptyPiece \in Piece /\ sent \in [Peers -> 0..MaxCommands]
    BY PipelineConstants DEF Init, EmptyPiece, Piece, Kinds
  <2>2. DOMAIN clients \subseteq Sockets /\ clients \in [DOMAIN clients -> Peers]
    BY DEF Init
  <2>3. /\ toServer \in [Peers -> Seq(Message)] /\ got \in [Peers -> Seq(Reply)]
        /\ outbox \in [Peers -> Seq(Reply)] /\ commands \in Seq(Command)
    BY EmptySeq DEF Init
  <2> QED
    BY <2>1, <2>2, <2>3 DEF Init, TypeOK, ServerState, LinkState, Stages, Calls
<1>2. DOMAIN clients = {} /\ DOMAIN commands = {} /\ Idle
  BY DEF Init, Idle
<1>3. ClientsAreTheProxies /\ SocketsAreOwned /\ LossesAreReal
  BY <1>2 DEF Init, ClientsAreTheProxies, SocketsAreOwned, LossesAreReal, WithProxy, WithSocket
<1>4. QueueKnowsSenders /\ HandlerKnowsSender /\ TargetIsRight /\ AnswersAreHome
  BY <1>2 DEF Init, QueueKnowsSenders, HandlerKnowsSender, TargetIsRight, AnswersAreHome
<1> QED
  BY <1>1, <1>2, <1>3, <1>4 DEF Init, IInv, DeathIsExplained, StoppedIsIdle

-----------------------------------------------------------------------------
(* What every step does to the stages: a served connection stays one, and  *)
(* it keeps its SOCKET until it is erased for good; what is over stays so. *)
StagesAdvance ==
  \A q \in Peers :
    /\ stage[q] \in Served =>
         /\ stage'[q] \in Served
         /\ stage'[q] \in WithProxy => stage[q] \in WithProxy /\ sock'[q] = sock[q]
    /\ link[q] \in Over => link'[q] \in Over

(* What is in the queues has the type of its queue. *)
LEMMA Elements ==
  ASSUME TypeOK
  PROVE  /\ \A i \in DOMAIN commands : commands[i] \in Command
         /\ ~Idle => handling \in Command
         /\ \A p \in Peers :
              /\ \A i \in DOMAIN outbox[p] : outbox[p][i] \in Reply
              /\ \A i \in DOMAIN got[p] : got[p][i] \in Reply
<1>1. \A i \in DOMAIN commands : commands[i] \in Command
  BY ElementOfSeq, LenProperties DEF TypeOK
<1>2. ASSUME NEW p \in Peers
      PROVE  /\ \A i \in DOMAIN outbox[p] : outbox[p][i] \in Reply
             /\ \A i \in DOMAIN got[p] : got[p][i] \in Reply
  <2>1. outbox[p] \in Seq(Reply) /\ got[p] \in Seq(Reply)
    BY DEF TypeOK
  <2> QED
    BY <2>1, ElementOfSeq, LenProperties
<1> QED
  BY <1>1, <1>2 DEF TypeOK, Idle

(* A known sender stays known while stages only advance. *)
LEMMA SenderStaysKnown ==
  ASSUME StagesAdvance, NEW c \in Command, KnowsSender(c)
  PROVE  KnowsSender(c)'
  BY DEF StagesAdvance, KnowsSender, Command

(* So does an answer that is at home. *)
LEMMA HomeStaysHome ==
  ASSUME StagesAdvance, NEW a \in Reply, NEW p \in Peers, IsHome(p, a)
  PROVE  IsHome(p, a)'
  BY DEF StagesAdvance, IsHome, Reply, Served, WithProxy

(* A step that only advances stages keeps what is said of the queue. *)
LEMMA QueueFrame ==
  ASSUME IInv, StagesAdvance, UNCHANGED commands
  PROVE  QueueKnowsSenders'
<1> SUFFICES ASSUME NEW i \in DOMAIN commands
             PROVE  KnowsSender(commands[i])'
  BY DEF QueueKnowsSenders
<1>1. commands[i] \in Command /\ KnowsSender(commands[i])
  BY Elements DEF IInv, QueueKnowsSenders
<1> QED
  BY <1>1, SenderStaysKnown DEF KnowsSender

(* The same for the command in hand. *)
LEMMA HandlerFrame ==
  ASSUME IInv, StagesAdvance, UNCHANGED <<handling, target>>
  PROVE  HandlerKnowsSender' /\ TargetIsRight'
<1>1. HandlerKnowsSender'
  BY Elements, SenderStaysKnown DEF IInv, HandlerKnowsSender, Idle, KnowsSender
<1>2. ASSUME target # NoPeer
      PROVE  /\ stage'[target] \in Served
             /\ target = handling.from \/ stage'[handling.from] = "erased"
  <2>1. target \in Peers /\ handling \in Command /\ handling.from \in Peers
    BY <1>2, Elements DEF IInv, TargetIsRight, TypeOK, Command
  <2> QED
    BY <1>2, <2>1 DEF IInv, TargetIsRight, StagesAdvance, Served, WithProxy
<1> QED
  BY <1>1, <1>2 DEF IInv, TargetIsRight, Idle

(* The same for one sequence of answers. *)
LEMMA HomeFrame ==
  ASSUME IInv, StagesAdvance,
         NEW p \in Peers, NEW s \in Seq(Reply),
         \A i \in DOMAIN s : IsHome(p, s[i])
  PROVE  \A i \in DOMAIN s : s[i].from = p \/ stage'[s[i].from] = "erased"
<1> SUFFICES ASSUME NEW i \in DOMAIN s
             PROVE  s[i].from = p \/ stage'[s[i].from] = "erased"
  OBVIOUS
<1>1. s[i] \in Reply
  BY ElementOfSeq, LenProperties
<1> QED
  BY <1>1, HomeStaysHome DEF IsHome

(* The same for all answers. *)
LEMMA AnswersFrame ==
  ASSUME IInv, StagesAdvance, UNCHANGED <<outbox, got>>
  PROVE  AnswersAreHome'
<1> SUFFICES ASSUME NEW p \in Peers
             PROVE  /\ \A i \in DOMAIN outbox[p] :
                         outbox[p][i].from = p \/ stage'[outbox[p][i].from] = "erased"
                    /\ \A i \in DOMAIN got[p] :
                         got[p][i].from = p \/ stage'[got[p][i].from] = "erased"
  BY DEF AnswersAreHome, IsHome
<1>1. outbox[p] \in Seq(Reply) /\ got[p] \in Seq(Reply)
  BY DEF IInv, TypeOK
<1>2. /\ \A i \in DOMAIN outbox[p] : IsHome(p, outbox[p][i])
      /\ \A i \in DOMAIN got[p] : IsHome(p, got[p][i])
  BY DEF IInv, AnswersAreHome
<1> QED
  BY <1>1, <1>2, HomeFrame

(* Steps that touch neither the stages nor what is queued. *)
LEMMA QuieterInv ==
  ASSUME IInv, TypeOK',
         UNCHANGED <<server, stage, sock, clients, outbox, commands, handling, target, got>>,
         \A p \in Peers : /\ link'[p] = "none" => link[p] = "none"
                          /\ link[p] = "reset" => link'[p] = "reset"
                          /\ link[p] \in Over => link'[p] \in Over
  PROVE  IInv'
<1>1. StagesAdvance
  BY DEF StagesAdvance
<1>2. ClientsAreTheProxies' /\ SocketsAreOwned' /\ LossesAreReal'
  BY DEF IInv, ClientsAreTheProxies, SocketsAreOwned, LossesAreReal
<1>3. QueueKnowsSenders' /\ HandlerKnowsSender' /\ TargetIsRight' /\ AnswersAreHome'
  BY <1>1, QueueFrame, HandlerFrame, AnswersFrame
<1>4. DeathIsExplained' /\ StoppedIsIdle'
  BY DEF IInv, DeathIsExplained, StoppedIsIdle, Idle
<1> QED
  BY <1>2, <1>3, <1>4 DEF IInv

(* Steps of the peers among them. *)
LEMMA QuietInv ==
  ASSUME IInv, TypeOK', UNCHANGED <<server, proxies, handler, got>>,
         \A p \in Peers : /\ link'[p] = "none" => link[p] = "none"
                          /\ link[p] = "reset" => link'[p] = "reset"
                          /\ link[p] \in Over => link'[p] \in Over
  PROVE  IInv'
  BY QuieterInv DEF proxies, handler

-----------------------------------------------------------------------------
(* Steps of peers: the server notices nothing yet.                         *)

(* A new connection has no SOCKET yet. *)
LEMMA ConnectInv == ASSUME IInv, NEW p \in Peers, Connect(p) PROVE IInv'
<1>1. stage[p] = "none" /\ sock[p] = NoSocket
  BY DEF IInv, Connect, LossesAreReal, SocketsAreOwned, WithSocket, TypeOK
<1>2. TypeOK'
  BY DEF IInv, Connect, workers, handler, TypeOK, LinkState, Stages
<1>3. StagesAdvance
  BY <1>1 DEF IInv, Connect, TypeOK, StagesAdvance, Served, WithProxy, Over
<1>4. ClientsAreTheProxies' /\ SocketsAreOwned' /\ LossesAreReal'
  BY <1>1 DEF IInv, Connect, TypeOK, ClientsAreTheProxies, SocketsAreOwned, LossesAreReal,
     WithProxy, WithSocket
<1>5. QueueKnowsSenders' /\ HandlerKnowsSender' /\ TargetIsRight' /\ AnswersAreHome'
  BY <1>3, QueueFrame, HandlerFrame, AnswersFrame DEF Connect, handler
<1>6. DeathIsExplained' /\ StoppedIsIdle'
  BY DEF IInv, Connect, DeathIsExplained, StoppedIsIdle
<1> QED
  BY <1>2, <1>4, <1>5, <1>6 DEF IInv

(* Bytes on the way are in none of the parts. *)
LEMMA SendCommandInv ==
  ASSUME IInv, NEW p \in Peers, NEW kind \in Kinds, SendCommand(p, kind)
  PROVE  IInv'
<1>1. sent[p] + 1 \in 1..MaxCommands
  BY PipelineConstants DEF IInv, TypeOK, SendCommand
<1>2. [n |-> sent[p] + 1, kind |-> kind] \in Message
  BY <1>1 DEF Message
<1>3. Append(toServer[p], [n |-> sent[p] + 1, kind |-> kind]) \in Seq(Message)
  BY <1>2, AppendProperties DEF IInv, TypeOK
<1>4. TypeOK'
  <2>1. toServer' \in [Peers -> Seq(Message)]
    BY <1>3 DEF IInv, TypeOK, SendCommand
  <2>2. sent' \in [Peers -> 0..MaxCommands]
    BY <1>1, PipelineConstants DEF IInv, TypeOK, SendCommand
  <2> QED
    BY <2>1, <2>2 DEF IInv, TypeOK, SendCommand, proxies, workers, handler
<1> QED
  BY <1>4, QuietInv DEF SendCommand

(* Whether a peer reads is not seen until something is sent to it. *)
LEMMA ReadingInv ==
  ASSUME IInv, NEW p \in Peers, StopReading(p) \/ ReadAgain(p)
  PROVE  IInv'
<1>1. PICK l \in {"open", "full"} : link' = [link EXCEPT ![p] = l]
  BY DEF StopReading, ReadAgain
<1>2. link[p] \in {"open", "full"} /\ UNCHANGED <<server, toServer, sent, got, proxies, handler>>
  BY DEF StopReading, ReadAgain
<1>3. TypeOK'
  BY <1>1, <1>2 DEF IInv, TypeOK, proxies, workers, handler, LinkState
<1> QED
  BY <1>1, <1>2, <1>3, QuietInv DEF IInv, TypeOK, Over

(* A close in good order tells the server nothing. *)
LEMMA CloseInv == ASSUME IInv, NEW p \in Peers, Close(p) PROVE IInv'
<1>1. TypeOK'
  BY DEF IInv, TypeOK, Close, proxies, workers, handler, LinkState
<1> QED
  BY <1>1, QuietInv DEF IInv, TypeOK, Close, Connected, Over

(* A reset loses bytes only. *)
LEMMA ResetInv == ASSUME IInv, NEW p \in Peers, Reset(p) PROVE IInv'
<1>1. TypeOK'
  BY EmptySeq DEF IInv, TypeOK, Reset, proxies, workers, handler, LinkState
<1> QED
  BY <1>1, QuietInv DEF IInv, TypeOK, Reset, Over

-----------------------------------------------------------------------------
(* Steps of a connection.                                                  *)

(* The operating system hands out a number that nobody has. *)
LEMMA AcceptInv == ASSUME IInv, NEW p \in Peers, Accept(p) PROVE IInv'
<1>1. PICK s \in FreeSockets : sock' = [sock EXCEPT ![p] = s]
  BY DEF Accept
<1>2. s \in Sockets /\ s # NoSocket /\ \A q \in Peers : sock[q] # s
  BY <1>1, PipelineConstants DEF FreeSockets
<1>3. TypeOK'
  BY <1>1, <1>2 DEF IInv, TypeOK, Accept, network, workers, handler, Stages
<1>4. StagesAdvance
  BY <1>1 DEF IInv, Accept, TypeOK, StagesAdvance, Served, WithProxy, network
<1>5. SocketsAreOwned'
  BY <1>1, <1>2 DEF IInv, Accept, TypeOK, SocketsAreOwned, WithSocket
<1>6. ClientsAreTheProxies'
  BY <1>1 DEF IInv, Accept, TypeOK, ClientsAreTheProxies, WithProxy
<1>7. LossesAreReal'
  BY DEF IInv, Accept, TypeOK, LossesAreReal, network
<1>8. QueueKnowsSenders' /\ HandlerKnowsSender' /\ TargetIsRight' /\ AnswersAreHome'
  BY <1>4, QueueFrame, HandlerFrame, AnswersFrame DEF Accept, handler, network
<1>9. DeathIsExplained' /\ StoppedIsIdle'
  BY DEF IInv, Accept, DeathIsExplained, StoppedIsIdle
<1> QED
  BY <1>3, <1>5, <1>6, <1>7, <1>8, <1>9 DEF IInv

(* The number is not in the map, so insert puts the new proxy there. *)
LEMMA OnConnectionIncomingInv ==
  ASSUME IInv, NEW p \in Peers, OnConnectionIncoming(p)
  PROVE  IInv'
<1>1. sock[p] \in Sockets /\ sock[p] \notin DOMAIN clients
  <2>1. stage[p] = "registering"
    BY DEF OnConnectionIncoming
  <2>2. sock[p] \in Sockets \cup {NoSocket} /\ sock[p] # NoSocket
    BY <2>1 DEF IInv, TypeOK, SocketsAreOwned, WithSocket
  <2>3. ASSUME sock[p] \in DOMAIN clients PROVE FALSE
    <3>1. PICK q \in Peers : q = clients[sock[p]]
      BY <2>3 DEF IInv, TypeOK
    <3>2. stage[q] \in WithProxy /\ sock[q] = sock[p]
      BY <2>3, <3>1 DEF IInv, ClientsAreTheProxies
    <3>3. q # p
      BY <2>1, <3>2 DEF WithProxy
    <3> QED
      BY <2>2, <3>2, <3>3 DEF IInv, SocketsAreOwned
  <2> QED
    BY <2>2, <2>3
<1>2. /\ DOMAIN clients' = DOMAIN clients \cup {sock[p]}
      /\ clients'[sock[p]] = p
      /\ \A s \in DOMAIN clients : clients'[s] = clients[s]
  BY <1>1 DEF OnConnectionIncoming, Registered
<1>3. clients' \in [DOMAIN clients' -> Peers]
  <2>1. clients' \in [DOMAIN clients \cup {sock[p]} -> Peers]
    BY DEF IInv, TypeOK, OnConnectionIncoming, Registered
  <2> QED
    BY <2>1, <1>2
<1>4. TypeOK'
  <2>1. blind' \in [Peers -> SUBSET {"read", "write"}] /\ call' \in [Peers -> Calls]
    BY DEF IInv, TypeOK, OnConnectionIncoming, Calls
  <2> QED
    BY <1>1, <1>2, <1>3, <2>1 DEF IInv, TypeOK, OnConnectionIncoming, network, handler, Stages
<1>5. StagesAdvance
  BY DEF IInv, OnConnectionIncoming, TypeOK, StagesAdvance, Served, WithProxy, network
<1>6. SocketsAreOwned' /\ LossesAreReal'
  BY DEF IInv, OnConnectionIncoming, TypeOK, SocketsAreOwned, LossesAreReal, WithSocket, network
<1>7. ClientsAreTheProxies'
  <2>1. /\ stage \in [Peers -> Stages] /\ stage[p] = "registering"
        /\ stage' = [stage EXCEPT ![p] = "serving"] /\ sock' = sock
    BY DEF IInv, TypeOK, OnConnectionIncoming
  <2>2. ASSUME NEW s \in DOMAIN clients'
        PROVE  stage'[clients'[s]] \in WithProxy /\ sock'[clients'[s]] = s
    <3>1. CASE s = sock[p]
      BY <1>2, <2>1, <3>1 DEF WithProxy
    <3>2. CASE s # sock[p]
      <4>1. /\ s \in DOMAIN clients /\ clients'[s] = clients[s] /\ clients[s] \in Peers
            /\ stage[clients[s]] \in WithProxy /\ sock[clients[s]] = s
        BY <1>2, <3>2 DEF IInv, TypeOK, ClientsAreTheProxies
      <4>2. clients[s] # p
        BY <3>2, <4>1
      <4> QED
        BY <2>1, <4>1, <4>2
    <3> QED
      BY <3>1, <3>2
  <2>3. ASSUME NEW q \in Peers, stage'[q] \in WithProxy PROVE sock'[q] \in DOMAIN clients'
    BY <1>2, <2>1, <2>3 DEF IInv, ClientsAreTheProxies
  <2> QED
    BY <2>2, <2>3 DEF ClientsAreTheProxies
<1>8. QueueKnowsSenders' /\ HandlerKnowsSender' /\ TargetIsRight' /\ AnswersAreHome'
  BY <1>5, QueueFrame, HandlerFrame, AnswersFrame DEF OnConnectionIncoming, handler, network
<1>9. DeathIsExplained' /\ StoppedIsIdle'
  BY DEF IInv, OnConnectionIncoming, DeathIsExplained, StoppedIsIdle, Alive, handler, Idle
<1> QED
  BY <1>4, <1>6, <1>7, <1>8, <1>9 DEF IInv

(* What a worker hands over is a command of its client. *)
LEMMA ReceivedCommand ==
  ASSUME IInv, NEW p \in Peers, Serves(p), NEW x \in Piece
  PROVE  /\ Received(p, x) \in Command
         /\ Received(p, x).from = p /\ Received(p, x).upto = x.upto
         /\ x.upto = 0 => Received(p, x).upto = 0
         /\ (x.upto = 0 => link[p] \in Over) => KnowsSender(Received(p, x))
<1>1. stage[p] = "serving" /\ sock[p] \in Sockets
  BY DEF IInv, TypeOK, Serves, SocketsAreOwned, WithSocket
<1> QED
  BY <1>1 DEF Received, Command, Piece, KnowsSender, Served, WithProxy

(* What recv has read makes the piece a longer one. *)
LEMMA ExtendedPiece ==
  ASSUME IInv, NEW p \in Peers, NEW k \in DOMAIN toServer[p]
  PROVE  /\ Extended(p, k) \in Piece
         /\ Extended(p, k).upto = toServer[p][k].n /\ Extended(p, k).upto # 0
         /\ SubSeq(toServer[p], k + 1, Len(toServer[p])) \in Seq(Message)
<1>1. toServer[p] \in Seq(Message) /\ k \in 1..Len(toServer[p]) /\ 1 \in 1..Len(toServer[p])
  BY LenProperties DEF IInv, TypeOK
<1>2. toServer[p][k] \in Message /\ toServer[p][1] \in Message
  BY <1>1, ElementOfSeq, LenProperties
<1>3. piece[p] \in Piece
  BY DEF IInv, TypeOK
<1>4. SubSeq(toServer[p], k + 1, Len(toServer[p])) \in Seq(Message)
  BY <1>1, LenProperties, SubSeqProperties
<1> QED
  BY <1>2, <1>3, <1>4, PipelineConstants DEF Extended, Piece, Message

(* A worker queues commands under its own number. *)
LEMMA HandOverInv ==
  ASSUME IInv, NEW p \in Peers, Serves(p), NEW x \in Piece, HandOver(p, x),
         x.upto = 0 => link[p] \in Over,
         toServer' \in [Peers -> Seq(Message)],
         UNCHANGED <<server, link, sent, got, stage, sock, clients, used, outbox, blind,
                     handling, target, hung>>
  PROVE  IInv'
<1> DEFINE c == Received(p, x)
<1>1. c \in Command /\ KnowsSender(c)
  BY ReceivedCommand
<1>2. commands' = Append(commands, c)
  BY DEF HandOver, Enqueue
<1> HIDE DEF c
<1>3. commands' \in Seq(Command)
  BY <1>1, <1>2, AppendProperties DEF IInv, TypeOK
<1>4. EmptyPiece \in Piece
  BY PipelineConstants DEF EmptyPiece, Piece, Kinds
<1>5. TypeOK'
  BY <1>3, <1>4 DEF IInv, TypeOK, HandOver, Calls
<1>6. StagesAdvance
  BY DEF StagesAdvance
<1>7. ClientsAreTheProxies' /\ SocketsAreOwned' /\ LossesAreReal'
  BY DEF IInv, ClientsAreTheProxies, SocketsAreOwned, LossesAreReal
<1>8. QueueKnowsSenders'
  <2> SUFFICES ASSUME NEW i \in DOMAIN commands'
               PROVE  KnowsSender(commands'[i])
    BY DEF QueueKnowsSenders, KnowsSender
  <2>1. commands \in Seq(Command)
    BY DEF IInv, TypeOK
  <2>2. (i \in DOMAIN commands /\ commands'[i] = commands[i]) \/ commands'[i] = c
    BY <1>1, <1>2, <2>1, AppendProperties, LenProperties
  <2> QED
    BY <1>1, <2>2 DEF IInv, QueueKnowsSenders
<1>9. HandlerKnowsSender' /\ TargetIsRight' /\ AnswersAreHome'
  BY <1>6, HandlerFrame, AnswersFrame
<1>10. DeathIsExplained' /\ StoppedIsIdle'
  BY DEF IInv, DeathIsExplained, StoppedIsIdle, Idle
<1> QED
  BY <1>5, <1>7, <1>8, <1>9, <1>10 DEF IInv

(* A worker reads on, or hands over what it has read. *)
LEMMA ReceiveInv == ASSUME IInv, NEW p \in Peers, Receive(p) PROVE IInv'
<1>1. PICK k \in DOMAIN toServer[p] :
        /\ HandOver(p, Extended(p, k)) \/ ReceiveMore(p, Extended(p, k))
        /\ toServer' = [toServer EXCEPT ![p] = SubSeq(@, k + 1, Len(@))]
  BY DEF Receive
<1> DEFINE x == Extended(p, k)
<1>2. x \in Piece /\ x.upto # 0 /\ toServer' \in [Peers -> Seq(Message)]
  BY <1>1, ExtendedPiece DEF IInv, TypeOK
<1>3. CASE HandOver(p, x)
  BY <1>2, <1>3, HandOverInv DEF Receive
<1>4. CASE ReceiveMore(p, x)
  <2> HIDE DEF x
  <2>1. TypeOK'
    BY <1>2, <1>4 DEF IInv, TypeOK, Receive, ReceiveMore, Calls
  <2> QED
    BY <1>4, <2>1, QuieterInv DEF Receive, ReceiveMore
<1> QED
  BY <1>1, <1>3, <1>4

(* The end of a connection hands over what was read before it. *)
LEMMA ReceiveEndInv == ASSUME IInv, NEW p \in Peers, ReceiveEnd(p) PROVE IInv'
<1>1. piece[p] \in Piece /\ toServer' \in [Peers -> Seq(Message)]
  BY DEF IInv, TypeOK, ReceiveEnd, network
<1> QED
  BY <1>1, HandOverInv DEF ReceiveEnd, Over, network

(* A worker that waits in send has done nothing yet. *)
LEMMA SendWaitsInv == ASSUME IInv, NEW p \in Peers, SendWaits(p) PROVE IInv'
<1>1. TypeOK'
  BY DEF IInv, TypeOK, SendWaits, network, handler, Calls
<1> QED
  BY <1>1, QuieterInv DEF SendWaits, network, handler

(* A worker sends what is in its own queue. *)
LEMMA SendAnswerInv == ASSUME IInv, NEW p \in Peers, SendAnswer(p) PROVE IInv'
<1>1. outbox[p] \in Seq(Reply) /\ got[p] \in Seq(Reply) /\ outbox[p] # <<>>
  BY DEF IInv, TypeOK, SendAnswer, Sends
<1>2. /\ Head(outbox[p]) \in Reply /\ Tail(outbox[p]) \in Seq(Reply)
      /\ Head(outbox[p]) = outbox[p][1] /\ 1 \in DOMAIN outbox[p]
      /\ \A i \in DOMAIN Tail(outbox[p]) :
           i + 1 \in DOMAIN outbox[p] /\ Tail(outbox[p])[i] = outbox[p][i + 1]
  BY <1>1, HeadTailProperties, LenProperties
<1>3. Append(got[p], Head(outbox[p])) \in Seq(Reply)
  BY <1>1, <1>2, AppendProperties
<1>4. /\ link' \in [Peers -> LinkState] /\ toServer' \in [Peers -> Seq(Message)]
      /\ got' \in [Peers -> Seq(Reply)]
  <2>1. /\ link \in [Peers -> LinkState] /\ toServer \in [Peers -> Seq(Message)]
        /\ got \in [Peers -> Seq(Reply)]
    BY DEF IInv, TypeOK
  <2>2. CASE /\ got' = [got EXCEPT ![p] = Append(@, Head(outbox[p]))]
             /\ UNCHANGED <<link, toServer>>
    BY <1>3, <2>1, <2>2
  <2>3. CASE /\ link' = [link EXCEPT ![p] = "reset"]
             /\ toServer' = [toServer EXCEPT ![p] = <<>>]
             /\ UNCHANGED got
    <3>1. link' \in [Peers -> LinkState]
      BY <2>1, <2>3 DEF LinkState
    <3>2. toServer' \in [Peers -> Seq(Message)]
      BY <2>1, <2>3, EmptySeq
    <3> QED
      BY <2>1, <2>3, <3>1, <3>2
  <2> QED
    BY <2>2, <2>3 DEF SendAnswer
<1>5. outbox' \in [Peers -> Seq(Reply)]
  BY <1>2 DEF IInv, TypeOK, SendAnswer
<1>6. TypeOK'
  BY <1>4, <1>5 DEF IInv, TypeOK, SendAnswer, handler, Calls
<1>7. StagesAdvance
  BY DEF IInv, TypeOK, SendAnswer, StagesAdvance, Over
<1>8. ClientsAreTheProxies' /\ SocketsAreOwned'
  BY DEF IInv, SendAnswer, ClientsAreTheProxies, SocketsAreOwned
<1>9. LossesAreReal'
  BY DEF IInv, TypeOK, SendAnswer, LossesAreReal
<1>10. AnswersAreHome'
  <2>1. \A i \in DOMAIN outbox'[p] : IsHome(p, outbox'[p][i])
    BY <1>2 DEF IInv, TypeOK, SendAnswer, AnswersAreHome
  <2>2. \A i \in DOMAIN got'[p] : IsHome(p, got'[p][i])
    <3>1. IsHome(p, Head(outbox[p]))
      BY <1>2 DEF IInv, AnswersAreHome
    <3>2. \A i \in DOMAIN got[p] : IsHome(p, got[p][i])
      BY DEF IInv, AnswersAreHome
    <3>3. \A i \in DOMAIN Append(got[p], Head(outbox[p])) :
            IsHome(p, Append(got[p], Head(outbox[p]))[i])
      BY <1>1, <1>2, <3>1, <3>2, AppendProperties, LenProperties
    <3> QED
      BY <3>2, <3>3 DEF IInv, TypeOK, SendAnswer
  <2>3. \A q \in Peers \ {p} : outbox'[q] = outbox[q] /\ got'[q] = got[q]
    BY DEF IInv, TypeOK, SendAnswer
  <2> QED
    BY <2>1, <2>2, <2>3 DEF IInv, AnswersAreHome, IsHome, SendAnswer
<1>11. QueueKnowsSenders' /\ HandlerKnowsSender' /\ TargetIsRight'
  BY <1>7, QueueFrame, HandlerFrame DEF SendAnswer, handler
<1>12. DeathIsExplained' /\ StoppedIsIdle'
  BY DEF IInv, SendAnswer, Sends, Serves, Alive, DeathIsExplained, StoppedIsIdle, Idle, handler
<1> QED
  BY <1>6, <1>8, <1>9, <1>10, <1>11, <1>12 DEF IInv

(* A worker ends only on a reset. *)
LEMMA NoticeLossInv == ASSUME IInv, NEW p \in Peers, NoticeLoss(p) PROVE IInv'
<1>0. EmptyPiece \in Piece
  BY PipelineConstants DEF EmptyPiece, Piece, Kinds
<1>1. TypeOK'
  BY <1>0 DEF IInv, TypeOK, NoticeLoss, network, handler, Stages, Calls
<1>2. StagesAdvance
  BY DEF IInv, TypeOK, NoticeLoss, Serves, StagesAdvance, Served, WithProxy, network
<1>3. ClientsAreTheProxies' /\ SocketsAreOwned' /\ LossesAreReal'
  BY DEF IInv, TypeOK, NoticeLoss, Serves, IsDisconnected, network, ClientsAreTheProxies,
     SocketsAreOwned, LossesAreReal, WithSocket, WithProxy
<1>4. QueueKnowsSenders' /\ HandlerKnowsSender' /\ TargetIsRight' /\ AnswersAreHome'
  BY <1>2, QueueFrame, HandlerFrame, AnswersFrame DEF NoticeLoss, handler, network
<1>5. DeathIsExplained' /\ StoppedIsIdle'
  BY DEF IInv, NoticeLoss, Serves, Alive, DeathIsExplained, StoppedIsIdle, Idle, handler
<1> QED
  BY <1>1, <1>3, <1>4, <1>5 DEF IInv

(* The entry goes with the number, and its answers with the proxy. *)
LEMMA OnClientNetErrorInv ==
  ASSUME IInv, NEW p \in Peers, OnClientNetError(p)
  PROVE  IInv'
<1>1. /\ DOMAIN clients' = DOMAIN clients \ {sock[p]}
      /\ \A s \in DOMAIN clients' : clients'[s] = clients[s]
  BY DEF OnClientNetError, Unregistered
<1>2. clients' \in [DOMAIN clients \ {sock[p]} -> Peers]
  BY DEF IInv, TypeOK, OnClientNetError, Unregistered
<1>3. outbox' \in [Peers -> Seq(Reply)]
  BY EmptySeq DEF IInv, TypeOK, OnClientNetError
<1>4. TypeOK'
  <2>1. used' \subseteq Sockets
    BY DEF IInv, TypeOK, OnClientNetError, SocketsAreOwned, WithSocket
  <2> QED
    BY <1>1, <1>2, <1>3, <2>1 DEF IInv, TypeOK, OnClientNetError, network, workers, handler, Stages
<1>5. StagesAdvance
  BY DEF IInv, TypeOK, OnClientNetError, StagesAdvance, Served, WithProxy, network
<1>6. SocketsAreOwned' /\ LossesAreReal'
  BY PipelineConstants DEF IInv, TypeOK, OnClientNetError, network, SocketsAreOwned,
     LossesAreReal, WithSocket
<1>7. ClientsAreTheProxies'
  BY <1>1 DEF IInv, TypeOK, OnClientNetError, ClientsAreTheProxies, SocketsAreOwned,
     WithSocket, WithProxy
<1>8. AnswersAreHome'
  <2> SUFFICES ASSUME NEW q \in Peers
               PROVE  /\ \A i \in DOMAIN outbox'[q] :
                           outbox'[q][i].from = q \/ stage'[outbox'[q][i].from] = "erased"
                      /\ \A i \in DOMAIN got[q] :
                           got[q][i].from = q \/ stage'[got[q][i].from] = "erased"
    BY DEF AnswersAreHome, IsHome, OnClientNetError, network
  <2>1. /\ outbox[q] \in Seq(Reply) /\ got[q] \in Seq(Reply)
        /\ \A i \in DOMAIN outbox[q] : IsHome(q, outbox[q][i])
        /\ \A i \in DOMAIN got[q] : IsHome(q, got[q][i])
    BY DEF IInv, TypeOK, AnswersAreHome
  <2>2. \A i \in DOMAIN outbox[q] : outbox[q][i].from = q \/ stage'[outbox[q][i].from] = "erased"
    BY <1>5, <2>1, HomeFrame
  <2>3. \A i \in DOMAIN got[q] : got[q][i].from = q \/ stage'[got[q][i].from] = "erased"
    BY <1>5, <2>1, HomeFrame
  <2>4. outbox'[q] = outbox[q] \/ outbox'[q] = <<>>
    BY DEF IInv, TypeOK, OnClientNetError
  <2> QED
    BY <2>2, <2>3, <2>4
<1>9. QueueKnowsSenders' /\ HandlerKnowsSender' /\ TargetIsRight'
  BY <1>5, QueueFrame, HandlerFrame DEF OnClientNetError, handler
<1>10. DeathIsExplained' /\ StoppedIsIdle'
  BY DEF IInv, OnClientNetError, Alive, DeathIsExplained, StoppedIsIdle, Idle, handler
<1> QED
  BY <1>4, <1>6, <1>7, <1>8, <1>9, <1>10 DEF IInv

-----------------------------------------------------------------------------
(* Steps of the handler thread and of the life cycle.                      *)

(* Steps that change the handler thread or the server, nothing else. *)
LEMMA InsideInv ==
  ASSUME IInv, TypeOK', UNCHANGED <<network, proxies>>,
         QueueKnowsSenders', HandlerKnowsSender', TargetIsRight',
         DeathIsExplained', StoppedIsIdle'
  PROVE  IInv'
<1>1. ClientsAreTheProxies' /\ SocketsAreOwned' /\ LossesAreReal' /\ AnswersAreHome'
  BY DEF IInv, network, proxies, ClientsAreTheProxies, SocketsAreOwned, LossesAreReal,
     AnswersAreHome, IsHome
<1> QED
  BY <1>1 DEF IInv

(* The command in hand is one of the queue. *)
LEMMA TakeCommandInv == ASSUME IInv, TakeCommand PROVE IInv'
<1>1. commands \in Seq(Command) /\ commands # <<>>
  BY DEF IInv, TypeOK, TakeCommand
<1>2. /\ Head(commands) \in Command /\ Tail(commands) \in Seq(Command)
      /\ Head(commands) = commands[1] /\ 1 \in DOMAIN commands
      /\ \A i \in DOMAIN Tail(commands) :
           i + 1 \in DOMAIN commands /\ Tail(commands)[i] = commands[i + 1]
  BY <1>1, HeadTailProperties, LenProperties
<1>3. TypeOK'
  BY <1>2 DEF IInv, TypeOK, TakeCommand, network, proxies, workers
<1>4. QueueKnowsSenders' /\ HandlerKnowsSender'
  BY <1>2 DEF IInv, TakeCommand, QueueKnowsSenders, HandlerKnowsSender, KnowsSender, network, proxies
<1>5. TargetIsRight' /\ DeathIsExplained' /\ StoppedIsIdle'
  BY DEF IInv, TakeCommand, TargetIsRight, DeathIsExplained, StoppedIsIdle
<1> QED
  BY <1>3, <1>4, <1>5, InsideInv DEF TakeCommand

(* The end of the process needs an explanation, and nothing else. *)
LEMMA DiesInv ==
  ASSUME IInv, Dies,
         handling.kind \in {"blank", "void"} \/ \E p \in Peers : stage[p] = "registering" \/ link[p] = "reset"
  PROVE  IInv'
<1>1. TypeOK'
  BY DEF IInv, TypeOK, Dies, network, proxies, workers, handler, ServerState
<1>2. DeathIsExplained' /\ StoppedIsIdle'
  BY DEF Dies, DeathIsExplained, StoppedIsIdle, network, proxies, handler
<1>3. StagesAdvance
  BY DEF Dies, StagesAdvance, network, proxies
<1>4. QueueKnowsSenders' /\ HandlerKnowsSender' /\ TargetIsRight'
  BY <1>3, QueueFrame, HandlerFrame DEF Dies, handler
<1> QED
  BY <1>1, <1>2, <1>4, InsideInv DEF Dies

(* A handler that waits has changed nothing. *)
LEMMA HandlerHangsInv == ASSUME IInv, HandlerHangs PROVE IInv'
<1>1. TypeOK'
  BY DEF IInv, TypeOK, HandlerHangs, network, proxies, workers
<1> QED
  BY <1>1, QuieterInv DEF HandlerHangs, network, proxies

(* The pointer is that of the sender, or the sender is gone. *)
LEMMA LookUpClientInv == ASSUME IInv, LookUpClient PROVE IInv'
<1> DEFINE q == clients[handling.sock]
<1>1. handling \in Command /\ handling.from \in Peers /\ handling.sock \in DOMAIN clients
  BY Elements DEF IInv, LookUpClient, Answering, Command
<1>2. q \in Peers /\ stage[q] \in WithProxy /\ sock[q] = handling.sock
  BY <1>1 DEF IInv, TypeOK, ClientsAreTheProxies
<1>3. q = handling.from \/ stage[handling.from] = "erased"
  <2> SUFFICES ASSUME stage[handling.from] # "erased" PROVE q = handling.from
    OBVIOUS
  <2>1. stage[handling.from] \in WithProxy /\ sock[handling.from] = handling.sock
    BY DEF IInv, LookUpClient, Answering, HandlerKnowsSender, KnowsSender, Served
  <2>2. sock[q] # NoSocket
    BY <1>2 DEF IInv, SocketsAreOwned, WithSocket, WithProxy
  <2> QED
    BY <1>1, <1>2, <2>1, <2>2 DEF IInv, SocketsAreOwned
<1>4. target' = q
  BY DEF LookUpClient, Addressee
<1> HIDE DEF q
<1>5. TypeOK'
  BY <1>2, <1>4 DEF IInv, TypeOK, LookUpClient, network, proxies, workers
<1>6. TargetIsRight'
  BY <1>2, <1>3, <1>4 DEF LookUpClient, Answering, TargetIsRight, Idle, Served, proxies
<1>7. StagesAdvance
  BY DEF LookUpClient, StagesAdvance, network, proxies
<1>8. QueueKnowsSenders' /\ HandlerKnowsSender'
  BY <1>7, QueueFrame DEF IInv, LookUpClient, HandlerKnowsSender, KnowsSender, Idle, network, proxies
<1>9. DeathIsExplained' /\ StoppedIsIdle'
  BY DEF IInv, LookUpClient, Answering, Alive, DeathIsExplained, StoppedIsIdle, Idle
<1> QED
  BY <1>5, <1>6, <1>8, <1>9, InsideInv DEF LookUpClient

(* A number is missing only if its connection was reset. *)
LEMMA LookUpFailsInv == ASSUME IInv, LookUpFails PROVE IInv'
<1>1. CASE MapIsChanging
  BY <1>1, DiesInv DEF IInv, LookUpFails, MapIsChanging, LossesAreReal
<1>2. CASE handling.sock \notin DOMAIN clients
  <2>1. handling \in Command /\ handling.from \in Peers /\ KnowsSender(handling)
    BY Elements DEF IInv, LookUpFails, Answering, Command, HandlerKnowsSender
  <2>2. stage[handling.from] = "erased"
    BY <1>2, <2>1 DEF IInv, ClientsAreTheProxies, KnowsSender, Served
  <2>3. link[handling.from] = "reset"
    BY <2>1, <2>2 DEF IInv, LossesAreReal
  <2> QED
    BY <2>1, <2>3, DiesInv DEF LookUpFails
<1> QED
  BY <1>1, <1>2 DEF LookUpFails

(* The answer goes to the sender, or the sender is gone. *)
LEMMA PushAnswerInv == ASSUME IInv, PushAnswer PROVE IInv'
<1> DEFINE a == [from |-> handling.from, upto |-> handling.upto]
<1>1. handling \in Command /\ target \in Peers
  BY Elements DEF IInv, TypeOK, PushAnswer, Answering
<1>2. a \in Reply /\ IsHome(target, a)
  BY <1>1 DEF IInv, PushAnswer, Answering, TargetIsRight, Command, Reply, IsHome
<1>3. outbox[target] \in Seq(Reply)
  BY <1>1 DEF IInv, TypeOK
<1>4. outbox' = outbox \/ outbox' = [outbox EXCEPT ![target] = Append(@, a)]
  BY DEF PushAnswer
<1>5. /\ Append(outbox[target], a) \in Seq(Reply)
      /\ \A i \in DOMAIN Append(outbox[target], a) :
           \/ Append(outbox[target], a)[i] = a
           \/ /\ i \in DOMAIN outbox[target]
              /\ Append(outbox[target], a)[i] = outbox[target][i]
  BY <1>2, <1>3, AppendProperties, LenProperties
<1> HIDE DEF a
<1>6. outbox' \in [Peers -> Seq(Reply)]
  BY <1>4, <1>5 DEF IInv, TypeOK
<1>7. TypeOK'
  BY <1>6 DEF IInv, TypeOK, PushAnswer, network, workers
<1>8. StagesAdvance
  BY DEF PushAnswer, StagesAdvance, network
<1>9. AnswersAreHome'
  <2>1. ASSUME NEW p \in Peers, NEW i \in DOMAIN outbox'[p]
        PROVE  IsHome(p, outbox'[p][i])
    <3>1. CASE p = target /\ outbox' = [outbox EXCEPT ![target] = Append(@, a)]
      <4>1. outbox'[p] = Append(outbox[target], a)
        BY <3>1 DEF IInv, TypeOK
      <4> QED
        BY <1>2, <1>5, <2>1, <3>1, <4>1 DEF IInv, AnswersAreHome
    <3>2. CASE ~(p = target /\ outbox' = [outbox EXCEPT ![target] = Append(@, a)])
      <4>1. outbox'[p] = outbox[p]
        BY <1>4, <3>2 DEF IInv, TypeOK
      <4> QED
        BY <2>1, <4>1 DEF IInv, AnswersAreHome
    <3> QED
      BY <3>1, <3>2
  <2> QED
    BY <2>1 DEF IInv, AnswersAreHome, IsHome, PushAnswer, network
<1>10. ClientsAreTheProxies' /\ SocketsAreOwned' /\ LossesAreReal'
  BY DEF IInv, PushAnswer, network, ClientsAreTheProxies, SocketsAreOwned, LossesAreReal
<1>11. QueueKnowsSenders'
  BY <1>8, QueueFrame DEF PushAnswer
<1>12. HandlerKnowsSender' /\ TargetIsRight' /\ StoppedIsIdle'
  BY DEF PushAnswer, HandlerKnowsSender, TargetIsRight, StoppedIsIdle, Idle
<1>13. DeathIsExplained'
  BY DEF PushAnswer, Answering, Alive, DeathIsExplained
<1> QED
  BY <1>7, <1>9, <1>10, <1>11, <1>12, <1>13 DEF IInv

(* A proxy is destroyed only if its connection was reset. *)
LEMMA PushFailsInv == ASSUME IInv, PushFails PROVE IInv'
<1>1. target \in Peers /\ stage[target] = "erased"
  BY DEF IInv, TypeOK, PushFails, TargetIsRight, Served
<1>2. link[target] = "reset"
  BY <1>1 DEF IInv, LossesAreReal
<1> QED
  BY <1>1, <1>2, DiesInv DEF PushFails

(* stop waits for the handler thread. *)
LEMMA LifeCycleInv == ASSUME IInv, Run \/ StopBegins \/ StopEnds PROVE IInv'
<1>1. UNCHANGED <<network, proxies, handler>> /\ server' \in {"running", "stopping", "stopped"}
  BY DEF Run, StopBegins, StopEnds
<1>2. TypeOK'
  BY <1>1 DEF IInv, TypeOK, network, proxies, workers, handler, ServerState
<1>3. StagesAdvance
  BY <1>1 DEF StagesAdvance, network, proxies
<1>4. QueueKnowsSenders' /\ HandlerKnowsSender' /\ TargetIsRight'
  BY <1>1, <1>3, QueueFrame, HandlerFrame DEF handler
<1>5. DeathIsExplained' /\ StoppedIsIdle'
  BY <1>1 DEF Run, StopBegins, StopEnds, DeathIsExplained, StoppedIsIdle, Joined, Idle, handler
<1> QED
  BY <1>1, <1>2, <1>4, <1>5, InsideInv

-----------------------------------------------------------------------------
(* One step of any thread, peer or the network. *)
LEMMA NextInv == ASSUME IInv, [Next]_vars PROVE IInv'
<1>1. CASE \E p \in Peers : PeerStep(p)
  BY <1>1, ConnectInv, SendCommandInv, ReadingInv, CloseInv, ResetInv DEF PeerStep
<1>2. CASE \E p \in Peers : ConnectionStep(p)
  BY <1>2, AcceptInv, OnConnectionIncomingInv, ReceiveInv, ReceiveEndInv, SendWaitsInv,
     SendAnswerInv, NoticeLossInv, OnClientNetErrorInv DEF ConnectionStep
<1>3. CASE ClearNullCommand \/ SearchForNothing
  BY <1>3, DiesInv DEF ClearNullCommand, SearchForNothing
<1>4. CASE HandlerStep
  BY <1>3, <1>4, TakeCommandInv, HandlerHangsInv, LookUpClientInv, LookUpFailsInv, PushAnswerInv,
     PushFailsInv
  DEF HandlerStep
<1>5. CASE Run \/ StopBegins \/ StopEnds
  BY <1>5, LifeCycleInv
<1>6. CASE UNCHANGED vars
  <2>1. TypeOK'
    BY <1>6 DEF vars, network, proxies, workers, handler, IInv, TypeOK
  <2> QED
    BY <1>6, <2>1, QuietInv DEF vars, network
<1> QED
  BY <1>1, <1>2, <1>4, <1>5, <1>6 DEF Next

(* The inductive invariant holds: the stages of the connections, the map,  *)
(* the queue and the handler thread fit together in every reachable state. *)
THEOREM Invariance == Spec => []IInv
  BY InitInv, NextInv, PTL DEF Spec

(* The state keeps its types; the map never holds a null pointer. *)
THEOREM TypeCorrect == Spec => []TypeOK
<1>1. IInv => TypeOK
  BY DEF IInv
<1> QED
  BY <1>1, Invariance, PTL

(* server.cpp: the map holds the proxies of the live workers under their   *)
(* own SOCKET numbers.                                                     *)
THEOREM MapIsRight == Spec => []ClientsAreTheProxies
<1>1. IInv => ClientsAreTheProxies
  BY DEF IInv
<1> QED
  BY <1>1, Invariance, PTL

(* handle_command: while a client is there its answers reach nobody else. *)
THEOREM NoForeignAnswerOfTheLiving == Spec => []LiveAnswersStayHome
<1>1. IInv => LiveAnswersStayHome
  <2> SUFFICES ASSUME IInv, NEW p \in Peers, NEW a \in Answers(p)
               PROVE  IsHome(p, a)
    BY DEF LiveAnswersStayHome, IsHome
  <2> QED
    BY DEF IInv, AnswersAreHome, Answers, ToSet
<1> QED
  BY <1>1, Invariance, PTL

(* handle_command: the only ways in which it can end the process. *)
THEOREM DeathsAreExplained == Spec => []DeathHasACause
<1>1. IInv => DeathHasACause
  <2> SUFFICES ASSUME IInv, handling.kind = "blank", handling.upto = 0
               PROVE  ~Connected(handling.from)
    BY DEF IInv, DeathIsExplained, DeathHasACause
  <2>1. ~Idle
    BY DEF Idle, Nothing
  <2> QED
    BY <2>1 DEF IInv, HandlerKnowsSender, KnowsSender, Over, Connected
<1> QED
  BY <1>1, Invariance, PTL

(* server::stop: after it no command is being handled. *)
THEOREM StopIsFinal == Spec => NothingHandledAfterStop
<1>1. IInv /\ [Next]_vars => [server = "stopped" => UNCHANGED handling]_vars
  <2> SUFFICES ASSUME IInv, [Next]_vars, server = "stopped"
               PROVE  UNCHANGED handling
    OBVIOUS
  <2>1. Idle
    BY DEF IInv, StoppedIsIdle
  <2>2. CASE \E p \in Peers : PeerStep(p)
    BY <2>2 DEF PeerStep, Connect, SendCommand, StopReading, ReadAgain, Close, Reset, handler
  <2>3. CASE \E p \in Peers : ConnectionStep(p)
    BY <2>3 DEF ConnectionStep, Accept, OnConnectionIncoming, Receive, ReceiveEnd, SendWaits,
       SendAnswer, NoticeLoss, OnClientNetError, handler
  <2>4. CASE HandlerStep
    BY <2>1, <2>4 DEF HandlerStep, TakeCommand, ClearNullCommand, SearchForNothing, HandlerHangs,
       LookUpClient, LookUpFails, PushAnswer, PushFails, Answering
  <2>5. CASE Run \/ StopBegins \/ StopEnds \/ UNCHANGED vars
    BY <2>5 DEF Run, StopBegins, StopEnds, vars, handler
  <2> QED
    BY <2>2, <2>3, <2>4, <2>5 DEF Next
<1> QED
  BY <1>1, Invariance, PTL DEF Spec, NothingHandledAfterStop

-----------------------------------------------------------------------------
(* The order of the requests.                                              *)

(* A command of p that holds a request; the end of a connection may leave  *)
(* an empty one behind.                                                    *)
Asks(c, p) == c.from = p /\ c.upto > 0

(* Every request of p that is not answered comes after number n: those     *)
(* that recv has not read, those the worker holds, those in the queue, the *)
(* one in hand, and those whose answers wait to be sent.                   *)
UnreadAfter(p, n) == \A k \in DOMAIN toServer[p] : n < toServer[p][k].n

HeldAfter(p, n) ==
  /\ UnreadAfter(p, n)
  /\ piece[p].upto > 0 => n < piece[p].upto

QueuedAfter(p, n) ==
  /\ HeldAfter(p, n)
  /\ \A i \in DOMAIN commands : Asks(commands[i], p) => n < commands[i].upto

HandledAfter(p, n) ==
  /\ QueuedAfter(p, n)
  /\ Asks(handling, p) => n < handling.upto

AnsweredAfter(p, n) ==
  /\ HandledAfter(p, n)
  /\ \A i \in DOMAIN outbox[p] : outbox[p][i].from = p => n < outbox[p][i].upto

UnreadInOrder(p) ==
  \A k \in DOMAIN toServer[p] :
    /\ toServer[p][k].n <= sent[p]
    /\ \A l \in DOMAIN toServer[p] : k < l => toServer[p][k].n < toServer[p][l].n

HeldInOrder(p) ==
  piece[p].upto > 0 => piece[p].upto <= sent[p] /\ UnreadAfter(p, piece[p].upto)

QueuedInOrder(p) ==
  \A i \in DOMAIN commands : Asks(commands[i], p) =>
    /\ commands[i].upto <= sent[p] /\ HeldAfter(p, commands[i].upto)
    /\ \A j \in DOMAIN commands :
         i < j /\ Asks(commands[j], p) => commands[i].upto < commands[j].upto

HandledInOrder(p) ==
  Asks(handling, p) => handling.upto <= sent[p] /\ QueuedAfter(p, handling.upto)

AnswersInOrder(p) ==
  /\ \A i \in DOMAIN outbox[p] : outbox[p][i].from = p =>
       /\ outbox[p][i].upto <= sent[p] /\ HandledAfter(p, outbox[p][i].upto)
       /\ \A j \in DOMAIN outbox[p] :
            i < j /\ outbox[p][j].from = p => outbox[p][i].upto < outbox[p][j].upto
  /\ LastAnswered(p) \in Nat /\ LastAnswered(p) <= sent[p]
  /\ AnsweredAfter(p, LastAnswered(p))

PeerInOrder(p) ==
  /\ UnreadInOrder(p)
  /\ HeldInOrder(p)
  /\ QueuedInOrder(p)
  /\ HandledInOrder(p)
  /\ AnswersInOrder(p)

(* The requests of a client keep their order on the whole way through the  *)
(* server, and nobody is connected before the server runs.                 *)
InOrder ==
  /\ \A p \in Peers : PeerInOrder(p)
  /\ server = "setup" => \A p \in Peers : link[p] = "none"

LEMMA InitOrder == Init => InOrder
<1> SUFFICES ASSUME Init, NEW p \in Peers PROVE PeerInOrder(p)
  BY DEF InOrder, Init
<1>1. DOMAIN toServer[p] = {} /\ DOMAIN commands = {} /\ DOMAIN outbox[p] = {} /\ DOMAIN got[p] = {}
  BY DEF Init
<1>2. handling.from # p /\ sent[p] = 0
  BY PipelineConstants DEF Init, Nothing
<1>3. LastAnswered(p) = 0
  BY <1>1 DEF LastAnswered
<1>4. piece[p].upto = 0 /\ handling.upto = 0
  BY DEF Init, EmptyPiece, Nothing
<1> QED
  BY <1>1, <1>2, <1>3, <1>4
  DEF PeerInOrder, UnreadInOrder, HeldInOrder, QueuedInOrder, HandledInOrder, AnswersInOrder,
      AnsweredAfter, HandledAfter, QueuedAfter, HeldAfter, UnreadAfter, Asks

(* Numbers are natural numbers wherever they are. *)
LEMMA Numbers ==
  ASSUME TypeOK, NEW p \in Peers
  PROVE  /\ sent[p] \in Nat
         /\ \A k \in DOMAIN toServer[p] : toServer[p][k].n \in Nat
         /\ piece[p].upto \in Nat
         /\ \A i \in DOMAIN commands : commands[i].upto \in Nat
         /\ handling.upto \in Nat
         /\ \A i \in DOMAIN outbox[p] : outbox[p][i].upto \in Nat
         /\ \A i \in DOMAIN got[p] : got[p][i].upto \in Nat
<1>1. sent[p] \in Nat /\ piece[p].upto \in Nat /\ handling.upto \in Nat
  BY PipelineConstants DEF TypeOK, Piece, Command, Nothing
<1>2. \A k \in DOMAIN toServer[p] : toServer[p][k] \in Message
  <2>1. toServer[p] \in Seq(Message)
    BY DEF TypeOK
  <2> QED BY <2>1, ElementOfSeq, LenProperties
<1> QED
  BY <1>1, <1>2, Elements, PipelineConstants DEF Message, Command, Reply

(* A step that leaves the requests of p alone keeps their order. *)
LEMMA PeerFrame ==
  ASSUME NEW p \in Peers, PeerInOrder(p), UNCHANGED <<commands, handling>>,
         toServer'[p] = toServer[p], piece'[p] = piece[p], outbox'[p] = outbox[p],
         got'[p] = got[p], sent'[p] = sent[p]
  PROVE  PeerInOrder(p)'
  BY DEF PeerInOrder, UnreadInOrder, HeldInOrder, QueuedInOrder, HandledInOrder, AnswersInOrder,
     AnsweredAfter, HandledAfter, QueuedAfter, HeldAfter, UnreadAfter, LastAnswered

LEMMA SendCommandOrder ==
  ASSUME IInv, InOrder, NEW p \in Peers, NEW kind \in Kinds, SendCommand(p, kind)
  PROVE  PeerInOrder(p)'
<1> DEFINE m == [n |-> sent[p] + 1, kind |-> kind]
<1>1. toServer[p] \in Seq(Message) /\ sent[p] \in Nat /\ sent'[p] = sent[p] + 1 /\ m \in Message
  <2>1. sent \in [Peers -> 0..MaxCommands] /\ sent' = [sent EXCEPT ![p] = @ + 1]
    BY DEF IInv, TypeOK, SendCommand
  <2>2. sent[p] \in Nat /\ sent[p] + 1 \in 1..MaxCommands
    BY <2>1, PipelineConstants DEF SendCommand
  <2> QED
    BY <2>1, <2>2 DEF IInv, TypeOK, Message
<1>2. /\ toServer'[p] = Append(toServer[p], m)
      /\ UNCHANGED <<commands, handling, outbox, got, piece>>
  BY DEF IInv, TypeOK, SendCommand, proxies, workers, handler
<1>3. \A k \in DOMAIN toServer'[p] :
        \/ k \in DOMAIN toServer[p] /\ toServer'[p][k] = toServer[p][k]
        \/ toServer'[p][k].n = sent[p] + 1 /\ \A l \in DOMAIN toServer'[p] : l <= k
  <2> HIDE DEF m
  <2>1. \A k \in DOMAIN toServer'[p] :
          \/ k \in DOMAIN toServer[p] /\ toServer'[p][k] = toServer[p][k]
          \/ toServer'[p][k] = m /\ \A l \in DOMAIN toServer'[p] : l <= k
    BY <1>1, <1>2, AppendProperties, LenProperties
  <2> QED BY <2>1 DEF m
<1> HIDE DEF m
<1>4. \A k \in DOMAIN toServer[p] : k \in Nat
  BY <1>1, LenProperties
<1>5. PeerInOrder(p)
  BY DEF InOrder
<1>6. \A n \in Nat : n <= sent[p] /\ UnreadAfter(p, n) => UnreadAfter(p, n)'
  BY <1>1, <1>3 DEF UnreadAfter
<1>14. HeldInOrder(p)'
  BY <1>1, <1>2, <1>5, <1>6, Numbers DEF IInv, PeerInOrder, HeldInOrder
<1>15. \A n \in Nat : n <= sent[p] /\ HeldAfter(p, n) => HeldAfter(p, n)'
  BY <1>2, <1>6 DEF HeldAfter
<1>7. UnreadInOrder(p)'
  <2> SUFFICES ASSUME NEW k \in DOMAIN toServer'[p]
               PROVE  /\ toServer'[p][k].n <= sent'[p]
                      /\ \A l \in DOMAIN toServer'[p] : k < l => toServer'[p][k].n < toServer'[p][l].n
    BY DEF UnreadInOrder
  <2>1. DOMAIN toServer'[p] \subseteq Nat
    BY <1>1, <1>2, AppendProperties, LenProperties
  <2>2. /\ \A x \in DOMAIN toServer[p] : toServer[p][x].n \in Nat /\ toServer[p][x].n <= sent[p]
        /\ \A x, y \in DOMAIN toServer[p] : x < y => toServer[p][x].n < toServer[p][y].n
    BY <1>5, Numbers DEF PeerInOrder, UnreadInOrder, IInv
  <2>3. CASE toServer'[p][k].n = sent[p] + 1 /\ \A l \in DOMAIN toServer'[p] : l <= k
    BY <1>1, <2>1, <2>3
  <2>4. CASE k \in DOMAIN toServer[p] /\ toServer'[p][k] = toServer[p][k]
    <3>1. toServer'[p][k].n \in Nat /\ toServer'[p][k].n <= sent[p]
      BY <2>2, <2>4
    <3>2. ASSUME NEW l \in DOMAIN toServer'[p], k < l PROVE toServer'[p][k].n < toServer'[p][l].n
      BY <1>1, <1>3, <2>2, <2>4, <3>1, <3>2
    <3> QED BY <1>1, <3>1, <3>2
  <2> QED
    BY <1>3, <2>3, <2>4
<1>8. QueuedInOrder(p)'
  BY <1>1, <1>2, <1>5, <1>15, Numbers DEF IInv, PeerInOrder, QueuedInOrder
<1>9. \A n \in Nat : n <= sent[p] /\ QueuedAfter(p, n) => QueuedAfter(p, n)'
  BY <1>2, <1>15 DEF QueuedAfter
<1>10. HandledInOrder(p)'
  BY <1>1, <1>2, <1>5, <1>9, Numbers DEF IInv, PeerInOrder, HandledInOrder
<1>11. \A n \in Nat : n <= sent[p] /\ HandledAfter(p, n) => HandledAfter(p, n)'
  BY <1>2, <1>9 DEF HandledAfter
<1>12. LastAnswered(p)' = LastAnswered(p)
  BY <1>2 DEF LastAnswered
<1>13. AnswersInOrder(p)'
  BY <1>1, <1>2, <1>5, <1>11, <1>12, Numbers DEF IInv, PeerInOrder, AnswersInOrder, AnsweredAfter
<1> QED
  BY <1>7, <1>8, <1>10, <1>13, <1>14 DEF PeerInOrder

(* A step in which the worker of p gets on keeps the order of p if nothing *)
(* comes in front of what was there.                                       *)
LEMMA WorkerOrder ==
  ASSUME NEW p \in Peers, PeerInOrder(p), UNCHANGED <<commands, handling>>,
         UnreadInOrder(p)', HeldInOrder(p)',
         \A n : HeldAfter(p, n) => HeldAfter(p, n)',
         outbox'[p] = outbox[p] \/ outbox'[p] = <<>>,
         got'[p] = got[p], sent'[p] = sent[p]
  PROVE  PeerInOrder(p)'
<1>2. \A n : QueuedAfter(p, n) => QueuedAfter(p, n)'
  BY DEF QueuedAfter
<1>3. \A n : HandledAfter(p, n) => HandledAfter(p, n)'
  BY <1>2 DEF HandledAfter
<1>5. QueuedInOrder(p)'
  BY DEF PeerInOrder, QueuedInOrder
<1>6. HandledInOrder(p)'
  BY <1>2 DEF PeerInOrder, HandledInOrder
<1>7. LastAnswered(p)' = LastAnswered(p)
  BY DEF LastAnswered
<1>8. AnswersInOrder(p)'
  <2>1. CASE outbox'[p] = outbox[p]
    BY <1>3, <1>7, <2>1 DEF PeerInOrder, AnswersInOrder, AnsweredAfter
  <2>2. CASE outbox'[p] = <<>>
    BY <1>3, <1>7, <2>2 DEF PeerInOrder, AnswersInOrder, AnsweredAfter
  <2> QED BY <2>1, <2>2
<1> QED
  BY <1>5, <1>6, <1>8 DEF PeerInOrder

(* What has not been read may be lost, and what waits to be sent as well. *)
LEMMA LossOrder ==
  ASSUME NEW p \in Peers, PeerInOrder(p), UNCHANGED <<commands, handling>>,
         toServer'[p] = toServer[p] \/ toServer'[p] = <<>>,
         piece'[p] = piece[p] \/ piece'[p] = EmptyPiece,
         outbox'[p] = outbox[p] \/ outbox'[p] = <<>>,
         got'[p] = got[p], sent'[p] = sent[p]
  PROVE  PeerInOrder(p)'
<1>1. \A n : UnreadAfter(p, n) => UnreadAfter(p, n)'
  BY DEF UnreadAfter
<1>2. EmptyPiece.upto = 0
  BY DEF EmptyPiece
<1>3. \A n : HeldAfter(p, n) => HeldAfter(p, n)'
  BY <1>1, <1>2 DEF HeldAfter
<1>4. UnreadInOrder(p)'
  BY DEF PeerInOrder, UnreadInOrder
<1>5. HeldInOrder(p)'
  BY <1>1, <1>2 DEF PeerInOrder, HeldInOrder
<1> QED
  BY <1>3, <1>4, <1>5, WorkerOrder

(* What a worker hands over joins the queue behind what it has handed over *)
(* before.                                                                 *)
LEMMA HandOverOrder ==
  ASSUME IInv, InOrder, NEW p \in Peers, Serves(p), NEW x \in Piece, HandOver(p, x),
         UNCHANGED <<sent, got, outbox, handling>>,
         \A q \in Peers \ {p} : toServer'[q] = toServer[q],
         UnreadInOrder(p)',
         \A n : HeldAfter(p, n) => UnreadAfter(p, n)' /\ (x.upto > 0 => n < x.upto),
         x.upto > 0 => x.upto <= sent[p] /\ UnreadAfter(p, x.upto)',
         NEW q \in Peers
  PROVE  PeerInOrder(q)'
<1>0. PICK c : c = Received(p, x)
  OBVIOUS
<1>1. commands \in Seq(Command) /\ c \in Command /\ c.from = p /\ c.upto = x.upto
  BY <1>0, ReceivedCommand DEF IInv, TypeOK
<1>2. x.upto \in Nat
  BY PipelineConstants DEF Piece
<1>3. commands' = Append(commands, c)
  BY <1>0 DEF HandOver, Enqueue
<1>4. /\ DOMAIN commands' = DOMAIN commands \cup {Len(commands) + 1}
      /\ DOMAIN commands = 1 .. Len(commands) /\ Len(commands) \in Nat
      /\ \A i \in DOMAIN commands : commands'[i] = commands[i]
      /\ commands'[Len(commands) + 1] = c
  <2>1. DOMAIN commands = 1 .. Len(commands) /\ Len(commands) \in Nat
    BY <1>1, LenProperties
  <2>2. /\ Append(commands, c) \in Seq(Command)
        /\ Len(Append(commands, c)) = Len(commands) + 1
        /\ \A i \in 1 .. Len(commands) : Append(commands, c)[i] = commands[i]
        /\ Append(commands, c)[Len(commands) + 1] = c
    BY <1>1, AppendProperties
  <2>3. DOMAIN commands' = 1 .. Len(commands) + 1
    BY <1>3, <2>2, LenProperties
  <2> QED BY <1>3, <2>1, <2>2, <2>3
<1>5. /\ piece'[p].upto = 0 /\ \A r \in Peers \ {p} : piece'[r] = piece[r]
  BY DEF IInv, TypeOK, HandOver, EmptyPiece
<1>6. PeerInOrder(q) /\ LastAnswered(q)' = LastAnswered(q)
  BY DEF InOrder, LastAnswered
<1>7. CASE q # p
  <2>0. toServer'[q] = toServer[q] /\ piece'[q] = piece[q] /\ ~Asks(c, q)
    BY <1>1, <1>5, <1>7 DEF Asks
  <2>1. \A n : HeldAfter(q, n) => HeldAfter(q, n)'
    BY <2>0 DEF HeldAfter, UnreadAfter
  <2>2. \A n : QueuedAfter(q, n) => QueuedAfter(q, n)'
    BY <1>4, <2>0, <2>1 DEF QueuedAfter
  <2>3. \A n : HandledAfter(q, n) => HandledAfter(q, n)'
    BY <2>2 DEF HandledAfter
  <2>4. UnreadInOrder(q)' /\ HeldInOrder(q)'
    BY <1>6, <2>0 DEF PeerInOrder, UnreadInOrder, HeldInOrder, UnreadAfter
  <2>5. QueuedInOrder(q)'
    BY <1>4, <1>6, <2>0, <2>1 DEF PeerInOrder, QueuedInOrder
  <2>6. HandledInOrder(q)'
    BY <1>6, <2>2 DEF PeerInOrder, HandledInOrder
  <2>7. AnswersInOrder(q)'
    BY <1>6, <2>3 DEF PeerInOrder, AnswersInOrder, AnsweredAfter
  <2> QED BY <2>4, <2>5, <2>6, <2>7 DEF PeerInOrder
<1>8. CASE q = p
  <2>1. Asks(c, p) => c.upto <= sent[p] /\ HeldAfter(p, c.upto)'
    BY <1>1, <1>5 DEF Asks, HeldAfter
  <2>2. \A n : HeldAfter(p, n) => HeldAfter(p, n)' /\ (Asks(c, p) => n < c.upto)
    BY <1>1, <1>5 DEF Asks, HeldAfter
  <2>3. HeldInOrder(p)'
    BY <1>5 DEF HeldInOrder
  <2>4. QueuedInOrder(p)'
    <3> SUFFICES ASSUME NEW i \in DOMAIN commands', NEW b, b = commands'[i], Asks(b, p)
                 PROVE  /\ b.upto <= sent[p] /\ HeldAfter(p, b.upto)'
                        /\ \A j \in DOMAIN commands' :
                             i < j /\ Asks(commands'[j], p) => b.upto < commands'[j].upto
      <4>1. \A i \in DOMAIN commands' : Asks(commands'[i], p) =>
              /\ commands'[i].upto <= sent[p]
              /\ \A n : n = commands'[i].upto => HeldAfter(p, n)'
              /\ \A j \in DOMAIN commands' :
                   i < j /\ Asks(commands'[j], p) => commands'[i].upto < commands'[j].upto
        OBVIOUS
      <4> QED BY <4>1 DEF QueuedInOrder
    <3>1. CASE i \in DOMAIN commands
      <4>1. /\ b = commands[i]
            /\ b.upto <= sent[p] /\ HeldAfter(p, b.upto)
            /\ \A j \in DOMAIN commands :
                 i < j /\ Asks(commands[j], p) => b.upto < commands[j].upto
        BY <1>4, <1>6, <1>8, <3>1 DEF PeerInOrder, QueuedInOrder
      <4> QED
        BY <1>4, <2>2, <4>1
    <3>2. CASE i = Len(commands) + 1
      <4>1. b = c /\ \A j \in DOMAIN commands' : ~(i < j)
        BY <1>4, <3>2
      <4> QED BY <2>1, <4>1
    <3> QED BY <1>4, <3>1, <3>2
  <2>5. \A n : QueuedAfter(p, n) => QueuedAfter(p, n)'
    BY <1>4, <2>2 DEF QueuedAfter
  <2>6. \A n : HandledAfter(p, n) => HandledAfter(p, n)'
    BY <2>5 DEF HandledAfter
  <2>7. HandledInOrder(p)'
    BY <1>6, <1>8, <2>5 DEF PeerInOrder, HandledInOrder
  <2>8. AnswersInOrder(p)'
    BY <1>6, <1>8, <2>6 DEF PeerInOrder, AnswersInOrder, AnsweredAfter
  <2> QED BY <1>8, <2>3, <2>4, <2>7, <2>8 DEF PeerInOrder
<1> QED BY <1>7, <1>8

(* What is left of a sequence after its first k elements.                  *)
LEMMA RestOfSeq ==
  ASSUME NEW S, NEW s \in Seq(S), NEW k \in DOMAIN s, NEW r, r = SubSeq(s, k + 1, Len(s))
  PROVE  /\ DOMAIN s = 1 .. Len(s) /\ Len(s) \in Nat /\ k \in 1 .. Len(s)
         /\ DOMAIN r = 1 .. Len(s) - k
         /\ \A l \in 1 .. Len(s) - k : r[l] = s[l + k]
<1> DEFINE n == Len(s)
<1>1. DOMAIN s = 1 .. n /\ n \in Nat /\ k \in 1 .. n
  BY LenProperties
<1>2. \A l \in (k + 1) .. n : s[l] \in S
  BY <1>1, ElementOfSeq
<1> DEFINE a == k + 1
<1>3. a \in Int /\ n \in Int /\ a <= n + 1 /\ n - a + 1 = n - k
  BY <1>1
<1>4. \A l \in 1 .. n - k : a + l - 1 = l + k
  BY <1>1
<1>5. \A l \in a .. n : s[l] \in S
  BY <1>2
<1> HIDE DEF a, n
<1>6. /\ SubSeq(s, a, n) \in Seq(S)
      /\ Len(SubSeq(s, a, n)) = IF a <= n THEN n - a + 1 ELSE 0
      /\ \A l \in 1 .. n - a + 1 : SubSeq(s, a, n)[l] = s[a + l - 1]
  BY <1>3, <1>5, SubSeqProperties, SMTT(30)
<1>7. r = SubSeq(s, a, n)
  BY DEF a, n
<1>8. Len(r) = n - k
  BY <1>1, <1>3, <1>6, <1>7
<1>9. DOMAIN r = 1 .. n - k
  BY <1>6, <1>7, <1>8, LenProperties
<1>10. \A l \in 1 .. n - k : r[l] = s[l + k]
  BY <1>3, <1>4, <1>6, <1>7
<1> QED BY <1>1, <1>9, <1>10 DEF n

(* recv takes the first messages, which come after what the worker holds.  *)
LEMMA RecvOrder ==
  ASSUME IInv, InOrder, NEW p \in Peers, NEW k \in DOMAIN toServer[p], NEW x, x = Extended(p, k),
         toServer'[p] = SubSeq(toServer[p], k + 1, Len(toServer[p])), sent'[p] = sent[p]
  PROVE  /\ x.upto \in Nat /\ x.upto > 0 /\ x.upto <= sent[p]
         /\ UnreadInOrder(p)'
         /\ UnreadAfter(p, x.upto)'
         /\ \A n : UnreadAfter(p, n) => UnreadAfter(p, n)' /\ n < x.upto
<1>1. toServer[p] \in Seq(Message)
  BY DEF IInv, TypeOK
<1>2. x.upto = toServer[p][k].n /\ x.upto \in Nat /\ x.upto > 0
  BY ExtendedPiece, Numbers DEF IInv
<1>3. /\ DOMAIN toServer[p] = 1 .. Len(toServer[p]) /\ Len(toServer[p]) \in Nat /\ k \in Nat
      /\ \A l \in DOMAIN toServer'[p] :
           /\ l \in Nat /\ l + k \in DOMAIN toServer[p] /\ k < l + k
           /\ toServer'[p][l] = toServer[p][l + k]
  <3>1. /\ DOMAIN toServer[p] = 1 .. Len(toServer[p]) /\ Len(toServer[p]) \in Nat
        /\ k \in 1 .. Len(toServer[p])
        /\ DOMAIN toServer'[p] = 1 .. Len(toServer[p]) - k
        /\ \A l \in 1 .. Len(toServer[p]) - k : toServer'[p][l] = toServer[p][l + k]
    BY <1>1, RestOfSeq
  <3>2. ASSUME NEW l \in DOMAIN toServer'[p]
        PROVE  /\ l \in Nat /\ l + k \in DOMAIN toServer[p] /\ k < l + k
               /\ toServer'[p][l] = toServer[p][l + k]
    <4> DEFINE n == Len(toServer[p])
    <4>1. n \in Nat /\ k \in 1 .. n /\ l \in 1 .. n - k
      BY <3>1
    <4> HIDE DEF n
    <4>2. l \in Nat /\ l + k \in 1 .. n /\ k < l + k
      BY <4>1
    <4>3. l + k \in DOMAIN toServer[p]
      BY <3>1, <4>2 DEF n
    <4>4. toServer'[p][l] = toServer[p][l + k]
      BY <3>1, <4>1 DEF n
    <4> QED BY <4>2, <4>3, <4>4
  <3>3. k \in Nat
    BY <3>1
  <3> QED BY <3>1, <3>2, <3>3
<1>4. \A i \in DOMAIN toServer[p] :
        /\ toServer[p][i].n <= sent[p]
        /\ \A j \in DOMAIN toServer[p] : i < j => toServer[p][i].n < toServer[p][j].n
  BY DEF InOrder, PeerInOrder, UnreadInOrder
<1>5. \A l \in DOMAIN toServer'[p] : x.upto < toServer'[p][l].n
  BY <1>2, <1>3, <1>4
<1>6. UnreadAfter(p, x.upto)'
  BY <1>5 DEF UnreadAfter
<1>7. UnreadInOrder(p)'
  <2> SUFFICES ASSUME NEW l \in DOMAIN toServer'[p]
               PROVE  /\ toServer'[p][l].n <= sent[p]
                      /\ \A y \in DOMAIN toServer'[p] : l < y => toServer'[p][l].n < toServer'[p][y].n
    BY DEF UnreadInOrder
  <2>1. \A y \in DOMAIN toServer'[p] : l < y => l + k < y + k
    BY <1>3
  <2> QED BY <1>3, <1>4, <2>1
<1>8. \A n : UnreadAfter(p, n) => UnreadAfter(p, n)' /\ n < x.upto
  BY <1>2, <1>3 DEF UnreadAfter
<1> QED BY <1>2, <1>4, <1>6, <1>7, <1>8

(* What recv has read stays with the worker or joins the queue. *)
LEMMA ReceiveOrder ==
  ASSUME IInv, InOrder, NEW p \in Peers, Receive(p), NEW q \in Peers
  PROVE  PeerInOrder(q)'
<1>1. PICK k \in DOMAIN toServer[p] :
        /\ HandOver(p, Extended(p, k)) \/ ReceiveMore(p, Extended(p, k))
        /\ toServer' = [toServer EXCEPT ![p] = SubSeq(@, k + 1, Len(@))]
  BY DEF Receive
<1>2. PICK x : x = Extended(p, k)
  OBVIOUS
<1>3. /\ x \in Piece /\ UNCHANGED <<sent, got, outbox, handling>>
      /\ toServer'[p] = SubSeq(toServer[p], k + 1, Len(toServer[p]))
      /\ \A r \in Peers \ {p} : toServer'[r] = toServer[r]
      /\ Serves(p)
  <2>1. x \in Piece
    BY <1>1, <1>2, ExtendedPiece
  <2>2. UNCHANGED <<sent, got, outbox, handling>> /\ Serves(p)
    BY DEF Receive
  <2> QED
    BY <1>1, <2>1, <2>2 DEF IInv, TypeOK
<1>4. /\ x.upto \in Nat /\ x.upto > 0 /\ x.upto <= sent[p]
      /\ UnreadInOrder(p)'
      /\ UnreadAfter(p, x.upto)'
      /\ \A n : UnreadAfter(p, n) => UnreadAfter(p, n)' /\ n < x.upto
  BY <1>2, <1>3, RecvOrder
<1>5. CASE HandOver(p, x)
  BY <1>3, <1>4, <1>5, HandOverOrder DEF HeldAfter
<1>6. CASE ReceiveMore(p, x)
  <2>1. UNCHANGED commands /\ piece'[p] = x /\ \A r \in Peers \ {p} : piece'[r] = piece[r]
    BY <1>6 DEF IInv, TypeOK, ReceiveMore
  <2>2. PeerInOrder(q)
    BY DEF InOrder
  <2>3. CASE q = p
    <3>1. \A n : HeldAfter(p, n) => HeldAfter(p, n)'
      BY <1>4, <2>1 DEF HeldAfter
    <3>2. HeldInOrder(p)'
      <4>1. \A n : n = x.upto => UnreadAfter(p, n)'
        BY <1>4
      <4> QED BY <1>3, <1>4, <2>1, <4>1 DEF HeldInOrder
    <3> QED BY <1>3, <1>4, <2>1, <2>2, <2>3, <3>1, <3>2, WorkerOrder
  <2>4. CASE q # p
    BY <1>3, <2>1, <2>2, <2>4, PeerFrame
  <2> QED BY <2>3, <2>4
<1> QED BY <1>1, <1>2, <1>5, <1>6

(* What was held joins the queue when the connection ends. *)
LEMMA ReceiveEndOrder ==
  ASSUME IInv, InOrder, NEW p \in Peers, ReceiveEnd(p), NEW q \in Peers
  PROVE  PeerInOrder(q)'
<1>1. PICK x : x = piece[p]
  OBVIOUS
<1>2. /\ x \in Piece /\ Serves(p) /\ HandOver(p, x)
      /\ UNCHANGED <<sent, got, outbox, handling, toServer>>
  BY <1>1 DEF IInv, TypeOK, ReceiveEnd, network
<1>3. UnreadInOrder(p) /\ HeldInOrder(p)
  BY DEF InOrder, PeerInOrder
<1>4. UnreadInOrder(p)' /\ \A n : UnreadAfter(p, n) => UnreadAfter(p, n)'
  BY <1>2, <1>3 DEF UnreadInOrder, UnreadAfter
<1>5. x.upto > 0 => x.upto <= sent[p] /\ UnreadAfter(p, x.upto)'
  BY <1>1, <1>3, <1>4 DEF HeldInOrder
<1>6. \A n : HeldAfter(p, n) => UnreadAfter(p, n)' /\ (x.upto > 0 => n < x.upto)
  BY <1>1, <1>4 DEF HeldAfter
<1> QED BY <1>2, <1>4, <1>5, <1>6, HandOverOrder

(* The handler takes the oldest command. *)
LEMMA TakeCommandOrder ==
  ASSUME IInv, InOrder, TakeCommand, NEW p \in Peers
  PROVE  PeerInOrder(p)'
<1>1. commands \in Seq(Command) /\ commands # <<>>
  BY DEF IInv, TypeOK, TakeCommand
<1>2. /\ handling' = commands[1] /\ 1 \in DOMAIN commands /\ DOMAIN commands \subseteq Nat
      /\ \A i \in DOMAIN commands' :
           i \in Nat /\ 1 < i + 1 /\ i + 1 \in DOMAIN commands /\ commands'[i] = commands[i + 1]
  BY <1>1, HeadTailProperties, LenProperties DEF TakeCommand
<1>3. UNCHANGED <<toServer, sent, got, outbox, piece>>
  BY DEF TakeCommand, network, proxies, workers
<1>4. UnreadInOrder(p) /\ HeldInOrder(p) /\ QueuedInOrder(p) /\ AnswersInOrder(p)
  BY DEF InOrder, PeerInOrder
<1>5. UnreadInOrder(p)' /\ HeldInOrder(p)'
  BY <1>3, <1>4 DEF UnreadInOrder, HeldInOrder, UnreadAfter
<1>6. \A n : HeldAfter(p, n) => HeldAfter(p, n)'
  BY <1>3 DEF HeldAfter, UnreadAfter
<1>7. QueuedInOrder(p)'
  <2> SUFFICES ASSUME NEW i \in DOMAIN commands', Asks(commands'[i], p)
               PROVE  /\ commands'[i].upto <= sent[p]
                      /\ \A n : n = commands'[i].upto => HeldAfter(p, n)'
                      /\ \A j \in DOMAIN commands' :
                           i < j /\ Asks(commands'[j], p) => commands'[i].upto < commands'[j].upto
    BY <1>3 DEF QueuedInOrder
  <2>1. /\ commands[i + 1].upto <= sent[p] /\ HeldAfter(p, commands[i + 1].upto)
        /\ \A j \in DOMAIN commands :
             i + 1 < j /\ Asks(commands[j], p) => commands[i + 1].upto < commands[j].upto
    BY <1>2, <1>4 DEF QueuedInOrder
  <2>2. \A j \in DOMAIN commands' : i < j => i + 1 < j + 1
    BY <1>2
  <2> QED
    BY <1>2, <1>3, <1>6, <2>1, <2>2
<1>8. \A n : QueuedAfter(p, n) => HandledAfter(p, n)'
  BY <1>2, <1>6 DEF QueuedAfter, HandledAfter
<1>9. HandledInOrder(p)'
  <2> SUFFICES ASSUME Asks(commands[1], p)
               PROVE  /\ commands[1].upto <= sent[p]
                      /\ \A n : n = commands[1].upto => HeldAfter(p, n)'
                      /\ \A i \in DOMAIN commands' :
                           Asks(commands'[i], p) => commands[1].upto < commands'[i].upto
    BY <1>2, <1>3 DEF HandledInOrder, QueuedAfter
  <2> QED
    BY <1>2, <1>4, <1>6 DEF QueuedInOrder
<1>10. LastAnswered(p)' = LastAnswered(p)
  BY <1>3 DEF LastAnswered
<1>11. AnswersInOrder(p)'
  BY <1>3, <1>4, <1>8, <1>10 DEF AnswersInOrder, AnsweredAfter, HandledAfter
<1> QED
  BY <1>5, <1>7, <1>9, <1>11 DEF PeerInOrder

(* An answer joins the answers that wait, behind all earlier ones. *)
LEMMA PushAnswerOrder ==
  ASSUME IInv, InOrder, PushAnswer, NEW p \in Peers
  PROVE  PeerInOrder(p)'
<1>0. PICK c : c = handling
  OBVIOUS
<1> DEFINE a == [from |-> c.from, upto |-> c.upto]
<1>1. c \in Command /\ c.kind # "blank" /\ target \in Peers
  BY <1>0, Elements DEF IInv, TypeOK, PushAnswer, Answering
<1>2. a \in Reply /\ outbox[p] \in Seq(Reply)
  <2>1. c.from \in Peers /\ c.upto \in 0..MaxCommands /\ c.upto # 0
    BY <1>1 DEF Command
  <2>2. c.upto \in 1..MaxCommands
    BY <2>1, PipelineConstants
  <2> QED
    BY <2>1, <2>2 DEF IInv, TypeOK, Reply
<1>3. UNCHANGED <<toServer, sent, got, commands, piece>> /\ ~Asks(handling', p)
  BY PipelineConstants DEF PushAnswer, network, workers, Nothing, Asks
<1>4. outbox'[p] = outbox[p] \/ outbox'[p] = Append(outbox[p], a)
  BY <1>0 DEF IInv, TypeOK, PushAnswer
<1>5. a.from = handling.from /\ a.upto = handling.upto /\ (a.from = p <=> Asks(handling, p))
  BY <1>0, <1>2 DEF Asks, Reply
<1> HIDE DEF a
<1>6. UnreadInOrder(p) /\ HeldInOrder(p) /\ QueuedInOrder(p) /\ HandledInOrder(p) /\ AnswersInOrder(p)
  BY DEF InOrder, PeerInOrder
<1>7. \A n : QueuedAfter(p, n) => QueuedAfter(p, n)' /\ HandledAfter(p, n)'
  BY <1>3 DEF QueuedAfter, HandledAfter, HeldAfter, UnreadAfter
<1>8. UnreadInOrder(p)' /\ HeldInOrder(p)' /\ QueuedInOrder(p)' /\ HandledInOrder(p)'
  BY <1>3, <1>6, <1>7
  DEF UnreadInOrder, HeldInOrder, QueuedInOrder, HandledInOrder, HeldAfter, UnreadAfter
<1>9. LastAnswered(p)' = LastAnswered(p)
  BY <1>3 DEF LastAnswered
<1>10. CASE outbox'[p] = outbox[p]
  BY <1>3, <1>6, <1>7, <1>8, <1>9, <1>10
  DEF AnswersInOrder, AnsweredAfter, HandledAfter, PeerInOrder
<1>11. CASE outbox'[p] = Append(outbox[p], a)
  <2>1. /\ DOMAIN outbox[p] = 1 .. Len(outbox[p]) /\ Len(outbox[p]) \in Nat
        /\ DOMAIN outbox'[p] = DOMAIN outbox[p] \cup {Len(outbox[p]) + 1}
        /\ \A i \in DOMAIN outbox[p] : outbox'[p][i] = outbox[p][i]
        /\ outbox'[p][Len(outbox[p]) + 1] = a
    <3>1. DOMAIN outbox[p] = 1 .. Len(outbox[p]) /\ Len(outbox[p]) \in Nat
      BY <1>2, LenProperties
    <3>2. /\ outbox'[p] \in Seq(Reply) /\ Len(outbox'[p]) = Len(outbox[p]) + 1
          /\ \A i \in 1 .. Len(outbox[p]) : outbox'[p][i] = outbox[p][i]
          /\ outbox'[p][Len(outbox[p]) + 1] = a
      BY <1>2, <1>11, AppendProperties
    <3>3. DOMAIN outbox'[p] = 1 .. Len(outbox[p]) + 1
      BY <3>2, LenProperties
    <3> QED BY <3>1, <3>2, <3>3
  <2>2. \A n : HandledAfter(p, n) => HandledAfter(p, n)' /\ (a.from = p => n < a.upto)
    BY <1>5, <1>7 DEF HandledAfter
  <2>3. a.from = p => a.upto <= sent[p] /\ HandledAfter(p, a.upto)'
    BY <1>5, <1>6, <1>7 DEF HandledInOrder
  <2>4. \A i \in DOMAIN outbox[p] : outbox[p][i].from = p =>
          /\ outbox[p][i].upto <= sent[p]
          /\ HandledAfter(p, outbox[p][i].upto)
          /\ \A j \in DOMAIN outbox[p] :
               i < j /\ outbox[p][j].from = p => outbox[p][i].upto < outbox[p][j].upto
    BY <1>6 DEF AnswersInOrder
  <2>5. ASSUME NEW i \in DOMAIN outbox'[p], outbox'[p][i].from = p, NEW b, b = outbox'[p][i]
        PROVE  /\ b.upto <= sent[p] /\ HandledAfter(p, b.upto)'
               /\ \A j \in DOMAIN outbox'[p] :
                    i < j /\ outbox'[p][j].from = p => b.upto < outbox'[p][j].upto
    <3>1. CASE i \in DOMAIN outbox[p]
      BY <2>1, <2>2, <2>4, <2>5, <3>1
    <3>2. CASE i = Len(outbox[p]) + 1
      <4>1. b = a /\ \A j \in DOMAIN outbox'[p] : ~(i < j)
        BY <2>1, <2>5, <3>2
      <4> QED BY <2>3, <2>5, <4>1
    <3> QED BY <2>1, <3>1, <3>2
  <2>6. ASSUME NEW n, AnsweredAfter(p, n) PROVE AnsweredAfter(p, n)'
    BY <2>1, <2>2, <2>6 DEF AnsweredAfter
  <2>7. AnswersInOrder(p)'
    <3>1. \A i \in DOMAIN outbox'[p] : outbox'[p][i].from = p =>
            /\ outbox'[p][i].upto <= sent'[p]
            /\ \A n : n = outbox'[p][i].upto => HandledAfter(p, n)'
            /\ \A j \in DOMAIN outbox'[p] :
                 i < j /\ outbox'[p][j].from = p => outbox'[p][i].upto < outbox'[p][j].upto
      BY <1>3, <2>5
    <3>2. PICK n : n = LastAnswered(p)
      OBVIOUS
    <3>3. AnsweredAfter(p, n)' /\ n \in Nat /\ n <= sent'[p]
      BY <1>3, <1>6, <2>6, <3>2 DEF AnswersInOrder
    <3> QED
      BY <1>9, <3>1, <3>2, <3>3 DEF AnswersInOrder
  <2> QED BY <1>8, <2>7 DEF PeerInOrder
<1> QED
  BY <1>4, <1>10, <1>11

(* A set of natural numbers has a least element. *)
LEMMA LeastNatural ==
  ASSUME NEW T \in SUBSET Nat, T # {}
  PROVE  \E n \in T : \A m \in T : n <= m
<1> DEFINE R == OpToRel(<, Nat)
<1>1. IsWellFoundedOn(R, Nat)
  BY NatLessThanWellFounded
<1> HIDE DEF R
<1>2. PICK n \in T : \A m \in T : ~ (<<m, n>> \in R)
  BY <1>1, WFMin
<1>3. \A m \in T : ~(m < n)
  BY <1>2 DEF R, OpToRel
<1> QED BY <1>3

(* Max is what its name says, for a set of indices. *)
LEMMA LargestIndex ==
  ASSUME NEW n \in Nat, NEW T \in SUBSET (1 .. n), T # {}
  PROVE  Max(T) \in T /\ \A m \in T : m <= Max(T)
<1> DEFINE U == {n - m : m \in T}
<1>1. U \in SUBSET Nat /\ U # {}
  OBVIOUS
<1>2. PICK u \in U : \A v \in U : u <= v
  <2> HIDE DEF U
  <2> QED BY <1>1, LeastNatural
<1>3. PICK k \in T : u = n - k
  OBVIOUS
<1>4. \A m \in T : k >= m
  <2> SUFFICES ASSUME NEW m \in T PROVE k >= m
    OBVIOUS
  <2>1. n - k <= n - m
    BY <1>2, <1>3
  <2>2. k \in Nat /\ m \in Nat
    OBVIOUS
  <2> QED BY <2>1, <2>2
<1> HIDE DEF U
<1>5. Max(T) \in T /\ \A m \in T : Max(T) >= m
  BY <1>4 DEF Max
<1> QED BY <1>5

(* The last answer that arrives is the last one answered. *)
LEMMA LastAnsweredAppend ==
  ASSUME NEW p \in Peers, got[p] \in Seq(Reply), NEW a \in Reply, got'[p] = Append(got[p], a)
  PROVE  LastAnswered(p)' = IF a.from = p THEN a.upto ELSE LastAnswered(p)
<1> DEFINE mine == {i \in DOMAIN got[p] : got[p][i].from = p}
           theirs == {i \in DOMAIN got'[p] : got'[p][i].from = p}
           n == Len(got[p])
<1>1. /\ DOMAIN got[p] = 1 .. n /\ n \in Nat
      /\ DOMAIN got'[p] = 1 .. n + 1
      /\ \A i \in 1 .. n : got'[p][i] = got[p][i]
      /\ got'[p][n + 1] = a
  <2>1. DOMAIN got[p] = 1 .. n /\ n \in Nat
    BY LenProperties
  <2>2. /\ got'[p] \in Seq(Reply) /\ Len(got'[p]) = n + 1
        /\ \A i \in 1 .. n : got'[p][i] = got[p][i]
        /\ got'[p][n + 1] = a
    BY AppendProperties
  <2>3. DOMAIN got'[p] = 1 .. n + 1
    BY <2>2, LenProperties
  <2> QED BY <2>1, <2>2, <2>3
<1>2. mine \in SUBSET (1 .. n) /\ theirs = IF a.from = p THEN mine \cup {n + 1} ELSE mine
  BY <1>1
<1>3. LastAnswered(p) = IF mine = {} THEN 0 ELSE got[p][Max(mine)].upto
  BY DEF LastAnswered
<1>4. LastAnswered(p)' = IF theirs = {} THEN 0 ELSE got'[p][Max(theirs)].upto
  BY DEF LastAnswered
<1> HIDE DEF mine, theirs, n
<1>5. CASE a.from = p
  <2>1. Max(theirs) = n + 1
    <3>1. n + 1 \in theirs /\ \A m \in theirs : m \in 1 .. n + 1
      BY <1>1, <1>2, <1>5
    <3>2. \A m \in theirs : n + 1 >= m /\ (m >= n + 1 => m = n + 1)
      BY <1>1, <3>1
    <3> QED BY <3>1, <3>2 DEF Max
  <2>2. theirs # {}
    BY <1>2, <1>5
  <2>3. LastAnswered(p)' = got'[p][n + 1].upto
    BY <1>4, <2>1, <2>2
  <2>4. got'[p][n + 1] = a
    BY <1>1
  <2> QED BY <1>5, <2>3, <2>4
<1>6. CASE a.from # p
  <2>1. mine # {} => Max(mine) \in 1 .. n
    BY <1>1, <1>2, LargestIndex
  <2>2. theirs = mine
    BY <1>2, <1>6
  <2>3. mine # {} => got'[p][Max(mine)] = got[p][Max(mine)]
    BY <1>1, <2>1
  <2>4. CASE mine = {}
    BY <1>3, <1>4, <1>6, <2>2, <2>4
  <2>5. CASE mine # {}
    <3>1. LastAnswered(p) = got[p][Max(mine)].upto
      BY <1>3, <2>5
    <3>2. LastAnswered(p)' = got'[p][Max(mine)].upto
      BY <1>4, <2>2, <2>5
    <3> QED BY <1>6, <2>3, <2>5, <3>1, <3>2
  <2> QED BY <2>4, <2>5
<1> QED BY <1>5, <1>6

(* Answers arrive in the order in which they waited. *)
LEMMA SendAnswerOrder ==
  ASSUME IInv, InOrder, NEW p \in Peers, SendAnswer(p), NEW q \in Peers
  PROVE  PeerInOrder(q)'
<1>0. PICK a : a = Head(outbox[p])
  OBVIOUS
<1>1. outbox[p] \in Seq(Reply) /\ outbox[p] # <<>> /\ got[p] \in Seq(Reply)
  BY DEF IInv, TypeOK, SendAnswer, Sends
<1>2. /\ a \in Reply /\ a = outbox[p][1] /\ 1 \in DOMAIN outbox[p] /\ outbox'[p] = Tail(outbox[p])
      /\ \A i \in DOMAIN outbox'[p] :
           i \in Nat /\ 1 < i + 1 /\ i + 1 \in DOMAIN outbox[p] /\ outbox'[p][i] = outbox[p][i + 1]
  <2>1. outbox'[p] = Tail(outbox[p])
    BY DEF IInv, TypeOK, SendAnswer
  <2> QED BY <1>0, <1>1, <2>1, HeadTailProperties, LenProperties
<1>3. UNCHANGED <<commands, handling, sent, piece>>
  BY DEF SendAnswer, handler
<1>4. PeerInOrder(q)
  BY DEF InOrder
<1>5. toServer'[q] = toServer[q] \/ toServer'[q] = <<>>
  BY DEF IInv, TypeOK, SendAnswer
<1>6. CASE q # p
  <2>1. outbox'[q] = outbox[q] /\ got'[q] = got[q]
    BY <1>6 DEF IInv, TypeOK, SendAnswer
  <2> QED BY <1>3, <1>4, <1>5, <2>1, LossOrder
<1>7. CASE q = p
  <2>1. UnreadInOrder(p) /\ HeldInOrder(p) /\ QueuedInOrder(p) /\ HandledInOrder(p) /\ AnswersInOrder(p)
    BY <1>4, <1>7 DEF PeerInOrder
  <2>2. \A n : HeldAfter(p, n) => HeldAfter(p, n)'
    BY <1>3, <1>5, <1>7 DEF HeldAfter, UnreadAfter
  <2>3. \A n : QueuedAfter(p, n) => QueuedAfter(p, n)'
    BY <1>3, <2>2 DEF QueuedAfter
  <2>4. \A n : HandledAfter(p, n) => HandledAfter(p, n)'
    BY <1>3, <2>3 DEF HandledAfter
  <2>5. UnreadInOrder(p)' /\ HeldInOrder(p)'
    BY <1>3, <1>5, <1>7, <2>1 DEF UnreadInOrder, HeldInOrder, UnreadAfter
  <2>6. QueuedInOrder(p)'
    BY <1>3, <2>1, <2>2 DEF QueuedInOrder
  <2>7. HandledInOrder(p)'
    BY <1>3, <2>1, <2>3 DEF HandledInOrder
  <2>8. \A i \in DOMAIN outbox[p] : outbox[p][i].from = p =>
          /\ outbox[p][i].upto <= sent[p]
          /\ HandledAfter(p, outbox[p][i].upto)
          /\ \A j \in DOMAIN outbox[p] :
               i < j /\ outbox[p][j].from = p => outbox[p][i].upto < outbox[p][j].upto
    BY <2>1 DEF AnswersInOrder
  <2>9. ASSUME NEW i \in DOMAIN outbox'[p], outbox'[p][i].from = p, NEW b, b = outbox'[p][i]
        PROVE  /\ b.upto <= sent'[p] /\ HandledAfter(p, b.upto)'
               /\ \A j \in DOMAIN outbox'[p] :
                    i < j /\ outbox'[p][j].from = p => b.upto < outbox'[p][j].upto
    <3>1. b = outbox[p][i + 1] /\ i + 1 \in DOMAIN outbox[p]
      BY <1>2, <2>9
    <3>2. \A j \in DOMAIN outbox'[p] : i < j => i + 1 < j + 1
      BY <1>2, <2>9
    <3> QED BY <1>2, <1>3, <2>4, <2>8, <2>9, <3>1, <3>2
  <2>10. ASSUME NEW n, n \in Nat, n <= sent'[p], n = LastAnswered(p)', HandledAfter(p, n)',
                \A i \in DOMAIN outbox'[p] : outbox'[p][i].from = p => n < outbox'[p][i].upto
         PROVE  AnswersInOrder(p)'
    <3>1. \A i \in DOMAIN outbox'[p] : outbox'[p][i].from = p =>
            /\ outbox'[p][i].upto <= sent'[p]
            /\ \A m : m = outbox'[p][i].upto => HandledAfter(p, m)'
            /\ \A j \in DOMAIN outbox'[p] :
                 i < j /\ outbox'[p][j].from = p => outbox'[p][i].upto < outbox'[p][j].upto
      BY <2>9
    <3> QED BY <2>10, <3>1 DEF AnswersInOrder, AnsweredAfter
  <2>11. \A n : AnsweredAfter(p, n) =>
           HandledAfter(p, n)' /\ \A i \in DOMAIN outbox'[p] : outbox'[p][i].from = p => n < outbox'[p][i].upto
    BY <1>2, <2>4 DEF AnsweredAfter
  <2>12. PICK n : n = LastAnswered(p)
    OBVIOUS
  <2>13. n \in Nat /\ n <= sent'[p] /\ AnsweredAfter(p, n)
    BY <1>3, <2>1, <2>12 DEF AnswersInOrder
  <2>14. CASE got'[p] = got[p] \/ a.from # p
    <3>1. LastAnswered(p)' = n
      <4>1. CASE got'[p] = got[p]
        BY <2>12, <4>1 DEF LastAnswered
      <4>2. CASE got'[p] # got[p] /\ a.from # p
        <5>1. got'[p] = Append(got[p], a)
          BY <1>0, <4>2 DEF IInv, TypeOK, SendAnswer
        <5> QED BY <1>1, <1>2, <2>12, <4>2, <5>1, LastAnsweredAppend
      <4> QED BY <2>14, <4>1, <4>2
    <3>2. AnswersInOrder(p)'
      BY <2>10, <2>11, <2>13, <3>1
    <3> QED BY <1>7, <2>5, <2>6, <2>7, <3>2 DEF PeerInOrder
  <2>15. CASE got'[p] # got[p] /\ a.from = p
    <3>1. got'[p] = Append(got[p], a)
      BY <1>0, <2>15 DEF IInv, TypeOK, SendAnswer
    <3>2. LastAnswered(p)' = a.upto
      BY <1>1, <1>2, <2>15, <3>1, LastAnsweredAppend
    <3>3. /\ a.upto \in Nat /\ a.upto <= sent'[p] /\ HandledAfter(p, a.upto)
          /\ \A j \in DOMAIN outbox[p] : 1 < j /\ outbox[p][j].from = p => a.upto < outbox[p][j].upto
      BY <1>2, <1>3, <2>8, <2>15, Numbers DEF IInv
    <3>4. \A i \in DOMAIN outbox'[p] : outbox'[p][i].from = p => a.upto < outbox'[p][i].upto
      BY <1>2, <3>3
    <3>5. HandledAfter(p, a.upto)'
      BY <2>4, <3>3
    <3>6. AnswersInOrder(p)'
      BY <2>10, <3>2, <3>3, <3>4, <3>5
    <3> QED BY <1>7, <2>5, <2>6, <2>7, <3>6 DEF PeerInOrder
  <2> QED BY <2>14, <2>15
<1> QED BY <1>6, <1>7

(* Nothing happens on a connection before the server runs. *)
LEMMA SetupIsQuiet ==
  ASSUME IInv, InOrder, [Next]_vars
  PROVE  (server = "setup" => \A p \in Peers : link[p] = "none")'
<1> SUFFICES ASSUME server' = "setup", NEW p \in Peers PROVE link'[p] = "none"
  OBVIOUS
<1>1. CASE \E q \in Peers : PeerStep(q)
  BY <1>1 DEF InOrder, IInv, TypeOK, PeerStep, Connect, SendCommand, StopReading, ReadAgain, Close,
     Reset, Connected
<1>2. CASE \E q \in Peers : ConnectionStep(q)
  <2>1. PICK q \in Peers : ConnectionStep(q)
    BY <1>2
  <2>2. server' = server /\ (link'[p] = link[p] \/ SendAnswer(q))
    BY <2>1 DEF ConnectionStep, Accept, OnConnectionIncoming, Receive, ReceiveEnd, SendWaits,
       SendAnswer, NoticeLoss, OnClientNetError, network
  <2>3. SendAnswer(q) => stage[q] = "serving"
    BY DEF SendAnswer, Sends, Serves
  <2>4. \A r \in Peers : link[r] = "none" => stage[r] = "none"
    BY DEF IInv, LossesAreReal
  <2> QED BY <2>2, <2>3, <2>4 DEF InOrder
<1>3. CASE HandlerStep
  BY <1>3 DEF InOrder, HandlerStep, TakeCommand, ClearNullCommand, SearchForNothing, HandlerHangs,
     LookUpClient, LookUpFails, PushAnswer, PushFails, Dies, network
<1>4. CASE Run \/ StopBegins \/ StopEnds
  BY <1>4 DEF Run, StopBegins, StopEnds
<1>5. CASE UNCHANGED vars
  BY <1>5 DEF InOrder, vars, network
<1> QED
  BY <1>1, <1>2, <1>3, <1>4, <1>5 DEF Next

(* One step of any thread, peer or the network keeps the order. *)
LEMMA NextOrder == ASSUME IInv, InOrder, [Next]_vars PROVE InOrder'
<1> SUFFICES ASSUME NEW q \in Peers PROVE PeerInOrder(q)'
  BY SetupIsQuiet DEF InOrder
<1>0. PeerInOrder(q)
  BY DEF InOrder
<1>1. CASE \E p \in Peers : PeerStep(p)
  <2>1. PICK p \in Peers : PeerStep(p)
    BY <1>1
  <2>2. CASE Connect(p) \/ StopReading(p) \/ ReadAgain(p) \/ Close(p) \/ Reset(p)
    <3>1. UNCHANGED <<commands, handling, outbox, got, sent, piece>>
      BY <2>2 DEF Connect, StopReading, ReadAgain, Close, Reset, proxies, workers, handler
    <3>2. toServer'[q] = toServer[q] \/ toServer'[q] = <<>>
      BY <2>2 DEF IInv, TypeOK, Connect, StopReading, ReadAgain, Close, Reset
    <3> QED BY <1>0, <3>1, <3>2, LossOrder
  <2>3. CASE \E kind \in Kinds : SendCommand(p, kind)
    <3>1. CASE q = p
      BY <2>3, <3>1, SendCommandOrder
    <3>2. CASE q # p
      <4>1. UNCHANGED <<commands, handling>> /\ toServer'[q] = toServer[q] /\ sent'[q] = sent[q]
            /\ outbox'[q] = outbox[q] /\ got'[q] = got[q] /\ piece'[q] = piece[q]
        BY <2>3, <3>2 DEF IInv, TypeOK, SendCommand, proxies, workers, handler
      <4> QED BY <1>0, <4>1, PeerFrame
    <3> QED BY <3>1, <3>2
  <2> QED BY <2>1, <2>2, <2>3 DEF PeerStep
<1>2. CASE \E p \in Peers : ConnectionStep(p)
  <2>1. PICK p \in Peers : ConnectionStep(p)
    BY <1>2
  <2>2. CASE \/ Accept(p) \/ OnConnectionIncoming(p) \/ SendWaits(p) \/ NoticeLoss(p)
             \/ OnClientNetError(p)
    <3>1. UNCHANGED <<commands, handling, toServer, got, sent>>
      BY <2>2 DEF Accept, OnConnectionIncoming, SendWaits, NoticeLoss, OnClientNetError, network,
         handler
    <3>2. outbox'[q] = outbox[q] \/ outbox'[q] = <<>>
      BY <2>2 DEF IInv, TypeOK, Accept, OnConnectionIncoming, SendWaits, NoticeLoss,
         OnClientNetError
    <3>3. piece'[q] = piece[q] \/ piece'[q] = EmptyPiece
      BY <2>2 DEF IInv, TypeOK, Accept, OnConnectionIncoming, SendWaits, NoticeLoss,
         OnClientNetError, workers
    <3> QED BY <1>0, <3>1, <3>2, <3>3, LossOrder
  <2> QED
    BY <2>1, <2>2, ReceiveOrder, ReceiveEndOrder, SendAnswerOrder DEF ConnectionStep
<1>3. CASE HandlerStep
  <2>1. CASE \/ ClearNullCommand \/ SearchForNothing \/ HandlerHangs \/ LookUpClient
             \/ LookUpFails \/ PushFails
    <3>1. UNCHANGED <<commands, handling, toServer, outbox, got, sent, piece>>
      BY <2>1 DEF ClearNullCommand, SearchForNothing, HandlerHangs, LookUpClient, LookUpFails,
         PushFails, Dies, network, proxies, workers, handler
    <3> QED BY <1>0, <3>1, PeerFrame
  <2> QED
    BY <1>3, <2>1, TakeCommandOrder, PushAnswerOrder DEF HandlerStep
<1>4. CASE Run \/ StopBegins \/ StopEnds \/ UNCHANGED vars
  <2>1. UNCHANGED <<commands, handling, toServer, outbox, got, sent, piece>>
    BY <1>4 DEF Run, StopBegins, StopEnds, vars, network, proxies, workers, handler
  <2> QED BY <1>0, <2>1, PeerFrame
<1> QED
  BY <1>1, <1>2, <1>3, <1>4 DEF Next

(* client_networking_base, server: the requests of a client overtake each  *)
(* other nowhere on their way to the answer.                               *)
THEOREM RequestsKeepTheirOrder == Spec => []InOrder
<1>1. Init => IInv /\ InOrder
  BY InitInv, InitOrder
<1>2. IInv /\ InOrder /\ [Next]_vars => (IInv /\ InOrder)'
  BY NextInv, NextOrder
<1>3. IInv /\ InOrder => InOrder
  OBVIOUS
<1> QED BY <1>1, <1>2, <1>3, PTL DEF Spec

-----------------------------------------------------------------------------
(* The server as its clients see it.                                       *)

(* The phases of the clients, for the refinement. *)
phases == [p \in Peers |-> PhaseOf(p)]
lastAnswered == [p \in Peers |-> LastAnswered(p)]

(* A step that no client notices. *)
LEMMA UnnoticedStep ==
  ASSUME NEW p \in Peers, got'[p] = got[p]
  PROVE  LastAnswered(p)' = LastAnswered(p)
  BY DEF LastAnswered

(* A step that changes neither the links nor the life cycle: clients may   *)
(* stall, or go on.                                                        *)
LEMMA TurnStep ==
  ASSUME TypeOK, TypeOK', NEW p \in Peers,
         UNCHANGED <<server, sent, lastAnswered>>,
         link'[p] = link[p] \/ (link[p] \in {"open", "full"} /\ link'[p] \in {"open", "full"}),
         \A q \in Peers \ {p} : PhaseOf(q)' = PhaseOf(q)
  PROVE  Service!Stall \/ Service!Resume(p) \/ UNCHANGED <<phases, sent, lastAnswered>>
<1>1. \/ PhaseOf(p)' = PhaseOf(p)
      \/ PhaseOf(p) = "connected" /\ PhaseOf(p)' = "stalled"
      \/ PhaseOf(p) = "stalled" /\ PhaseOf(p)' = "connected"
  BY DEF PhaseOf, Alive, TypeOK, LinkState
<1>2. CASE PhaseOf(p)' = PhaseOf(p)
  BY <1>2 DEF phases
<1>3. CASE PhaseOf(p) = "connected" /\ PhaseOf(p)' = "stalled"
  <2>1. phases' = [c \in Peers |-> IF c \in {p} /\ phases[c] = "connected" THEN "stalled" ELSE phases[c]]
    BY <1>3 DEF phases
  <2>2. {p} \in SUBSET Peers
    OBVIOUS
  <2> QED BY <2>1, <2>2 DEF phases, lastAnswered, Service!Stall
<1>4. CASE PhaseOf(p) = "stalled" /\ PhaseOf(p)' = "connected"
  <2>1. phases[p] = "stalled" /\ phases' = [phases EXCEPT ![p] = "connected"]
    BY <1>4 DEF phases
  <2> QED BY <2>1 DEF phases, lastAnswered, Service!Resume
<1> QED BY <1>1, <1>2, <1>3, <1>4

(* An answer that arrives at a client is the next one it waits for. *)
LEMMA AnswerStep ==
  ASSUME IInv, InOrder, NEW p \in Peers, SendAnswer(p)
  PROVE  Service!Answer(p) \/ UNCHANGED <<phases, sent, lastAnswered>>
<1>0. PICK a : a = Head(outbox[p])
  OBVIOUS
<1>1. sent' = sent /\ server' = server
  BY DEF SendAnswer
<1>4. call[p] # "recv" /\ call'[p] # "recv" /\ (\A q \in Peers \ {p} : call'[q] = call[q])
      /\ UNCHANGED <<hung, blind>>
  BY DEF IInv, TypeOK, SendAnswer, Sends, handler
<1>2. CASE link[p] = "closed"
  <2>1. link' = [link EXCEPT ![p] = "reset"] /\ UNCHANGED got
    BY <1>2 DEF SendAnswer
  <2>4. \A q \in Peers \ {p} : toServer'[q] = toServer[q]
    BY <1>2 DEF IInv, TypeOK, SendAnswer
  <2>2. phases' = phases
    BY <1>1, <1>2, <1>4, <2>1, <2>4 DEF IInv, TypeOK, phases, PhaseOf, Stalled, Alive
  <2>3. lastAnswered' = lastAnswered
    BY <2>1, UnnoticedStep DEF lastAnswered
  <2> QED BY <1>1, <2>2, <2>3
<1>3. CASE link[p] = "open"
  <2>1. /\ UNCHANGED <<link, toServer>> /\ got' = [got EXCEPT ![p] = Append(@, a)]
        /\ outbox[p] # <<>> /\ server # "dead"
    BY <1>0, <1>3 DEF SendAnswer, Sends, Serves, Alive
  <2>2. phases' = phases /\ PhaseOf(p) \in {"connected", "stalled", "ending"}
    BY <1>1, <1>3, <1>4, <2>1 DEF phases, PhaseOf, Stalled, Alive
  <2>3. /\ outbox[p] \in Seq(Reply) /\ got[p] \in Seq(Reply) /\ got'[p] = Append(got[p], a)
        /\ \A q \in Peers \ {p} : got'[q] = got[q]
    BY <2>1 DEF IInv, TypeOK
  <2>4. a \in Reply /\ a = outbox[p][1] /\ 1 \in DOMAIN outbox[p]
    BY <1>0, <2>1, <2>3, HeadTailProperties, LenProperties
  <2>5. LastAnswered(p)' = IF a.from = p THEN a.upto ELSE LastAnswered(p)
    BY <2>3, <2>4, LastAnsweredAppend
  <2>6. \A q \in Peers \ {p} : LastAnswered(q)' = LastAnswered(q)
    BY <2>3, UnnoticedStep
  <2>7. CASE a.from = p
    <3>1. LastAnswered(p) \in Nat /\ AnsweredAfter(p, LastAnswered(p)) /\ a.upto \in Nat /\ a.upto <= sent[p]
      BY <2>4, <2>7, Numbers DEF IInv, InOrder, PeerInOrder, AnswersInOrder
    <3>2. LastAnswered(p) < a.upto
      BY <2>4, <2>7, <3>1 DEF AnsweredAfter
    <3>3. a.upto \in (lastAnswered[p] + 1) .. sent[p]
      BY <3>1, <3>2, Numbers DEF lastAnswered, IInv
    <3>4. lastAnswered' = [lastAnswered EXCEPT ![p] = a.upto]
      BY <2>5, <2>6, <2>7 DEF lastAnswered
    <3>5. phases[p] \in {"connected", "stalled", "ending"}
      BY <2>2 DEF phases
    <3> QED
      BY <1>1, <2>2, <3>3, <3>4, <3>5 DEF phases, lastAnswered, Service!Answer, Service!AnswerIn,
         Service!Here
  <2>8. CASE a.from # p
    BY <1>1, <2>2, <2>5, <2>6, <2>8 DEF lastAnswered
  <2> QED BY <2>7, <2>8
<1> QED BY <1>2, <1>3 DEF SendAnswer

(* Clients come, ask and go, and read or not. *)
LEMMA ClientStep ==
  ASSUME IInv, InOrder, TypeOK', NEW p \in Peers, PeerStep(p)
  PROVE  \/ Service!Connect(p) \/ Service!Send(p) \/ Service!Leave(p)
         \/ Service!Stall \/ Service!Resume(p)
         \/ UNCHANGED <<phases, sent, lastAnswered>>
<1>1. server' = server /\ lastAnswered' = lastAnswered
  <2>1. server' = server /\ got' = got
    BY DEF PeerStep, Connect, SendCommand, StopReading, ReadAgain, Close, Reset
  <2> QED BY <2>1, UnnoticedStep DEF lastAnswered
<1>2. UNCHANGED <<hung, blind, call>> /\ server # "dead"
  BY DEF PeerStep, Connect, SendCommand, StopReading, ReadAgain, Close, Reset, Alive, proxies,
     workers, handler
<1>3. \A q \in Peers \ {p} : link'[q] = link[q] /\ toServer'[q] = toServer[q]
  BY DEF IInv, TypeOK, PeerStep, Connect, SendCommand, StopReading, ReadAgain, Close, Reset
<1>4. \A q \in Peers \ {p} : PhaseOf(q)' = PhaseOf(q)
  BY <1>1, <1>2, <1>3 DEF PhaseOf, Stalled, Alive
<1>5. TypeOK
  BY DEF IInv
<1>6. CASE Connect(p)
  <2>1. link'[p] = "open" /\ link[p] = "none" /\ sent' = sent /\ server \in {"running", "stopping"}
    BY <1>5, <1>6 DEF Connect, TypeOK
  <2>2. PhaseOf(p) = "new" /\ PhaseOf(p)' \in {"connected", "stalled", "ending"}
    BY <1>1, <2>1 DEF PhaseOf, Alive
  <2>3. phases[p] = "new" /\ phases' = [phases EXCEPT ![p] = PhaseOf(p)']
    BY <1>4, <2>2 DEF phases
  <2>4. \E x \in {"connected", "stalled", "ending"} : phases' = [phases EXCEPT ![p] = x]
    BY <2>2, <2>3
  <2> QED BY <1>1, <2>1, <2>3, <2>4 DEF phases, lastAnswered, Service!Connect, Service!Here
<1>7. CASE \E kind \in Kinds : SendCommand(p, kind)
  <2>1. link' = link /\ link[p] \in {"open", "full"} /\ sent' = [sent EXCEPT ![p] = @ + 1]
    BY <1>7 DEF SendCommand, Connected
  <2>2. toServer'[p] # <<>>
    <3>1. PICK kind \in Kinds : toServer' = [toServer EXCEPT ![p] = Append(@, [n |-> sent[p] + 1, kind |-> kind])]
      BY <1>7 DEF SendCommand
    <3>2. PICK m : toServer'[p] = Append(toServer[p], m)
      BY <1>5, <3>1 DEF TypeOK
    <3>3. toServer[p] \in Seq(Message) /\ toServer'[p] \in Seq(Message)
      BY <1>5 DEF TypeOK
    <3>4. Len(toServer'[p]) = Len(toServer[p]) + 1 /\ Len(toServer[p]) \in Nat
      BY <3>2, <3>3, AppendProperties, LenProperties
    <3> QED BY <3>4, EmptySeq
  <2>3. \/ PhaseOf(p)' = PhaseOf(p) /\ PhaseOf(p) \in {"connected", "stalled", "ending"}
        \/ PhaseOf(p) = "stalled" /\ PhaseOf(p)' = "connected"
    BY <1>1, <1>2, <2>1, <2>2 DEF PhaseOf, Stalled, Alive
  <2>4. /\ phases[p] \in {"connected", "stalled", "ending"}
        /\ phases' = phases \/ (phases[p] = "stalled" /\ phases' = [phases EXCEPT ![p] = "connected"])
    BY <1>4, <2>3 DEF phases
  <2> QED BY <1>1, <2>1, <2>4 DEF phases, lastAnswered, Service!Send, Service!Here
<1>8. CASE StopReading(p) \/ ReadAgain(p)
  <2>1. sent' = sent /\ link[p] \in {"open", "full"} /\ link'[p] \in {"open", "full"}
    BY <1>5, <1>8 DEF StopReading, ReadAgain, TypeOK
  <2> QED BY <1>1, <1>4, <1>5, <2>1, TurnStep
<1>9. CASE Close(p) \/ Reset(p)
  <2>1. link'[p] \in Over /\ link[p] # "none" /\ sent' = sent
    BY <1>5, <1>9 DEF Close, Reset, Connected, Over, TypeOK
  <2>2. PhaseOf(p)' = "gone"
    BY <1>2, <2>1 DEF PhaseOf, Over
  <2>3. CASE PhaseOf(p) = "gone"
    <3>1. phases' = phases
      BY <1>4, <2>2, <2>3 DEF phases
    <3> QED BY <1>1, <2>1, <3>1
  <2>4. CASE PhaseOf(p) # "gone"
    <3>1. PhaseOf(p) \in {"connected", "stalled", "ending"}
      BY <2>1, <2>4 DEF PhaseOf
    <3>2. phases[p] \in {"connected", "stalled", "ending"} /\ phases' = [phases EXCEPT ![p] = "gone"]
      BY <1>4, <2>2, <3>1 DEF phases
    <3> QED BY <1>1, <2>1, <3>2 DEF phases, lastAnswered, Service!Leave, Service!Here
  <2> QED BY <2>3, <2>4
<1> QED BY <1>6, <1>7, <1>8, <1>9 DEF PeerStep

(* The end of the process is the end of every connection. *)
LEMMA DeathStep ==
  ASSUME Dies, server # "dead" PROVE Service!Collapse
<1>1. server' = "dead" /\ UNCHANGED <<link, sent, got>>
  BY DEF Dies, network
<1>2. phases' = [p \in Peers |-> IF phases[p] = "new" THEN "new" ELSE "gone"]
  BY <1>1 DEF phases, PhaseOf, Alive
<1>3. sent' = sent /\ lastAnswered' = lastAnswered
  BY <1>1, UnnoticedStep DEF lastAnswered
<1> QED BY <1>2, <1>3 DEF phases, lastAnswered, Service!Collapse

(* Run, stop: the clients see the beginning of the stop only. *)
LEMMA LifeCycleStep ==
  ASSUME IInv, InOrder, Run \/ StopBegins \/ StopEnds
  PROVE  Service!Shutdown \/ UNCHANGED <<phases, sent, lastAnswered>>
<1>1. UNCHANGED <<link, sent, got, toServer, hung, blind, call>>
  BY DEF Run, StopBegins, StopEnds, network, proxies, workers, handler
<1>2. sent' = sent /\ lastAnswered' = lastAnswered
  BY <1>1, UnnoticedStep DEF lastAnswered
<1>3. CASE Run
  <2>1. phases' = phases
    BY <1>1, <1>3 DEF Run, InOrder, phases, PhaseOf
  <2> QED BY <1>2, <2>1
<1>4. CASE StopBegins
  <2>1. phases' = [p \in Peers |-> IF phases[p] \in {"connected", "stalled", "ending"} THEN "ending"
                                    ELSE phases[p]]
    BY <1>1, <1>4 DEF StopBegins, phases, PhaseOf, Alive
  <2> QED BY <1>2, <2>1 DEF phases, lastAnswered, Service!Shutdown, Service!Here
<1>5. CASE StopEnds
  <2>1. phases' = phases
    BY <1>1, <1>5 DEF StopEnds, phases, PhaseOf, Alive
  <2> QED BY <1>2, <2>1
<1> QED BY <1>3, <1>4, <1>5

(* Every step of the server is one that RequestReply allows, or none. *)
LEMMA ServiceStep ==
  ASSUME IInv, InOrder, [Next]_vars
  PROVE  [Service!Next]_(Service!vars)
<1>0. TypeOK /\ TypeOK'
  BY NextInv DEF IInv
<1>1. CASE \E p \in Peers : PeerStep(p)
  BY <1>0, <1>1, ClientStep DEF phases, lastAnswered, Service!Next, Service!vars
<1>2. CASE \E p \in Peers : ConnectionStep(p)
  <2>1. PICK p \in Peers : ConnectionStep(p)
    BY <1>2
  <2>2. CASE SendAnswer(p)
    BY <2>2, AnswerStep DEF phases, lastAnswered, Service!Next, Service!vars
  <2>3. CASE ~SendAnswer(p)
    <3>1. UNCHANGED <<server, link, sent, got, hung>>
      BY <2>1, <2>3 DEF ConnectionStep, Accept, OnConnectionIncoming, Receive, ReceiveEnd,
         SendWaits, NoticeLoss, OnClientNetError, network, handler
    <3>2. \A q \in Peers \ {p} : toServer'[q] = toServer[q]
      <4>1. DOMAIN toServer = Peers
        BY <1>0 DEF TypeOK
      <4>2. UNCHANGED toServer \/ \E rest : toServer' = [toServer EXCEPT ![p] = rest]
        BY <2>1, <2>3 DEF ConnectionStep, Accept, OnConnectionIncoming, Receive, ReceiveEnd,
           SendWaits, NoticeLoss, OnClientNetError, network
      <4> QED BY <4>1, <4>2
    <3>3. \A q \in Peers \ {p} : call'[q] = call[q] /\ blind'[q] = blind[q]
      <4>1. blind \in [Peers -> SUBSET {"read", "write"}] /\ call \in [Peers -> Calls]
        BY <1>0 DEF TypeOK
      <4>2. \/ UNCHANGED call
            \/ \E c \in {"none", "recv", "send"} : call' = [call EXCEPT ![p] = c]
        BY <2>1, <2>3 DEF ConnectionStep, Accept, OnConnectionIncoming, Receive, HandOver,
           ReceiveMore, ReceiveEnd, SendWaits, NoticeLoss, OnClientNetError, workers
      <4>3. \/ UNCHANGED blind
            \/ \E maps \in SUBSET {"read", "write"} : blind' = [blind EXCEPT ![p] = maps]
        BY <2>1, <2>3 DEF ConnectionStep, Accept, OnConnectionIncoming, Receive, ReceiveEnd,
           SendWaits, NoticeLoss, OnClientNetError, workers
      <4> QED BY <4>1, <4>2, <4>3
    <3>4. \A q \in Peers \ {p} : PhaseOf(q)' = PhaseOf(q)
      BY <3>1, <3>2, <3>3 DEF PhaseOf, Stalled, Alive
    <3>5. lastAnswered' = lastAnswered
      BY <3>1, UnnoticedStep DEF lastAnswered
    <3>6. Service!Stall \/ Service!Resume(p) \/ UNCHANGED <<phases, sent, lastAnswered>>
      BY <1>0, <3>1, <3>4, <3>5, TurnStep
    <3> QED BY <3>6 DEF phases, lastAnswered, Service!Next, Service!vars
  <2> QED BY <2>2, <2>3
<1>3. CASE HandlerStep
  <2>1. CASE Dies /\ server # "dead"
    BY <2>1, DeathStep DEF Service!Next
  <2>2. CASE ~Dies /\ ~HandlerHangs
    <3>1. UNCHANGED <<server, link, sent, got, toServer, hung, blind, call>>
      BY <1>3, <2>2 DEF HandlerStep, TakeCommand, ClearNullCommand, SearchForNothing, LookUpClient,
         LookUpFails, PushAnswer, PushFails, network, proxies, workers
    <3>2. UNCHANGED <<phases, sent, lastAnswered>>
      BY <3>1, UnnoticedStep DEF phases, PhaseOf, Stalled, Alive, lastAnswered
    <3> QED BY <3>2 DEF phases, lastAnswered, Service!vars
  <2>3. CASE HandlerHangs
    <3>1. UNCHANGED <<server, link, sent, got>> /\ hung'
      BY <2>3 DEF HandlerHangs, network
    <3>2. lastAnswered' = lastAnswered
      BY <3>1, UnnoticedStep DEF lastAnswered
    <3>3. \A p \in Peers : PhaseOf(p)' = IF PhaseOf(p) = "connected" THEN "stalled" ELSE PhaseOf(p)
      BY <3>1 DEF PhaseOf, Stalled, Alive
    <3>4. phases' = [p \in Peers |-> IF p \in Peers /\ phases[p] = "connected" THEN "stalled" ELSE phases[p]]
      BY <3>3 DEF phases
    <3>5. Service!Stall
      BY <3>1, <3>2, <3>4 DEF phases, lastAnswered, Service!Stall
    <3> QED BY <3>5 DEF Service!Next
  <2>4. server # "dead"
    BY <1>3 DEF HandlerStep, TakeCommand, ClearNullCommand, SearchForNothing, HandlerHangs,
       LookUpClient, LookUpFails, PushAnswer, PushFails, Answering, Alive
  <2> QED BY <2>1, <2>2, <2>3, <2>4
<1>4. CASE Run \/ StopBegins \/ StopEnds
  BY <1>4, LifeCycleStep DEF phases, lastAnswered, Service!Next, Service!vars
<1>5. CASE UNCHANGED vars
  <2>1. UNCHANGED <<phases, sent, lastAnswered>>
    BY <1>5, UnnoticedStep DEF vars, network, proxies, workers, handler, phases, PhaseOf, Stalled,
       Alive, lastAnswered
  <2> QED BY <2>1 DEF phases, lastAnswered, Service!vars
<1> QED
  BY <1>1, <1>2, <1>3, <1>4, <1>5 DEF Next

(* Before the server runs it has no clients. *)
LEMMA ServiceInit == Init => Service!Init
<1> SUFFICES ASSUME Init PROVE Service!Init
  OBVIOUS
<1>1. phases = [p \in Peers |-> "new"]
  BY DEF Init, phases, PhaseOf
<1>2. lastAnswered = [p \in Peers |-> 0]
  BY DEF Init, lastAnswered, LastAnswered
<1> QED BY <1>1, <1>2 DEF Init, phases, lastAnswered, Service!Init

(* server, client_networking_base: whatever the threads do, a client sees  *)
(* a service that answers its requests in the order in which they were     *)
(* sent, each at most once, none before it was sent and none after it left.*)
THEOREM AnswersInOrderOfRequests == Spec => Service!Init /\ [][Service!Next]_(Service!vars)
<1>1. Init => IInv /\ InOrder /\ Service!Init
  BY InitInv, InitOrder, ServiceInit
<1>2. IInv /\ InOrder /\ [Next]_vars => (IInv /\ InOrder)' /\ [Service!Next]_(Service!vars)
  BY NextInv, NextOrder, ServiceStep
<1> QED BY <1>1, <1>2, PTL DEF Spec
=============================================================================
