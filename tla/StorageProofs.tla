--------------------------- MODULE StorageProofs ----------------------------
(***************************************************************************)
(* Proofs about NetworkingStorage, for every value of its constants.       *)
(***************************************************************************)
EXTENDS NetworkingStorage, TLAPS

(* A descriptor is under the key of its socket or all zero. *)
GoodMap(map) ==
  /\ DOMAIN map \subseteq Keys
  /\ \A k \in DOMAIN map : map[k] \in [fd : {k, Zero}, revents : BOOLEAN]

(* What can_do and update_descs do to the fds of a map: none is lost, and  *)
(* those that appear are zero.                                             *)
SameFds(map, new) ==
  /\ DOMAIN map \subseteq DOMAIN new
  /\ \A k \in DOMAIN map : new[k].fd = map[k].fd
  /\ \A k \in DOMAIN new \ DOMAIN map : new[k].fd = Zero

(* A number that was never used has left no trace. *)
UnusedIsUnknown ==
  \A s \in AllSockets : opens[s] = 0 =>
    /\ s \notin open
    /\ \A m \in Maps : s \notin DOMAIN descs[m]
    /\ \A t \in Threads : s \notin copied[t]

(* A worker has a socket, and has ended its update before it reads again. *)
WorkersAreLive ==
  /\ asked \subseteq open
  /\ \A s \in AllSockets :
       /\ pc[s] # "off" \/ upd[s] # "none" => s \in open
       /\ pc[s] = "recv" => upd[s] = "none"

(* Its own update of the read map covers its socket. *)
OwnUpdateCovers ==
  \A s \in Sockets : FirstOfItsNumber(s) /\ upd[s] = "backRead" => s \in copied[s]

(* A positive result about a client that has asked is true, or about to be *)
(* overwritten by the worker itself, or the worker waits for more.         *)
ResultsAreTrue ==
  \A s \in Sockets :
    s \in asked /\ FirstOfItsNumber(s) /\ descs["read"][s].revents =>
      unread[s] > 0 \/ upd[s] \in {"copyRead", "backRead"} \/ pc[s] = "recvMore"

IInv ==
  /\ TypeOK
  /\ ClosedSocketsAreNotPolled
  /\ UnusedIsUnknown
  /\ OpenSocketsArePolled
  /\ WorkersAreLive
  /\ OwnUpdateCovers
  /\ ResultsAreTrue
  /\ RecvDoesNotBlock

-----------------------------------------------------------------------------
(* An entry made by operator[] is good under any key. *)
LEMMA ZeroDescGood == ASSUME NEW k PROVE ZeroDesc \in [fd : {k, Zero}, revents : BOOLEAN]
  BY DEF ZeroDesc

(* What can_do does to a map. *)
LEMMA TakenFacts ==
  ASSUME NEW map, GoodMap(map), NEW s \in Keys
  PROVE  /\ GoodMap(Taken(map, s))
         /\ SameFds(map, Taken(map, s))
         /\ DOMAIN Taken(map, s) = DOMAIN map \cup {s}
         /\ Taken(map, s)[s].revents = FALSE
         /\ \A k \in DOMAIN map : k # s => Taken(map, s)[k] = map[k]
<1> DEFINE new == Taken(map, s)
<1>1. At(map, s) \in [fd : {s, Zero}, revents : BOOLEAN]
  BY ZeroDescGood DEF At, GoodMap
<1>2. DOMAIN new = DOMAIN map \cup {s} /\ new[s] = [At(map, s) EXCEPT !.revents = FALSE]
  BY DEF Taken
<1>3. \A k \in DOMAIN map : k # s => new[k] = map[k]
  BY DEF Taken
<1>4. new[s] \in [fd : {s, Zero}, revents : BOOLEAN] /\ new[s].revents = FALSE
      /\ new[s].fd = At(map, s).fd
  BY <1>1, <1>2
<1> HIDE DEF new
<1>5. GoodMap(new)
  BY <1>2, <1>3, <1>4 DEF GoodMap
<1>6. SameFds(map, new)
  BY <1>2, <1>3, <1>4 DEF SameFds, At, ZeroDesc
<1> QED
  BY <1>2, <1>3, <1>4, <1>5, <1>6 DEF new

(* What the second half of update_descs does to a map. *)
LEMMA WrittenBackFacts ==
  ASSUME NEW map, GoodMap(map), NEW m \in Maps, NEW fds \in SUBSET Keys
  PROVE  /\ GoodMap(WrittenBack(map, m, fds))
         /\ SameFds(map, WrittenBack(map, m, fds))
         /\ \A k \in fds : WrittenBack(map, m, fds)[k].revents = Ready(m, k)
         /\ \A k \in DOMAIN map \ fds : WrittenBack(map, m, fds)[k] = map[k]
         /\ DOMAIN WrittenBack(map, m, fds) = DOMAIN map \cup fds
<1> DEFINE new == WrittenBack(map, m, fds)
<1>1. \A k \in fds : At(map, k) \in [fd : {k, Zero}, revents : BOOLEAN]
  BY ZeroDescGood DEF At, GoodMap
<1>2. /\ DOMAIN new = DOMAIN map \cup fds
      /\ \A k \in fds : new[k] = [At(map, k) EXCEPT !.revents = Ready(m, k)]
  BY DEF WrittenBack
<1>3. \A k \in DOMAIN map \ fds : new[k] = map[k]
  BY DEF WrittenBack
<1>4. \A k : Ready(m, k) \in BOOLEAN
  BY DEF Ready
<1>5. \A k \in fds : /\ new[k] \in [fd : {k, Zero}, revents : BOOLEAN]
                     /\ new[k].revents = Ready(m, k)
                     /\ new[k].fd = At(map, k).fd
  BY <1>1, <1>2, <1>4
<1> HIDE DEF new
<1>6. GoodMap(new)
  BY <1>2, <1>3, <1>5 DEF GoodMap
<1>7. SameFds(map, new)
  BY <1>2, <1>3, <1>5 DEF SameFds, At, ZeroDesc
<1> QED
  BY <1>2, <1>3, <1>5, <1>6, <1>7 DEF new

(* The invariant holds at the start. *)
LEMMA InitInv == Init => IInv
<1> SUFFICES ASSUME Init PROVE IInv
  OBVIOUS
<1>1. TypeOK
  <2>1. /\ opens \in [AllSockets -> 0..MaxOpens] /\ unread \in [AllSockets -> 0..MaxUnread]
        /\ pc \in [AllSockets -> Loop] /\ upd \in [Threads -> Update]
        /\ copied \in [Threads -> SUBSET Keys]
        /\ open \subseteq AllSockets /\ ended \subseteq Sockets /\ deaf \subseteq Sockets
        /\ outgoing \subseteq Sockets /\ asked \subseteq Sockets
    BY StorageConstants DEF Init, Loop, Update, AllSockets
  <2>2. /\ DOMAIN descs = Maps
        /\ \A m \in Maps : DOMAIN descs[m] = {Listener}
              /\ descs[m][Listener] \in [fd : {Listener, Zero}, revents : BOOLEAN]
    BY DEF Init
  <2> QED
    BY <2>1, <2>2 DEF TypeOK, Keys, AllSockets
<1>2. \A m \in Maps : DOMAIN descs[m] = {Listener} /\ descs[m][Listener].fd = Listener
  BY DEF Init
<1>3. ClosedSocketsAreNotPolled /\ UnusedIsUnknown
  BY <1>2 DEF Init, ClosedSocketsAreNotPolled, UnusedIsUnknown
<1>4. OpenSocketsArePolled
  BY <1>2 DEF Init, OpenSocketsArePolled, FirstOfItsNumber, IsPolled
<1>5. WorkersAreLive /\ OwnUpdateCovers /\ ResultsAreTrue /\ RecvDoesNotBlock
  BY StorageConstants DEF Init, WorkersAreLive, OwnUpdateCovers, ResultsAreTrue,
     RecvDoesNotBlock, FirstOfItsNumber, Works, AllSockets, Threads
<1> QED
  BY <1>1, <1>3, <1>4, <1>5 DEF IInv

-----------------------------------------------------------------------------
(* The part of the types that is not about the maps. *)
RestOK ==
  /\ opens \in [AllSockets -> 0..MaxOpens]
  /\ open \subseteq AllSockets
  /\ unread \in [AllSockets -> 0..MaxUnread]
  /\ ended \subseteq Sockets
  /\ deaf \subseteq Sockets
  /\ outgoing \subseteq Sockets
  /\ asked \subseteq Sockets
  /\ pc \in [AllSockets -> Loop]
  /\ upd \in [Threads -> Update]
  /\ copied \in [Threads -> SUBSET Keys]

MapsOK == DOMAIN descs = Maps /\ \A m \in Maps : GoodMap(descs[m])

(* The type invariant is these two. *)
LEMMA TypeParts == TypeOK <=> RestOK /\ MapsOK
  BY DEF TypeOK, RestOK, MapsOK, GoodMap

(* Steps that leave the maps alone. *)
LEMMA MapsFrame ==
  ASSUME IInv, UNCHANGED <<descs, open, opens>>
  PROVE  MapsOK' /\ ClosedSocketsAreNotPolled' /\ OpenSocketsArePolled'
<1>1. MapsOK
  BY TypeParts DEF IInv
<1>2. MapsOK'
  BY <1>1 DEF MapsOK, GoodMap
<1> QED
  BY <1>2 DEF IInv, ClosedSocketsAreNotPolled, OpenSocketsArePolled, FirstOfItsNumber, IsPolled

(* Steps that change one map and lose no fd. *)
LEMMA OneMapFrame ==
  ASSUME IInv, NEW m \in Maps, NEW new, GoodMap(new), SameFds(descs[m], new),
         descs' = [descs EXCEPT ![m] = new], UNCHANGED <<open, opens>>
  PROVE  MapsOK' /\ ClosedSocketsAreNotPolled' /\ OpenSocketsArePolled'
<1>1. MapsOK
  BY TypeParts DEF IInv
<1>2. DOMAIN descs' = Maps /\ descs'[m] = new /\ \A n \in Maps \ {m} : descs'[n] = descs[n]
  BY <1>1 DEF MapsOK
<1>3. MapsOK'
  <2>1. \A n \in Maps : GoodMap(descs'[n])
    BY <1>1, <1>2 DEF MapsOK
  <2> QED
    BY <1>2, <2>1 DEF MapsOK, GoodMap
<1>4. ClosedSocketsAreNotPolled'
  <2> SUFFICES ASSUME NEW n \in Maps, NEW k \in DOMAIN descs'[n], descs'[n][k].fd = k
               PROVE  k \in open \cup {Zero}
    BY DEF ClosedSocketsAreNotPolled
  <2> QED
    BY <1>2 DEF IInv, ClosedSocketsAreNotPolled, SameFds
<1>5. OpenSocketsArePolled'
  BY <1>2 DEF IInv, OpenSocketsArePolled, FirstOfItsNumber, IsPolled, SameFds
<1> QED
  BY <1>3, <1>4, <1>5

(* A first socket has an entry of its own in the read map. *)
LEMMA FirstIsPolled ==
  ASSUME IInv, NEW s \in Sockets, FirstOfItsNumber(s)
  PROVE  s \in DOMAIN descs["read"] /\ descs["read"][s].fd = s
  BY DEF IInv, OpenSocketsArePolled, IsPolled, AllSockets, Maps

-----------------------------------------------------------------------------
(* More to read makes no result false. *)
LEMMA ArriveInv == ASSUME IInv, NEW s \in AllSockets, Arrive(s) PROVE IInv'
<1>1. RestOK'
  BY TypeParts, StorageConstants DEF IInv, RestOK, Arrive, threads
<1>2. MapsOK' /\ ClosedSocketsAreNotPolled' /\ OpenSocketsArePolled'
  BY MapsFrame DEF Arrive
<1>3. UnusedIsUnknown' /\ WorkersAreLive' /\ OwnUpdateCovers'
  BY DEF IInv, Arrive, threads, UnusedIsUnknown, WorkersAreLive, OwnUpdateCovers,
     FirstOfItsNumber
<1>4. \A q \in Sockets : unread[q] > 0 => unread'[q] > 0
  BY TypeParts DEF IInv, RestOK, Arrive, AllSockets
<1>5. ResultsAreTrue' /\ RecvDoesNotBlock'
  BY <1>4 DEF IInv, Arrive, threads, ResultsAreTrue, RecvDoesNotBlock, FirstOfItsNumber, Works
<1>6. TypeOK'
  BY <1>1, <1>2 DEF TypeOK, RestOK, MapsOK, GoodMap
<1> QED
  BY <1>2, <1>3, <1>5, <1>6 DEF IInv

(* What a peer does apart from sending is in none of the parts. *)
LEMMA PeerInv == ASSUME IInv, NEW s \in Sockets, PeerStep(s) PROVE IInv'
<1>1. /\ UNCHANGED <<opens, open, unread, outgoing, asked, descs, threads>>
      /\ ended' \subseteq ended \cup {s} /\ deaf' \subseteq deaf \cup {s}
  BY DEF PeerStep, EndStream, StopReading, ReadAgain
<1>2. RestOK'
  BY <1>1, TypeParts DEF IInv, RestOK, threads
<1>3. MapsOK' /\ ClosedSocketsAreNotPolled' /\ OpenSocketsArePolled'
  BY <1>1, MapsFrame
<1>4. UnusedIsUnknown' /\ WorkersAreLive' /\ OwnUpdateCovers' /\ ResultsAreTrue'
      /\ RecvDoesNotBlock'
  BY <1>1 DEF IInv, threads, UnusedIsUnknown, WorkersAreLive, OwnUpdateCovers,
     ResultsAreTrue, RecvDoesNotBlock, FirstOfItsNumber, Works
<1>5. TypeOK'
  BY <1>2, <1>3 DEF TypeOK, RestOK, MapsOK, GoodMap
<1> QED
  BY <1>3, <1>4, <1>5 DEF IInv

(* The send queue is in none of the parts. *)
LEMMA PushInv == ASSUME IInv, NEW s \in Sockets, Push(s) PROVE IInv'
<1>1. RestOK'
  BY TypeParts DEF IInv, RestOK, Push, peers, threads
<1>2. MapsOK' /\ ClosedSocketsAreNotPolled' /\ OpenSocketsArePolled'
  BY MapsFrame DEF Push
<1>3. UnusedIsUnknown' /\ WorkersAreLive' /\ OwnUpdateCovers'
  BY DEF IInv, Push, peers, threads, UnusedIsUnknown, WorkersAreLive, OwnUpdateCovers,
     FirstOfItsNumber
<1>4. ResultsAreTrue' /\ RecvDoesNotBlock'
  BY DEF IInv, Push, peers, threads, ResultsAreTrue, RecvDoesNotBlock, FirstOfItsNumber, Works
<1>5. TypeOK'
  BY <1>1, <1>2 DEF TypeOK, RestOK, MapsOK, GoodMap
<1> QED
  BY <1>2, <1>3, <1>4, <1>5 DEF IInv

(* A failed accept concerns the listening socket only. *)
LEMMA AcceptNothingInv == ASSUME IInv, AcceptNothing PROVE IInv'
<1>1. RestOK'
  BY TypeParts, StorageConstants DEF IInv, RestOK, AcceptNothing, AllSockets, Loop
<1>2. MapsOK' /\ ClosedSocketsAreNotPolled' /\ OpenSocketsArePolled'
  BY MapsFrame DEF AcceptNothing
<1>3. UnusedIsUnknown' /\ OwnUpdateCovers'
  BY DEF IInv, AcceptNothing, UnusedIsUnknown, OwnUpdateCovers, FirstOfItsNumber
<1>4. WorkersAreLive'
  BY TypeParts DEF IInv, RestOK, AcceptNothing, WorkersAreLive, AllSockets
<1>5. \A q \in Sockets : unread'[q] = unread[q] /\ pc'[q] = pc[q]
  BY TypeParts, StorageConstants DEF IInv, RestOK, AcceptNothing, AllSockets
<1>6. ResultsAreTrue' /\ RecvDoesNotBlock'
  BY <1>5 DEF IInv, AcceptNothing, ResultsAreTrue, RecvDoesNotBlock, FirstOfItsNumber, Works
<1>7. TypeOK'
  BY <1>1, <1>2 DEF TypeOK, RestOK, MapsOK, GoodMap
<1> QED
  BY <1>2, <1>3, <1>4, <1>6, <1>7 DEF IInv

(* receive_message leaves nothing to read, but the worker polls before it  *)
(* asks again, or waits for more.                                          *)
LEMMA ReceptionInv ==
  ASSUME IInv, NEW s \in Sockets,
         Works(s, "recv") \/ Works(s, "recvMore"),
         unread' = [unread EXCEPT ![s] = 0],
         \/ Received(s)
         \/ Goto(s, "recvMore") /\ UNCHANGED <<asked, upd>>,
         UNCHANGED <<opens, open, ended, deaf, outgoing, descs, copied>>
  PROVE  IInv'
<1>0. RestOK /\ s \in AllSockets /\ s \in Threads /\ s \in open
  BY TypeParts DEF IInv, WorkersAreLive, Works, AllSockets, Threads
<1>1. /\ unread' = [unread EXCEPT ![s] = 0]
      /\ \/ /\ asked' = asked \cup {s}
            /\ pc' = [pc EXCEPT ![s] = "canWrite"] /\ upd' = [upd EXCEPT ![s] = "copyRead"]
         \/ pc' = [pc EXCEPT ![s] = "recvMore"] /\ upd' = upd /\ asked' = asked
      /\ pc[s] \in {"recv", "recvMore"} /\ upd[s] = "none"
  BY DEF Received, Goto, AfterTransfer, Works
<1>2. RestOK'
  BY <1>0, <1>1, StorageConstants DEF RestOK, Loop, Update
<1>3. MapsOK' /\ ClosedSocketsAreNotPolled' /\ OpenSocketsArePolled'
  BY MapsFrame
<1>4. UnusedIsUnknown'
  BY DEF IInv, UnusedIsUnknown
<1>5. \A q \in AllSockets \ {s} :
        pc'[q] = pc[q] /\ upd'[q] = upd[q] /\ unread'[q] = unread[q]
        /\ (q \in asked' => q \in asked)
  BY <1>0, <1>1 DEF RestOK, Threads
<1>6. \/ pc'[s] = "canWrite" /\ upd'[s] = "copyRead"
      \/ pc'[s] = "recvMore" /\ upd'[s] = "none"
  BY <1>0, <1>1 DEF RestOK, Threads
<1>7. WorkersAreLive'
  BY <1>0, <1>1, <1>5, <1>6 DEF IInv, WorkersAreLive
<1>8. OwnUpdateCovers'
  BY <1>0, <1>5, <1>6 DEF IInv, OwnUpdateCovers, FirstOfItsNumber, AllSockets
<1>9. ResultsAreTrue' /\ RecvDoesNotBlock'
  <2> SUFFICES ASSUME NEW q \in Sockets, q \in asked', FirstOfItsNumber(q)
               PROVE  /\ descs["read"][q].revents =>
                           \/ unread'[q] > 0 \/ upd'[q] \in {"copyRead", "backRead"}
                           \/ pc'[q] = "recvMore"
                      /\ pc'[q] = "recv" /\ upd'[q] = "none" => unread'[q] > 0
    BY DEF ResultsAreTrue, RecvDoesNotBlock, FirstOfItsNumber, Works
  <2>1. CASE q = s
    BY <1>6, <2>1
  <2>2. CASE q # s
    BY <1>5, <2>2 DEF IInv, ResultsAreTrue, RecvDoesNotBlock, Works, AllSockets
  <2> QED
    BY <2>1, <2>2
<1>10. TypeOK'
  BY <1>2, <1>3 DEF TypeOK, RestOK, MapsOK, GoodMap
<1> QED
  BY <1>3, <1>4, <1>7, <1>8, <1>9, <1>10 DEF IInv

(* What comes and the end of the stream are received alike. *)
LEMMA ReceiveInv == ASSUME IInv, NEW s \in Sockets, Receive(s) \/ ReceiveEnd(s) PROVE IInv'
<1>1. CASE Receive(s)
  BY <1>1, ReceptionInv DEF Receive
<1>2. CASE ReceiveEnd(s)
  <2>1. unread' = [unread EXCEPT ![s] = 0]
    BY <1>2, TypeParts DEF IInv, RestOK, ReceiveEnd, peers, AllSockets
  <2> QED
    BY <1>2, <2>1, ReceptionInv DEF ReceiveEnd, peers
<1> QED
  BY <1>1, <1>2

(* After send the worker polls, too. *)
LEMMA SendInv == ASSUME IInv, NEW s \in Sockets, Send(s) PROVE IInv'
<1>1. RestOK'
  BY TypeParts DEF IInv, RestOK, Send, peers, Goto, AfterTransfer, AllSockets, Threads, Loop, Update
<1>2. MapsOK' /\ ClosedSocketsAreNotPolled' /\ OpenSocketsArePolled'
  BY MapsFrame DEF Send
<1>3. /\ pc' = [pc EXCEPT ![s] = "canRead"] /\ upd' = [upd EXCEPT ![s] = "copyRead"]
      /\ pc[s] = "send"
  BY DEF Send, Goto, AfterTransfer, Works
<1>4. UnusedIsUnknown'
  BY DEF IInv, Send, peers, UnusedIsUnknown
<1>5. WorkersAreLive' /\ OwnUpdateCovers'
  BY <1>3, TypeParts DEF IInv, RestOK, Send, peers, WorkersAreLive, OwnUpdateCovers,
     FirstOfItsNumber, AllSockets, Threads
<1>6. ResultsAreTrue' /\ RecvDoesNotBlock'
  BY <1>3, TypeParts DEF IInv, RestOK, Send, peers, ResultsAreTrue, RecvDoesNotBlock,
     FirstOfItsNumber, Works, AllSockets, Threads
<1>7. TypeOK'
  BY <1>1, <1>2 DEF TypeOK, RestOK, MapsOK, GoodMap
<1> QED
  BY <1>2, <1>4, <1>5, <1>6, <1>7 DEF IInv

(* can_read takes the flag; a worker told to read has something to read. *)
LEMMA CanReadInv == ASSUME IInv, NEW s \in AllSockets, CanRead(s) PROVE IInv'
<1> DEFINE new == Taken(descs["read"], s)
<1>1. GoodMap(descs["read"]) /\ s \in Keys /\ s \in open
  BY TypeParts DEF IInv, MapsOK, Maps, Keys, CanRead, Works, WorkersAreLive
<1>2. /\ GoodMap(new) /\ SameFds(descs["read"], new)
      /\ DOMAIN new = DOMAIN descs["read"] \cup {s}
      /\ new[s].revents = FALSE
      /\ \A k \in DOMAIN descs["read"] : k # s => new[k] = descs["read"][k]
  BY <1>1, TakenFacts
<1>3. descs' = [descs EXCEPT !["read"] = new]
  BY DEF CanRead
<1> HIDE DEF new
<1>4. MapsOK' /\ ClosedSocketsAreNotPolled' /\ OpenSocketsArePolled'
  BY <1>2, <1>3, OneMapFrame DEF CanRead, sockets, peers, Maps
<1>5. /\ descs'["read"] = new /\ descs'["write"] = descs["write"]
      /\ opens[s] # 0
  BY <1>1, <1>3, TypeParts DEF IInv, MapsOK, Maps, UnusedIsUnknown
<1>6. UnusedIsUnknown'
  BY <1>2, <1>5 DEF IInv, UnusedIsUnknown, CanRead, sockets, peers, Maps
<1>7. RestOK'
  BY TypeParts DEF IInv, RestOK, CanRead, Goto, sockets, peers, Loop
<1>8. WorkersAreLive' /\ OwnUpdateCovers'
  BY <1>1, TypeParts DEF IInv, RestOK, CanRead, Goto, Works, sockets, peers, WorkersAreLive,
     OwnUpdateCovers, FirstOfItsNumber
<1>9. ResultsAreTrue'
  <2>1. pc[s] = "canRead" /\ pc' \in [AllSockets -> Loop]
        /\ \A q \in Sockets : pc[q] = "recvMore" => pc'[q] = "recvMore"
    BY <1>7, TypeParts DEF IInv, RestOK, CanRead, Works, Goto, AllSockets
  <2> QED
    BY <1>2, <1>5, <2>1, FirstIsPolled DEF IInv, CanRead, sockets, peers, ResultsAreTrue,
       FirstOfItsNumber
<1>10. RecvDoesNotBlock'
  <2> SUFFICES ASSUME NEW q \in Sockets, q \in asked, pc'[q] = "recv", upd'[q] = "none",
                      FirstOfItsNumber(q)
               PROVE  unread[q] > 0
    BY DEF RecvDoesNotBlock, Works, FirstOfItsNumber, CanRead, sockets, peers
  <2>1. upd[q] = "none"
    BY DEF CanRead
  <2>2. CASE q = s
    <3>1. CanDo("read", s)
      BY <2>2, TypeParts DEF IInv, RestOK, CanRead, Goto, AllSockets
    <3>2. descs["read"][s].revents
      BY <2>2, <3>1, FirstIsPolled DEF CanDo, At
    <3> QED
      BY <2>1, <2>2, <3>2 DEF IInv, ResultsAreTrue, CanRead, Works
  <2>3. CASE q # s
    <3>1. pc[q] = "recv"
      BY <2>3, TypeParts DEF IInv, RestOK, CanRead, Goto, AllSockets
    <3> QED
      BY <2>1, <3>1 DEF IInv, RecvDoesNotBlock, Works
  <2> QED
    BY <2>2, <2>3
<1>11. TypeOK'
  BY <1>4, <1>7 DEF TypeOK, RestOK, MapsOK, GoodMap
<1> QED
  BY <1>4, <1>6, <1>8, <1>9, <1>10, <1>11 DEF IInv

(* can_write does the same to the other map. *)
LEMMA CanWriteInv == ASSUME IInv, NEW s \in Sockets, CanWrite(s) PROVE IInv'
<1> DEFINE new == Taken(descs["write"], s)
<1>1. GoodMap(descs["write"]) /\ s \in Keys /\ s \in open
  BY TypeParts DEF IInv, MapsOK, Maps, Keys, AllSockets, CanWrite, Works, WorkersAreLive
<1>2. /\ GoodMap(new) /\ SameFds(descs["write"], new)
      /\ DOMAIN new = DOMAIN descs["write"] \cup {s}
  BY <1>1, TakenFacts
<1>3. descs' = [descs EXCEPT !["write"] = new]
  BY DEF CanWrite
<1> HIDE DEF new
<1>4. MapsOK' /\ ClosedSocketsAreNotPolled' /\ OpenSocketsArePolled'
  BY <1>2, <1>3, OneMapFrame DEF CanWrite, sockets, peers, Maps
<1>5. /\ descs'["write"] = new /\ descs'["read"] = descs["read"]
      /\ opens[s] # 0
  BY <1>1, <1>3, TypeParts DEF IInv, MapsOK, Maps, UnusedIsUnknown, AllSockets
<1>6. UnusedIsUnknown'
  BY <1>2, <1>5 DEF IInv, UnusedIsUnknown, CanWrite, sockets, peers, Maps
<1>7. RestOK'
  BY TypeParts DEF IInv, RestOK, CanWrite, Goto, sockets, peers, Loop
<1>8. WorkersAreLive' /\ OwnUpdateCovers'
  BY <1>1, TypeParts DEF IInv, RestOK, CanWrite, Goto, Works, sockets, peers, WorkersAreLive,
     OwnUpdateCovers, FirstOfItsNumber
<1>9. ResultsAreTrue'
  <2>1. \A q \in Sockets : pc[q] = "recvMore" => pc'[q] = "recvMore"
    BY TypeParts DEF IInv, RestOK, CanWrite, Works, Goto, AllSockets
  <2> QED
    BY <1>5, <2>1 DEF IInv, CanWrite, sockets, peers, ResultsAreTrue, FirstOfItsNumber
<1>10. RecvDoesNotBlock'
  BY TypeParts DEF IInv, RestOK, CanWrite, Goto, sockets, peers, RecvDoesNotBlock, Works,
     FirstOfItsNumber
<1>11. TypeOK'
  BY <1>4, <1>7 DEF TypeOK, RestOK, MapsOK, GoodMap
<1> QED
  BY <1>4, <1>6, <1>8, <1>9, <1>10, <1>11 DEF IInv

-----------------------------------------------------------------------------
(* The first socket of a number finds no entry and gets its own. *)
LEMMA AcceptInv == ASSUME IInv, NEW s \in Sockets, Accept(s) PROVE IInv'
<1>1. /\ s # Listener /\ s \in AllSockets /\ s \in Keys /\ s # Zero /\ Listener \in AllSockets
      /\ s \notin open /\ Listener \in open
  BY StorageConstants DEF AllSockets, Keys, Accept, IInv, WorkersAreLive
<1>2. RestOK /\ MapsOK
  BY TypeParts DEF IInv
<1>3. RestOK'
  BY <1>1, <1>2, StorageConstants DEF RestOK, Accept, Loop
<1>4. /\ opens'[s] = opens[s] + 1 /\ \A q \in AllSockets : q # s => opens'[q] = opens[q]
      /\ open' = open \cup {s}
      /\ pc'[s] = "canRead" /\ pc'[Listener] = "canRead"
      /\ \A q \in AllSockets \ {s, Listener} : pc'[q] = pc[q] /\ unread'[q] = unread[q]
      /\ upd' = upd /\ copied' = copied /\ asked' = asked /\ s \notin asked /\ opens[s] \in Nat
  BY <1>1, <1>2 DEF IInv, WorkersAreLive, RestOK, Accept
<1>5. /\ DOMAIN descs' = Maps
      /\ \A m \in Maps : DOMAIN descs'[m] = DOMAIN descs[m] \cup {s}
      /\ \A m \in Maps : \A k \in DOMAIN descs[m] : descs'[m][k] = descs[m][k]
      /\ \A m \in Maps : s \notin DOMAIN descs[m] => descs'[m][s] \in [fd : {s}, revents : BOOLEAN]
  BY DEF Accept, Inserted
<1>6. MapsOK'
  <2>1. ASSUME NEW m \in Maps
        PROVE  GoodMap(descs'[m])
    <3>1. DOMAIN descs'[m] \subseteq Keys
      BY <1>1, <1>2, <1>5 DEF MapsOK, GoodMap
    <3>2. ASSUME NEW k \in DOMAIN descs[m]
          PROVE  descs'[m][k] \in [fd : {k, Zero}, revents : BOOLEAN]
      BY <1>2, <1>5 DEF MapsOK, GoodMap
    <3>3. ASSUME s \notin DOMAIN descs[m]
          PROVE  descs'[m][s] \in [fd : {s, Zero}, revents : BOOLEAN]
      <4>1. descs'[m][s] \in [fd : {s}, revents : BOOLEAN]
        BY <1>5, <3>3
      <4> QED
        BY <4>1
    <3> QED
      BY <1>5, <3>1, <3>2, <3>3 DEF GoodMap
  <2> QED
    BY <1>5, <2>1 DEF MapsOK, GoodMap
<1>7. ClosedSocketsAreNotPolled'
  BY <1>4, <1>5 DEF IInv, ClosedSocketsAreNotPolled
<1>8. UnusedIsUnknown'
  BY <1>4, <1>5 DEF IInv, UnusedIsUnknown
<1>9. OpenSocketsArePolled'
  <2> SUFFICES ASSUME NEW q \in AllSockets, q \in open', opens'[q] = 1, NEW m \in Maps
               PROVE  q \in DOMAIN descs'[m] /\ descs'[m][q].fd = q
    BY DEF OpenSocketsArePolled, FirstOfItsNumber, IsPolled
  <2>1. CASE q = s
    <3>1. s \notin DOMAIN descs[m]
      BY <1>1, <1>4, <2>1 DEF IInv, UnusedIsUnknown
    <3> QED
      BY <1>5, <2>1, <3>1
  <2>2. CASE q # s
    BY <1>4, <1>5, <2>2 DEF IInv, OpenSocketsArePolled, FirstOfItsNumber, IsPolled
  <2> QED
    BY <2>1, <2>2
<1>10. WorkersAreLive'
  BY <1>1, <1>4 DEF IInv, WorkersAreLive
<1>11. OwnUpdateCovers'
  BY <1>1, <1>4 DEF IInv, OwnUpdateCovers, WorkersAreLive, FirstOfItsNumber, AllSockets
<1>12. ResultsAreTrue'
  <2> SUFFICES ASSUME NEW q \in Sockets, q \in asked, q \in open', opens'[q] = 1,
                      descs'["read"][q].revents
               PROVE  unread'[q] > 0 \/ upd'[q] \in {"copyRead", "backRead"} \/ pc'[q] = "recvMore"
    BY <1>4 DEF ResultsAreTrue, FirstOfItsNumber
  <2>1. FirstOfItsNumber(q) /\ q \in AllSockets /\ q # Listener /\ q # s
    BY <1>4, StorageConstants DEF FirstOfItsNumber, AllSockets
  <2>2. descs'["read"][q] = descs["read"][q]
    BY <1>5, <2>1, FirstIsPolled DEF Maps
  <2> QED
    BY <1>4, <2>1, <2>2 DEF IInv, ResultsAreTrue
<1>13. RecvDoesNotBlock'
  <2> SUFFICES ASSUME NEW q \in Sockets, q \in asked, Works(q, "recv")', FirstOfItsNumber(q)'
               PROVE  unread'[q] > 0
    BY <1>4 DEF RecvDoesNotBlock
  <2>1. q # s /\ q # Listener /\ q \in AllSockets
    BY <1>4, StorageConstants DEF Works, AllSockets
  <2> QED
    BY <1>4, <2>1 DEF IInv, RecvDoesNotBlock, Works, FirstOfItsNumber
<1>14. TypeOK'
  BY <1>3, <1>6 DEF TypeOK, RestOK, MapsOK, GoodMap
<1> QED
  BY <1>7, <1>8, <1>9, <1>10, <1>11, <1>12, <1>13, <1>14 DEF IInv

(* A closed socket loses its entries, the others keep theirs. *)
LEMMA CloseInv == ASSUME IInv, NEW s \in Sockets, Close(s) PROVE IInv'
<1>1. RestOK /\ MapsOK /\ s \in AllSockets
  BY TypeParts DEF IInv, AllSockets
<1>2. RestOK'
  BY <1>1, StorageConstants DEF RestOK, Close, Loop
<1>3. /\ open' = open \ {s} /\ opens' = opens /\ upd' = upd /\ copied' = copied
      /\ asked' = asked \ {s}
      /\ upd[s] = "none"
      /\ pc'[s] = "off"
      /\ \A q \in AllSockets \ {s} : pc'[q] = pc[q] /\ unread'[q] = unread[q]
  BY <1>1 DEF RestOK, Close
<1>4. /\ DOMAIN descs' = Maps
      /\ \A m \in Maps : DOMAIN descs'[m] = DOMAIN descs[m] \ {s}
      /\ \A m \in Maps : \A k \in DOMAIN descs'[m] : descs'[m][k] = descs[m][k]
  BY DEF Close, Erased, Restrict
<1>5. MapsOK'
  <2>1. \A m \in Maps : GoodMap(descs'[m])
    BY <1>1, <1>4 DEF MapsOK, GoodMap
  <2> QED
    BY <1>4, <2>1 DEF MapsOK, GoodMap
<1>6. ClosedSocketsAreNotPolled' /\ UnusedIsUnknown'
  BY <1>3, <1>4 DEF IInv, ClosedSocketsAreNotPolled, UnusedIsUnknown
<1>7. OpenSocketsArePolled'
  <2> SUFFICES ASSUME NEW q \in AllSockets, FirstOfItsNumber(q)', NEW m \in Maps
               PROVE  q \in DOMAIN descs'[m] /\ descs'[m][q].fd = q
    BY DEF OpenSocketsArePolled, IsPolled
  <2>1. FirstOfItsNumber(q) /\ q # s
    BY <1>3 DEF FirstOfItsNumber
  <2> QED
    BY <1>4, <2>1 DEF IInv, OpenSocketsArePolled, IsPolled
<1>8. WorkersAreLive' /\ OwnUpdateCovers'
  BY <1>3 DEF IInv, WorkersAreLive, OwnUpdateCovers, FirstOfItsNumber
<1>9. ResultsAreTrue' /\ RecvDoesNotBlock'
  <2> SUFFICES ASSUME NEW q \in Sockets, q \in asked, FirstOfItsNumber(q)'
               PROVE  /\ descs'["read"][q].revents =>
                           unread'[q] > 0 \/ upd'[q] \in {"copyRead", "backRead"} \/ pc'[q] = "recvMore"
                      /\ Works(q, "recv")' => unread'[q] > 0
    BY <1>3 DEF ResultsAreTrue, RecvDoesNotBlock
  <2>1. FirstOfItsNumber(q) /\ q # s /\ q \in AllSockets
    BY <1>3 DEF FirstOfItsNumber, AllSockets
  <2>2. descs'["read"][q] = descs["read"][q]
    BY <1>4, <2>1, FirstIsPolled DEF Maps
  <2> QED
    BY <1>3, <2>1, <2>2 DEF IInv, ResultsAreTrue, RecvDoesNotBlock, Works
<1>10. TypeOK'
  BY <1>2, <1>5 DEF TypeOK, RestOK, MapsOK, GoodMap
<1> QED
  BY <1>6, <1>7, <1>8, <1>9, <1>10 DEF IInv

-----------------------------------------------------------------------------
(* The first half of update_descs. *)
LEMMA CopyInv ==
  ASSUME IInv, NEW t \in Threads, NEW m \in Maps, NEW at \in Update, NEW next \in Update,
         Copy(t, m, at, next), at # "none", next # "none",
         at = "copyRead" => next = "backRead",
         next = "backRead" => m = "read",
         at # "backRead"
  PROVE  IInv'
<1> DEFINE fds == {descs[m][k].fd : k \in DOMAIN descs[m]}
<1>1. RestOK /\ MapsOK
  BY TypeParts DEF IInv
<1>2. /\ \A k \in DOMAIN descs[m] : k \in Keys /\ descs[m][k].fd \in {k, Zero}
  BY <1>1 DEF MapsOK, GoodMap
<1>3. fds \subseteq Keys /\ fds \subseteq DOMAIN descs[m] \cup {Zero}
  BY <1>2 DEF Keys
<1>4. /\ copied' = [copied EXCEPT ![t] = fds] /\ upd' = [upd EXCEPT ![t] = next]
      /\ upd[t] = at
      /\ open' = open /\ opens' = opens /\ unread' = unread /\ ended' = ended /\ deaf' = deaf
      /\ outgoing' = outgoing /\ asked' = asked
      /\ descs' = descs /\ pc' = pc
  BY DEF Copy, sockets, peers
<1>5. \A q \in Sockets : FirstOfItsNumber(q) /\ m = "read" => q \in fds
  BY FirstIsPolled
<1> HIDE DEF fds
<1>6. RestOK'
  BY <1>1, <1>3, <1>4 DEF RestOK
<1>7. MapsOK' /\ ClosedSocketsAreNotPolled' /\ OpenSocketsArePolled'
  BY <1>4, MapsFrame
<1>8. UnusedIsUnknown'
  BY <1>1, <1>3, <1>4, StorageConstants DEF IInv, UnusedIsUnknown, RestOK
<1>9. WorkersAreLive'
  BY <1>1, <1>4 DEF IInv, WorkersAreLive, RestOK, Threads
<1>10. OwnUpdateCovers'
  BY <1>1, <1>4, <1>5 DEF IInv, OwnUpdateCovers, FirstOfItsNumber, RestOK
<1>11. ResultsAreTrue'
  <2> SUFFICES ASSUME NEW q \in Sockets, q \in asked, FirstOfItsNumber(q), descs["read"][q].revents,
                      ~(unread[q] > 0)
               PROVE  upd'[q] \in {"copyRead", "backRead"} \/ pc[q] = "recvMore"
    BY <1>4 DEF ResultsAreTrue, FirstOfItsNumber
  <2>1. upd[q] \in {"copyRead", "backRead"} \/ pc[q] = "recvMore"
    BY DEF IInv, ResultsAreTrue
  <2> QED
    BY <1>1, <1>4, <2>1 DEF RestOK
<1>12. RecvDoesNotBlock'
  BY <1>1, <1>4 DEF IInv, RecvDoesNotBlock, Works, FirstOfItsNumber, RestOK, AllSockets, Threads
<1>13. TypeOK'
  BY <1>6, <1>7 DEF TypeOK, RestOK, MapsOK, GoodMap
<1> QED
  BY <1>7, <1>8, <1>9, <1>10, <1>11, <1>12, <1>13 DEF IInv

(* The second half: results are written, zero entries may appear. *)
LEMMA PollAndWriteBackInv ==
  ASSUME IInv, NEW t \in Threads, NEW m \in Maps, NEW at \in Update, NEW next \in Update,
         PollAndWriteBack(t, m, at, next),
         next # "backRead",
         m = "read" <=> at = "backRead",
         at \notin {"none", "copyRead"},
         next = "none" => m = "write"
  PROVE  IInv'
<1> DEFINE new == WrittenBack(descs[m], m, copied[t])
<1>1. RestOK /\ MapsOK /\ GoodMap(descs[m]) /\ copied[t] \in SUBSET Keys
  BY TypeParts DEF IInv, RestOK, MapsOK
<1>2. /\ GoodMap(new) /\ SameFds(descs[m], new)
      /\ \A k \in copied[t] : new[k].revents = Ready(m, k)
      /\ \A k \in DOMAIN descs[m] \ copied[t] : new[k] = descs[m][k]
      /\ DOMAIN new = DOMAIN descs[m] \cup copied[t]
  <2> DEFINE map == descs[m]
             fds == copied[t]
  <2>1. GoodMap(map) /\ fds \in SUBSET Keys
    BY <1>1
  <2> HIDE DEF map, fds
  <2>2. /\ GoodMap(WrittenBack(map, m, fds))
        /\ SameFds(map, WrittenBack(map, m, fds))
        /\ \A k \in fds : WrittenBack(map, m, fds)[k].revents = Ready(m, k)
        /\ \A k \in DOMAIN map \ fds : WrittenBack(map, m, fds)[k] = map[k]
        /\ DOMAIN WrittenBack(map, m, fds) = DOMAIN map \cup fds
    BY <2>1, WrittenBackFacts, Zenon
  <2> QED
    BY <2>2 DEF map, fds
<1>3. /\ descs' = [descs EXCEPT ![m] = new]
      /\ copied' = [copied EXCEPT ![t] = {}] /\ upd' = [upd EXCEPT ![t] = next]
      /\ upd[t] = at
      /\ open' = open /\ opens' = opens /\ unread' = unread /\ ended' = ended /\ deaf' = deaf
      /\ outgoing' = outgoing /\ asked' = asked
      /\ pc' = pc
  BY DEF PollAndWriteBack, sockets, peers
<1> HIDE DEF new
<1>4. MapsOK' /\ ClosedSocketsAreNotPolled' /\ OpenSocketsArePolled'
  BY <1>2, <1>3, OneMapFrame
<1>5. descs'[m] = new /\ \A n \in Maps \ {m} : descs'[n] = descs[n]
  BY <1>1, <1>3 DEF MapsOK
<1>6. RestOK'
  BY <1>1, <1>3 DEF RestOK
<1>7. UnusedIsUnknown'
  BY <1>1, <1>2, <1>3, <1>5 DEF IInv, UnusedIsUnknown, RestOK
<1>8. WorkersAreLive'
  BY <1>1, <1>3 DEF IInv, WorkersAreLive, RestOK, Threads
<1>9. OwnUpdateCovers'
  BY <1>1, <1>3 DEF IInv, OwnUpdateCovers, FirstOfItsNumber, RestOK
<1>10. ResultsAreTrue'
  <2> SUFFICES ASSUME NEW q \in Sockets, q \in asked, FirstOfItsNumber(q), descs'["read"][q].revents,
                      ~(unread[q] > 0)
               PROVE  upd'[q] \in {"copyRead", "backRead"} \/ pc[q] = "recvMore"
    BY <1>3 DEF ResultsAreTrue, FirstOfItsNumber
  <2>1. q \in DOMAIN descs["read"] /\ q \in Threads
    BY FirstIsPolled DEF Threads, AllSockets
  <2>2. CASE m = "read"
    <3>1. q \notin copied[t]
      BY <1>2, <1>5, <2>2 DEF Ready
    <3>2. descs["read"][q].revents
      BY <1>2, <1>5, <2>1, <2>2, <3>1
    <3>3. upd[q] \in {"copyRead", "backRead"} \/ pc[q] = "recvMore"
      BY <3>2 DEF IInv, ResultsAreTrue
    <3>4. q # t
      BY <1>3, <2>2, <3>1, <3>3 DEF IInv, OwnUpdateCovers
    <3> QED
      BY <1>1, <1>3, <3>3, <3>4 DEF RestOK
  <2>3. CASE m # "read"
    <3>1. descs'["read"] = descs["read"]
      BY <1>5, <2>3 DEF Maps
    <3>2. upd[q] \in {"copyRead", "backRead"} \/ pc[q] = "recvMore"
      BY <3>1 DEF IInv, ResultsAreTrue
    <3> QED
      BY <1>1, <1>3, <2>3, <3>2 DEF RestOK
  <2> QED
    BY <2>2, <2>3
<1>11. RecvDoesNotBlock'
  <2> SUFFICES ASSUME NEW q \in Sockets, q \in asked, pc[q] = "recv", upd'[q] = "none",
                      FirstOfItsNumber(q)
               PROVE  unread[q] > 0
    BY <1>3 DEF RecvDoesNotBlock, Works, FirstOfItsNumber
  <2>1. upd[q] = "none"
    BY DEF IInv, WorkersAreLive, AllSockets
  <2> QED
    BY <2>1 DEF IInv, RecvDoesNotBlock, Works
<1>12. TypeOK'
  BY <1>4, <1>6 DEF TypeOK, RestOK, MapsOK, GoodMap
<1> QED
  BY <1>4, <1>7, <1>8, <1>9, <1>10, <1>11, <1>12 DEF IInv

(* All four steps of update, of a worker or the poller. *)
LEMMA UpdateStepInv == ASSUME IInv, NEW t \in Threads, UpdateStep(t) PROVE IInv'
<1>1. CASE Copy(t, "read", "copyRead", "backRead")
  BY <1>1, CopyInv DEF Maps, Update
<1>2. CASE PollAndWriteBack(t, "read", "backRead", "copyWrite")
  BY <1>2, PollAndWriteBackInv DEF Maps, Update
<1>3. CASE Copy(t, "write", "copyWrite", "backWrite")
  BY <1>3, CopyInv DEF Maps, Update
<1>4. CASE PollAndWriteBack(t, "write", "backWrite", AfterUpdate(t))
  <2>1. AfterUpdate(t) \in {"copyRead", "none"}
    BY DEF AfterUpdate
  <2> QED
    BY <1>4, <2>1, PollAndWriteBackInv DEF Maps, Update
<1> QED
  BY <1>1, <1>2, <1>3, <1>4 DEF UpdateStep

(* One step of any thread, peer or the network. *)
LEMMA NextInv == IInv /\ [Next]_vars => IInv'
<1> SUFFICES ASSUME IInv, [Next]_vars PROVE IInv'
  OBVIOUS
<1>1. ASSUME NEW s \in AllSockets, Arrive(s) PROVE IInv'
  BY <1>1, ArriveInv
<1>2. ASSUME NEW s \in Sockets, PeerStep(s) \/ Push(s) \/ Close(s) PROVE IInv'
  BY <1>2, PeerInv, PushInv, CloseInv
<1>3. ASSUME NEW s \in Sockets, WorkerStep(s) PROVE IInv'
  BY <1>3, CanReadInv, ReceiveInv, CanWriteInv, SendInv, UpdateStepInv
     DEF WorkerStep, AllSockets, Threads
<1>4. ASSUME AcceptorStep PROVE IInv'
  BY <1>4, CanReadInv, AcceptInv, AcceptNothingInv DEF AcceptorStep, AllSockets
<1>5. ASSUME PollerStep PROVE IInv'
  BY <1>5, UpdateStepInv DEF PollerStep, Threads
<1>6. CASE UNCHANGED vars
  <2>1. MapsOK' /\ ClosedSocketsAreNotPolled' /\ OpenSocketsArePolled'
    BY <1>6, MapsFrame DEF vars, sockets, peers
  <2> QED
    BY <1>6, <2>1 DEF vars, sockets, peers, threads, IInv, TypeOK, UnusedIsUnknown, WorkersAreLive,
       OwnUpdateCovers, ResultsAreTrue, RecvDoesNotBlock, FirstOfItsNumber, Works
<1> QED
  BY <1>1, <1>2, <1>3, <1>4, <1>5, <1>6 DEF Next

-----------------------------------------------------------------------------
(* In every reachable state the maps, flags and threads are in the shape   *)
(* the other theorems need, whatever order sockets open, close and poll in.*)
THEOREM Invariance == Spec => []IInv
  BY InitInv, NextInv, PTL DEF Spec

(* networking_storage's state keeps its type: an entry is under the number *)
(* of its socket or all zero.                                              *)
THEOREM TypeCorrect == Spec => []TypeOK
<1>1. IInv => TypeOK
  BY DEF IInv
<1> QED
  BY <1>1, Invariance, PTL

(* No write-back of an old copy by any of any number of threads drops a    *)
(* socket from a map (update_descs), the first with its number.            *)
THEOREM SocketsArePolled == Spec => []OpenSocketsArePolled
<1>1. IInv => OpenSocketsArePolled
  BY DEF IInv
<1> QED
  BY <1>1, Invariance, PTL

(* No write-back of an old copy revives the entry of a socket that         *)
(* remove_socket took out.                                                 *)
THEOREM RemovedStayRemoved == Spec => []ClosedSocketsAreNotPolled
<1>1. IInv => ClosedSocketsAreNotPolled
  BY DEF IInv
<1> QED
  BY <1>1, Invariance, PTL

(* A worker of client_networking_base that was told to read finds          *)
(* something, however many threads poll for it with old copies: besides    *)
(* the first recv of a client, only the recv after a full buffer may wait. *)
THEOREM NoBlockingRecv == Spec => []RecvDoesNotBlock
<1>1. IInv => RecvDoesNotBlock
  BY DEF IInv
<1> QED
  BY <1>1, Invariance, PTL
=============================================================================
