---------------------------- MODULE ClientProgram ----------------------------
(***************************************************************************)
(* The console client: main sets it up, runs it and polls is_run; a        *)
(* detached thread reads lines from the console; the worker of             *)
(* client_networking sends them and shows the answers; client::stop is     *)
(* called by the console handler and, on a thread of its own, by the error *)
(* event of the worker.                                                    *)
(***************************************************************************)
EXTENDS Naturals, Sequences

CONSTANTS
  MaxTyped,    (* bound on the lines the user types                        *)
  MaxAnswers   (* bound on the answers the server sends                    *)

ASSUME ClientConstants == MaxTyped \in Nat /\ MaxAnswers \in Nat

VARIABLES
  main,             (* where main is                                       *)
  isClientSetup,
  isClientRunning,
  cancelled,        (* cancellation_flag of the client's own context       *)
  netCancelled,     (* cancellation_flag of client_networking              *)
  input,            (* the detached thread of client::working_context      *)
  worker,           (* the thread of client_networking_base                *)
  looked,           (* it has looked at the flag of its socket             *)
  joined,           (* the worker's std::thread is no longer joinable      *)
  stopper,          (* calls of client::stop: console handler, error event *)
  messagesToSend,
  connection,       (* "closed": in good order by the server; "reset": the *)
                    (* next use of the socket fails                        *)
  inbox,            (* answers in the receive buffer                       *)
  answers,          (* answers sent so far                                 *)
  typed, sent,      (* lines pushed, and lines handed to the socket        *)
  dropped,          (* lines taken from the queue whose send failed        *)
  shown,            (* answers shown to the user                           *)
  missed            (* the error event came before the client ran          *)

working == <<worker, looked>>
flags == <<isClientSetup, isClientRunning, cancelled, netCancelled>>
outside == <<connection, inbox, answers>>
lineVars == <<messagesToSend, typed, sent, dropped>>
vars ==
  <<main, flags, input, working, joined, stopper, lineVars, outside, shown, missed>>

Stoppers == {"console", "error"}

Alive == main \notin {"ended", "died"}

(* A thread is joined once it has ended, and a client that runs is set up. *)
ClientTypeOK ==
  /\ main \in {"setup", "run", "runNetworking", "runFlag", "polling", "ended", "died"}
  /\ input \in {"off", "getline", "loop"}
  /\ worker \in {"off", "loop", "read", "recv", "write", "send", "done"}
  /\ stopper \in [Stoppers -> {"idle", "started", "entered", "join", "clear", "stopped", "refused"}]
  /\ connection \in {"none", "up", "closed", "reset"}
  /\ inbox \in 0 .. answers /\ answers \in 0 .. MaxAnswers /\ shown \in 0 .. answers
  /\ Len(typed) <= MaxTyped /\ Len(dropped) <= 1
  /\ isClientRunning => isClientSetup
  /\ joined => worker = "done"
  /\ worker = "done" => netCancelled

-----------------------------------------------------------------------------
(* main.                                                                   *)

(* client::setup; the error event of a failed connect has no subscriber.   *)
Setup ==
  /\ main = "setup"
  /\ \E result \in BOOLEAN :
       /\ isClientSetup' = result
       /\ connection' = IF result THEN "up" ELSE "none"
  /\ main' = "run"
  /\ UNCHANGED <<isClientRunning, cancelled, netCancelled, input, working, joined, stopper,
                 lineVars, inbox, answers, shown, missed>>

RunRefused ==
  /\ main = "run" /\ (~isClientSetup \/ isClientRunning)
  /\ main' = "polling"
  /\ UNCHANGED <<flags, input, working, joined, stopper, lineVars, outside, shown, missed>>

(* multithread_context<client>::run *)
RunStartsInput ==
  /\ main = "run" /\ isClientSetup /\ ~isClientRunning
  /\ cancelled' = FALSE
  /\ input' = "loop"
  /\ main' = "runNetworking"
  /\ UNCHANGED <<isClientSetup, isClientRunning, netCancelled, working, joined, stopper,
                 lineVars, outside, shown, missed>>

(* networking.run *)
RunStartsWorker ==
  /\ main = "runNetworking"
  /\ netCancelled' = FALSE
  /\ worker' = "loop"
  /\ main' = "runFlag"
  /\ UNCHANGED <<isClientSetup, isClientRunning, cancelled, input, looked, joined, stopper,
                 lineVars, outside, shown, missed>>

RunEnds ==
  /\ main = "runFlag"
  /\ isClientRunning' = TRUE
  /\ main' = "polling"
  /\ UNCHANGED <<isClientSetup, cancelled, netCancelled, input, working, joined, stopper,
                 lineVars, outside, shown, missed>>

(* main leaves its loop; the other threads end with the process. *)
MainEnds ==
  /\ main = "polling" /\ ~isClientRunning
  /\ main' = "ended"
  /\ UNCHANGED <<flags, input, working, joined, stopper, lineVars, outside, shown, missed>>

-----------------------------------------------------------------------------
(* The console thread.                                                     *)

InputLoops ==
  /\ Alive /\ input = "loop"
  /\ input' = IF cancelled THEN "off" ELSE "getline"
  /\ UNCHANGED <<main, flags, working, joined, stopper, lineVars, outside, shown, missed>>

(* getline returns a line, and push_message queues it, whether or not the  *)
(* worker is still there to send it.                                       *)
TypeLine ==
  /\ Alive /\ input = "getline" /\ Len(typed) < MaxTyped
  /\ LET message == Len(typed) + 1 IN
       /\ typed' = Append(typed, message)
       /\ messagesToSend' = Append(messagesToSend, message)
  /\ input' = "loop"
  /\ UNCHANGED <<main, flags, working, joined, stopper, sent, dropped, outside, shown, missed>>

-----------------------------------------------------------------------------
(* The worker: client_networking_base::working_context in a loop.          *)

(* Mutant of MayLeave: the loop ends only when the connection is gone.     *)
MayLeaveOnLoss == netCancelled /\ connection = "reset"

MayLeave == netCancelled

WorkerLeaves ==
  /\ Alive /\ worker = "loop" /\ MayLeave
  /\ worker' = "done"
  /\ UNCHANGED <<main, flags, input, looked, joined, stopper, lineVars, outside, shown, missed>>

(* Mutant of Raise: the loss is only logged. *)
RaiseNothing == stopper' = stopper

(* The error event, not synchronized: its handler, client::stop, runs on a *)
(* new thread.                                                             *)
Raise == stopper' = [stopper EXCEPT !["error"] = "started"]

Lose ==
  /\ netCancelled' = TRUE
  /\ Raise
  /\ worker' = "loop"
  /\ UNCHANGED <<main, isClientSetup, isClientRunning, cancelled, input, looked, joined,
                 outside, shown, missed>>

WorkerFindsLoss ==
  /\ Alive /\ worker = "loop" /\ ~netCancelled /\ connection = "reset"
  /\ Lose
  /\ UNCHANGED lineVars

(* The probe of is_connected, a send of no bytes, also succeeds on a       *)
(* connection that the server has closed.                                  *)
WorkerFindsConnected ==
  /\ Alive /\ worker = "loop" /\ ~netCancelled /\ connection # "reset"
  /\ worker' = "read"
  /\ UNCHANGED <<main, flags, input, looked, joined, stopper, lineVars, outside, shown, missed>>

(* recv takes some of the answers at once.  When they fill the buffer, the *)
(* loop of receive_message goes on; otherwise on_message_received reads    *)
(* them as one response and shows at most the first.                       *)
Receive ==
  /\ Alive /\ worker \in {"read", "recv"} /\ inbox > 0 /\ connection # "reset"
  /\ \E n \in 1 .. inbox : inbox' = inbox - n
  /\ \/ worker' = "recv" /\ shown' = shown
     \/ worker' = "write" /\ shown' \in {shown, shown + 1}
  /\ looked' = TRUE
  /\ UNCHANGED <<main, flags, input, joined, stopper, lineVars, connection, answers, missed>>

(* The first look may find the revents that add_socket has left            *)
(* uninitialized: recv is called though nothing has come.                  *)
FirstReadWaits ==
  /\ Alive /\ worker = "read" /\ ~looked /\ inbox = 0 /\ connection # "reset"
  /\ worker' = "recv" /\ looked' = TRUE
  /\ UNCHANGED <<main, flags, input, joined, stopper, lineVars, outside, shown, missed>>

(* recv returns 0 while receive_message waits: what it has is handled.     *)
ReceiveEnds ==
  /\ Alive /\ worker = "recv" /\ inbox = 0 /\ connection = "closed"
  /\ worker' = "write"
  /\ shown' \in {shown} \cup ({shown + 1} \cap (0 .. answers))
  /\ UNCHANGED <<main, flags, input, looked, joined, stopper, lineVars, outside, missed>>

ReceiveFails ==
  /\ Alive /\ worker \in {"read", "recv"} /\ connection = "reset"
  /\ Lose
  /\ UNCHANGED lineVars

(* The last poll saw nothing to read, or the end of the stream, which is   *)
(* received as an empty message and rejected by the interpreter.           *)
NothingToRead ==
  /\ Alive /\ worker = "read"
  /\ worker' = "write" /\ looked' = TRUE
  /\ UNCHANGED <<main, flags, input, joined, stopper, lineVars, outside, shown, missed>>

(* Mutant of NextMessage: the queue is used as a stack. *)
LastMessage == messagesToSend[Len(messagesToSend)]

NextMessage == Head(messagesToSend)

(* The front of the queue is taken and sent; nobody else takes from the    *)
(* queue, so that it may be taken when send returns.  A peer that has      *)
(* closed answers what it still gets with a reset.                         *)
SendFrom(state) ==
  /\ Alive /\ worker = state /\ messagesToSend # <<>> /\ connection # "reset"
  /\ sent' = Append(sent, NextMessage)
  /\ messagesToSend' = Tail(messagesToSend)
  /\ connection' \in {connection} \cup (IF connection = "closed" THEN {"reset"} ELSE {})
  /\ worker' = "loop"
  /\ UNCHANGED <<main, flags, input, looked, joined, stopper, typed, dropped, inbox, answers,
                 shown, missed>>

SendNext == SendFrom("write")

(* The socket is blocking: send waits while the server does not read.      *)
SendWaits ==
  /\ Alive /\ worker = "write" /\ messagesToSend # <<>> /\ connection # "reset"
  /\ worker' = "send"
  /\ UNCHANGED <<main, flags, input, looked, joined, stopper, lineVars, outside, shown, missed>>

SendFails ==
  /\ Alive /\ worker \in {"write", "send"} /\ messagesToSend # <<>> /\ connection = "reset"
  /\ dropped' = Append(dropped, NextMessage)
  /\ messagesToSend' = Tail(messagesToSend)
  /\ Lose
  /\ UNCHANGED <<typed, sent>>

(* Nothing is queued, or the last poll found no room in the send buffer. *)
NothingSent ==
  /\ Alive /\ worker = "write"
  /\ worker' = "loop"
  /\ UNCHANGED <<main, flags, input, looked, joined, stopper, lineVars, outside, shown, missed>>

-----------------------------------------------------------------------------
(* client::stop.                                                           *)

ConsoleCloses ==
  /\ Alive /\ stopper["console"] = "idle"
  /\ stopper' = [stopper EXCEPT !["console"] = "started"]
  /\ UNCHANGED <<main, flags, input, working, joined, lineVars, outside, shown, missed>>

StopRefused(s) ==
  /\ Alive /\ stopper[s] = "started" /\ (~isClientSetup \/ ~isClientRunning)
  /\ stopper' = [stopper EXCEPT ![s] = "refused"]
  /\ missed' = (missed \/ (s = "error" /\ main = "runFlag"))
  /\ UNCHANGED <<main, flags, input, working, joined, lineVars, outside, shown>>

(* The client's own context has no thread to join: the console thread is   *)
(* detached.                                                               *)
StopEnters(s) ==
  /\ Alive /\ stopper[s] = "started" /\ isClientSetup /\ isClientRunning
  /\ stopper' = [stopper EXCEPT ![s] = "entered"]
  /\ cancelled' = TRUE
  /\ netCancelled' = TRUE
  /\ UNCHANGED <<main, isClientSetup, isClientRunning, input, working, joined, lineVars,
                 outside, shown, missed>>

Joinable == ~joined

StopLooks(s) ==
  /\ Alive /\ stopper[s] = "entered"
  /\ stopper' = [stopper EXCEPT ![s] = IF Joinable THEN "join" ELSE "clear"]
  /\ UNCHANGED <<main, flags, input, working, joined, lineVars, outside, shown, missed>>

WorkerEnded == worker = "done"

StopJoins(s) ==
  /\ Alive /\ stopper[s] = "join" /\ WorkerEnded /\ ~joined
  /\ joined' = TRUE
  /\ stopper' = [stopper EXCEPT ![s] = "clear"]
  /\ UNCHANGED <<main, flags, input, working, lineVars, outside, shown, missed>>

(* Both calls were in join on the same std::thread: the second may find    *)
(* the handle closed, and its exception ends the process, or it returns.   *)
StopJoinsTwice(s) ==
  /\ Alive /\ stopper[s] = "join" /\ joined
  /\ \/ main' = "died" /\ stopper' = stopper
     \/ main' = main /\ stopper' = [stopper EXCEPT ![s] = "clear"]
  /\ UNCHANGED <<flags, input, working, joined, lineVars, outside, shown, missed>>

(* Mutant of Cleared: the flag that main polls is left set.                *)
NotCleared == isClientRunning

Cleared == FALSE

StopEnds(s) ==
  /\ Alive /\ stopper[s] = "clear"
  /\ isClientRunning' = Cleared
  /\ stopper' = [stopper EXCEPT ![s] = "stopped"]
  /\ UNCHANGED <<main, isClientSetup, cancelled, netCancelled, input, working, joined,
                 lineVars, outside, shown, missed>>

(* Once the handler of CTRL_CLOSE has returned, or took too long, Windows  *)
(* ends the process.                                                       *)
ConsoleEnds ==
  /\ Alive /\ stopper["console"] # "idle"
  /\ main' = "ended"
  /\ UNCHANGED <<flags, input, working, joined, stopper, lineVars, outside, shown, missed>>

-----------------------------------------------------------------------------
(* The server and the network.                                             *)

Answer ==
  /\ Alive /\ connection = "up" /\ answers < MaxAnswers
  /\ answers' = answers + 1 /\ inbox' = inbox + 1
  /\ UNCHANGED <<main, flags, input, working, joined, stopper, lineVars, connection,
                 shown, missed>>

(* The server reads again, and a send that waits goes on. *)
ServerReads == SendFrom("send")

ServerCloses ==
  /\ Alive /\ connection = "up"
  /\ connection' = "closed"
  /\ UNCHANGED <<main, flags, input, working, joined, stopper, lineVars, inbox, answers,
                 shown, missed>>

Reset ==
  /\ Alive /\ connection \in {"up", "closed"}
  /\ connection' = "reset" /\ inbox' = 0
  /\ UNCHANGED <<main, flags, input, working, joined, stopper, lineVars, answers,
                 shown, missed>>

-----------------------------------------------------------------------------
Init ==
  /\ main = "setup" /\ isClientSetup = FALSE /\ isClientRunning = FALSE
  /\ cancelled = TRUE /\ netCancelled = TRUE
  /\ input = "off" /\ worker = "off" /\ looked = FALSE /\ joined = FALSE
  /\ stopper = [s \in Stoppers |-> "idle"]
  /\ messagesToSend = <<>> /\ typed = <<>> /\ sent = <<>> /\ dropped = <<>>
  /\ connection = "none" /\ inbox = 0 /\ answers = 0 /\ shown = 0
  /\ missed = FALSE

MainStep == Setup \/ RunRefused \/ RunStartsInput \/ RunStartsWorker \/ RunEnds \/ MainEnds

InputStep == InputLoops \/ TypeLine

WorkerStep ==
  \/ WorkerLeaves \/ WorkerFindsLoss \/ WorkerFindsConnected
  \/ Receive \/ FirstReadWaits \/ ReceiveEnds \/ ReceiveFails \/ NothingToRead
  \/ SendNext \/ SendWaits \/ SendFails \/ NothingSent

StopStep(s) ==
  \/ StopRefused(s) \/ StopEnters(s) \/ StopLooks(s) \/ StopJoins(s)
  \/ StopJoinsTwice(s) \/ StopEnds(s)

Next ==
  \/ MainStep
  \/ InputStep
  \/ WorkerStep
  \/ \E s \in Stoppers : StopStep(s)
  \/ ConsoleCloses
  \/ ConsoleEnds
  \/ Answer
  \/ ServerReads
  \/ ServerCloses
  \/ Reset

(* Threads that can go on do; one that waits in recv or send cannot.  The  *)
(* user, the server and Windows need not do anything.                      *)
Fairness ==
  /\ WF_vars(MainStep)
  /\ WF_vars(WorkerStep)
  /\ \A s \in Stoppers : WF_vars(StopStep(s))

Spec == Init /\ [][Next]_vars /\ Fairness

-----------------------------------------------------------------------------
(* Properties.                                                             *)

(* Lines are sent in the order in which they were typed and none twice; at *)
(* most one was taken from the queue and lost with the connection          *)
(* (client_networking_base.hpp:81-94).                                     *)
LinesKeepTheirOrder == sent \o dropped \o messagesToSend = typed

(* A client that says it runs has a worker, is being stopped, or lost its  *)
(* connection while run had not yet set the flag (client.cpp:32-36): then  *)
(* the one call of stop did nothing and lines are queued for nobody.       *)
RunningClientsWork ==
  (isClientRunning /\ worker = "done") =>
    missed \/ \E s \in Stoppers : stopper[s] \in {"started", "entered", "join", "clear"}

(* All of these: the threads have the flags and states that fit together.  *)
ClientInv == ClientTypeOK /\ LinesKeepTheirOrder /\ RunningClientsWork

(* A client whose connection is reset ends, unless the error event came    *)
(* too early (client_networking_base.hpp:59-66, 101-106; client.cpp:91).   *)
LossEndsTheClient ==
  (connection = "reset" /\ worker # "off") ~> ~Alive \/ missed

(* A call of stop gets past its join, unless the worker waits: in recv, in *)
(* front of an empty socket, because an answer has filled the buffer       *)
(* (networking.cpp:68) or because of the uninitialized flag of its first   *)
(* look (networking_storage.cpp:33); or in send, for a server that does    *)
(* not read (networking.cpp:23).                                           *)
StopsGetPastTheJoin ==
  \A s \in Stoppers :
    stopper[s] = "join" ~>
      \/ ~Alive
      \/ stopper[s] # "join"
      \/ worker = "recv" /\ inbox = 0 /\ connection = "up"
      \/ worker = "send"
=============================================================================
