----------------------------- MODULE ClientProofs -----------------------------
(***************************************************************************)
(* Proofs about the console client, for any number of lines and answers.   *)
(***************************************************************************)
EXTENDS ClientProgram, SequenceTheorems, TLAPS

-----------------------------------------------------------------------------
(* The inductive invariant.                                                *)

StopStages == {"idle", "started", "entered", "join", "clear", "stopped", "refused"}

Types ==
  /\ main \in {"setup", "run", "runNetworking", "runFlag", "polling", "ended", "died"}
  /\ isClientSetup \in BOOLEAN /\ isClientRunning \in BOOLEAN
  /\ cancelled \in BOOLEAN /\ netCancelled \in BOOLEAN
  /\ input \in {"off", "getline", "loop"}
  /\ worker \in {"off", "loop", "read", "recv", "write", "send", "done"}
  /\ looked \in BOOLEAN
  /\ stopper \in [Stoppers -> StopStages]
  /\ connection \in {"none", "up", "closed", "reset"}
  /\ joined \in BOOLEAN /\ missed \in BOOLEAN

(* What was shown was received, and what was received was sent. *)
AnswersCount ==
  /\ inbox \in Nat /\ answers \in 0 .. MaxAnswers /\ shown \in Nat
  /\ shown + inbox <= answers

(* A line is lost only by a worker that is about to leave. *)
Lines ==
  /\ typed \in Seq(Nat) /\ sent \in Seq(Nat) /\ messagesToSend \in Seq(Nat)
  /\ Len(typed) <= MaxTyped
  /\ \/ dropped = <<>>
     \/ /\ \E line \in Nat : dropped = <<line>>
        /\ netCancelled /\ worker \in {"loop", "done"}
  /\ LinesKeepTheirOrder

BeforeWorker == {"setup", "run", "runNetworking"}

AfterRun == {"polling", "ended", "died"}

Entered(s) == stopper[s] \in {"entered", "join", "clear"}

(* What each thread knows of the others. *)
ThreadsFit ==
  /\ main \in BeforeWorker => worker = "off"
  /\ main \in {"runNetworking", "runFlag"} => isClientSetup
  /\ isClientRunning => isClientSetup /\ main \in AfterRun
  /\ \A s \in Stoppers : Entered(s) \/ stopper[s] = "stopped" => main \in AfterRun
  /\ joined => worker = "done"
  /\ worker = "done" => netCancelled

(* Why the worker has been told to leave. *)
StopHasACause ==
  (worker # "off" /\ netCancelled) =>
    \/ missed
    \/ stopper["error"] = "started"
    \/ \E s \in Stoppers : Entered(s)
    \/ ~isClientRunning /\ main # "runFlag"

IInv == Types /\ AnswersCount /\ Lines /\ ThreadsFit /\ StopHasACause

-----------------------------------------------------------------------------
LEMMA InitInv == Init => IInv
<1> SUFFICES ASSUME Init PROVE IInv
  OBVIOUS
<1>1. Types
  BY DEF Init, Types, StopStages
<1>2. AnswersCount
  BY ClientConstants DEF Init, AnswersCount, ClientConstants
<1>3. Lines
  <2>1. <<>> \o <<>> \o <<>> = <<>>
    OBVIOUS
  <2> QED BY <2>1, ClientConstants DEF Init, Lines, LinesKeepTheirOrder, ClientConstants
<1>4. ThreadsFit /\ StopHasACause
  BY DEF Init, ThreadsFit, Entered, StopHasACause, Stoppers, BeforeWorker, AfterRun
<1> QED BY <1>1, <1>2, <1>3, <1>4 DEF IInv

(* Steps that leave the lines alone, and the flags a lost line depends on. *)
LEMMA LinesFrame ==
  ASSUME IInv, UNCHANGED lineVars,
         dropped = <<>> \/ (netCancelled' /\ worker' \in {"loop", "done"})
  PROVE  Lines'
BY DEF IInv, Lines, LinesKeepTheirOrder, lineVars

LEMMA DroppedType ==
  ASSUME IInv
  PROVE  dropped \in Seq(Nat) /\ Len(dropped) <= 1
<1>1. CASE dropped = <<>>
  BY <1>1
<1>2. ASSUME NEW line \in Nat, dropped = <<line>>
      PROVE  dropped \in Seq(Nat) /\ Len(dropped) <= 1
  <2>1. <<line>> \in Seq(Nat) /\ Len(<<line>>) = 1
    OBVIOUS
  <2> QED BY <2>1, <1>2
<1> QED BY <1>1, <1>2 DEF IInv, Lines

LEMMA LostMeansLeaving ==
  ASSUME IInv
  PROVE  dropped = <<>> \/ (netCancelled /\ worker \in {"loop", "done"})
BY DEF IInv, Lines

LEMMA AnswersFrame ==
  ASSUME IInv, UNCHANGED <<inbox, answers, shown>>
  PROVE  AnswersCount'
BY DEF IInv, AnswersCount

-----------------------------------------------------------------------------
LEMMA MainStepInv == IInv /\ MainStep => IInv'
<1> SUFFICES ASSUME IInv, MainStep PROVE IInv'
  OBVIOUS
<1>1. CASE Setup
  <2>1. worker = "off"
    BY <1>1 DEF Setup, IInv, ThreadsFit, BeforeWorker
  <2>2. Lines'
    BY <1>1, <2>1, LinesFrame, LostMeansLeaving DEF Setup
  <2>3. AnswersCount'
    BY <1>1, AnswersFrame DEF Setup
  <2> QED BY <1>1, <2>1, <2>2, <2>3
        DEF Setup, working, IInv, Types, StopStages, ThreadsFit, StopHasACause, Entered,
            BeforeWorker, AfterRun
<1>2. CASE RunRefused \/ RunStartsInput \/ RunEnds \/ MainEnds
  <2>1. UNCHANGED <<lineVars, netCancelled, worker, inbox, answers, shown>>
    BY <1>2 DEF RunRefused, RunStartsInput, RunEnds, MainEnds, flags, working, outside
  <2>2. Lines'
    BY <2>1, LinesFrame, LostMeansLeaving
  <2>3. AnswersCount'
    BY <2>1, AnswersFrame
  <2>4. CASE RunRefused
    BY <2>2, <2>3, <2>4
       DEF RunRefused, flags, working, outside, IInv, Types, StopStages, ThreadsFit,
           StopHasACause, Entered, BeforeWorker, AfterRun
  <2>5. CASE RunStartsInput
    BY <2>2, <2>3, <2>5
       DEF RunStartsInput, working, outside, IInv, Types, StopStages, ThreadsFit,
           StopHasACause,
           Entered, BeforeWorker, AfterRun
  <2>6. CASE RunEnds
    BY <2>2, <2>3, <2>6
       DEF RunEnds, working, outside, IInv, Types, StopStages, ThreadsFit, StopHasACause,
           Entered, BeforeWorker, AfterRun
  <2>7. CASE MainEnds
    BY <2>2, <2>3, <2>7
       DEF MainEnds, flags, working, outside, IInv, Types, StopStages, ThreadsFit,
           StopHasACause,
           Entered, BeforeWorker, AfterRun
  <2> QED BY <1>2, <2>4, <2>5, <2>6, <2>7
<1>3. CASE RunStartsWorker
  <2>1. worker = "off"
    BY <1>3 DEF RunStartsWorker, IInv, ThreadsFit, BeforeWorker
  <2>2. Lines'
    BY <1>3, <2>1, LinesFrame, LostMeansLeaving DEF RunStartsWorker
  <2>3. AnswersCount'
    BY <1>3, AnswersFrame DEF RunStartsWorker, working, outside
  <2> QED BY <1>3, <2>1, <2>2, <2>3
        DEF RunStartsWorker, working, outside, IInv, Types, StopStages, ThreadsFit,
            StopHasACause, Entered, BeforeWorker, AfterRun
<1> QED BY <1>1, <1>2, <1>3 DEF MainStep

LEMMA QueueGrows ==
  ASSUME NEW s \in Seq(Nat), NEW t \in Seq(Nat), NEW line \in Nat
  PROVE  s \o Append(t, line) = Append(s \o t, line)
OBVIOUS

LEMMA InputStepInv == IInv /\ InputStep => IInv'
<1> SUFFICES ASSUME IInv, InputStep PROVE IInv'
  OBVIOUS
<1>1. AnswersCount'
  BY AnswersFrame DEF InputStep, InputLoops, TypeLine, working, outside
<1>2. CASE InputLoops
  <2>1. Lines'
    BY <1>2, LinesFrame, LostMeansLeaving DEF InputLoops, flags, working
  <2> QED BY <1>1, <1>2, <2>1 DEF InputLoops, flags, working, outside,
                                  IInv, Types, StopStages, ThreadsFit, StopHasACause,
                                  Entered, BeforeWorker, AfterRun
<1>3. CASE TypeLine
  <2> DEFINE line == Len(typed) + 1
  <2>1. line \in Nat /\ Len(typed) < MaxTyped
    BY <1>3 DEF TypeLine, IInv, Lines
  <2>2. typed' = Append(typed, line) /\ messagesToSend' = Append(messagesToSend, line)
    BY <1>3 DEF TypeLine
  <2>3. UNCHANGED <<sent, dropped, netCancelled, worker>>
    BY <1>3 DEF TypeLine, flags, working
  <2>4. sent \o dropped \in Seq(Nat) /\ messagesToSend \in Seq(Nat)
    BY DroppedType DEF IInv, Lines
  <2>5. LinesKeepTheirOrder'
    <3>1. sent \o dropped \o Append(messagesToSend, line)
            = Append(sent \o dropped \o messagesToSend, line)
      BY <2>1, <2>4, QueueGrows
    <3> QED BY <3>1, <2>2, <2>3 DEF IInv, Lines, LinesKeepTheirOrder
  <2>6. typed' \in Seq(Nat) /\ messagesToSend' \in Seq(Nat) /\ Len(typed') = line
    BY <2>1, <2>2 DEF IInv, Lines
  <2>7. Lines'
    BY <2>1, <2>3, <2>5, <2>6, ClientConstants DEF IInv, Lines, ClientConstants
  <2> QED BY <1>1, <1>3, <2>7
        DEF TypeLine, flags, working, outside, IInv, Types, StopStages, ThreadsFit,
            StopHasACause, Entered, BeforeWorker, AfterRun
<1> QED BY <1>2, <1>3 DEF InputStep

-----------------------------------------------------------------------------
(* A worker that notices the loss leaves, and somebody will stop. *)
LEMMA LoseInv ==
  ASSUME IInv, Lose, worker # "off", worker # "done", Lines'
  PROVE  IInv'
<1>1. AnswersCount'
  BY AnswersFrame DEF Lose, working, outside
<1>2. /\ stopper' \in [Stoppers -> StopStages]
      /\ stopper'["error"] = "started"
      /\ \A s \in Stoppers : stopper'[s] \in {"started", stopper[s]}
  BY DEF Lose, Raise, Stoppers, StopStages, IInv, Types
<1> QED BY <1>1, <1>2
      DEF Lose, working, outside, IInv, Types, StopStages, ThreadsFit, StopHasACause,
          Entered,
          BeforeWorker, AfterRun

LEMMA FrontOfQueue ==
  ASSUME NEW t \in Seq(Nat), t # <<>>
  PROVE  Head(t) \in Nat /\ Tail(t) \in Seq(Nat) /\ t = <<Head(t)>> \o Tail(t)
OBVIOUS

LEMMA SentFromFront ==
  ASSUME NEW s \in Seq(Nat), NEW t \in Seq(Nat), NEW line \in Nat
  PROVE  Append(s, line) \o <<>> \o t = s \o (<<line>> \o t)
OBVIOUS

(* The worker goes on to another place of its loop. *)
Elsewhere ==
  /\ worker \in {"loop", "read", "recv", "write", "send"}
  /\ worker' \in {"loop", "read", "recv", "write", "send"}
  /\ looked' \in BOOLEAN
  /\ UNCHANGED <<main, flags, input, joined, stopper, connection, missed>>

LEMMA WorkerMoves == ASSUME IInv, Elsewhere, Lines', AnswersCount' PROVE IInv'
<1>1. Types'
  BY DEF Elsewhere, flags, IInv, Types
<1>2. ThreadsFit' /\ StopHasACause'
  BY DEF Elsewhere, flags, IInv, ThreadsFit, StopHasACause, Entered, BeforeWorker, AfterRun
<1> QED BY <1>1, <1>2 DEF IInv

LEMMA WorkerStepInv == IInv /\ (WorkerStep \/ ServerReads) => IInv'
<1> SUFFICES ASSUME IInv, WorkerStep \/ ServerReads PROVE IInv'
  OBVIOUS
<1>1. CASE WorkerLeaves
  <2>1. Lines'
    BY <1>1, LinesFrame, LostMeansLeaving DEF WorkerLeaves, MayLeave, flags
  <2>2. AnswersCount'
    BY <1>1, AnswersFrame DEF WorkerLeaves, working, outside
  <2> QED BY <1>1, <2>1, <2>2
          DEF WorkerLeaves, MayLeave, flags, working, outside, IInv, Types, StopStages,
              ThreadsFit, StopHasACause, Entered,
              BeforeWorker, AfterRun
<1>2. CASE WorkerFindsLoss \/ ReceiveFails
  <2>1. Lines'
    BY <1>2, LinesFrame DEF WorkerFindsLoss, ReceiveFails, Lose
  <2> QED BY <1>2, <2>1, LoseInv DEF WorkerFindsLoss, ReceiveFails
<1>3. CASE WorkerFindsConnected \/ FirstReadWaits \/ NothingToRead \/ SendWaits \/ NothingSent
  <2> USE DEF FirstReadWaits, SendWaits
  <2>1. dropped = <<>> \/ (netCancelled' /\ worker' \in {"loop", "done"})
    BY <1>3, LostMeansLeaving DEF WorkerFindsConnected, NothingToRead, NothingSent, flags
  <2>2. Lines'
    BY <1>3, <2>1, LinesFrame DEF WorkerFindsConnected, NothingToRead, NothingSent
  <2>3. AnswersCount'
    BY <1>3, AnswersFrame DEF WorkerFindsConnected, NothingToRead, NothingSent, working,
                              outside
  <2>4. Elsewhere
    BY <1>3 DEF WorkerFindsConnected, NothingToRead, NothingSent, flags, working, outside,
                IInv, Types, Elsewhere
  <2> QED BY <2>2, <2>3, <2>4, WorkerMoves
<1>4. CASE Receive \/ ReceiveEnds
  <2>1. dropped = <<>>
    BY <1>4, LostMeansLeaving DEF Receive, ReceiveEnds
  <2>2. Lines'
    BY <1>4, <2>1, LinesFrame DEF Receive, ReceiveEnds
  <2>3. AnswersCount'
    <3>1. CASE Receive
      BY <3>1, ClientConstants DEF Receive, IInv, AnswersCount, ClientConstants
    <3>2. CASE ReceiveEnds
      <4>1. inbox = 0 /\ inbox' = 0 /\ answers' = answers
        BY <3>2 DEF ReceiveEnds, working, outside
      <4>2. shown' = shown \/ shown' \in 0 .. answers
        BY <3>2 DEF ReceiveEnds
      <4> QED BY <4>1, <4>2, ClientConstants DEF IInv, AnswersCount, ClientConstants
    <3> QED BY <1>4, <3>1, <3>2
  <2>4. Elsewhere
    BY <1>4 DEF Receive, ReceiveEnds, flags, working, outside, IInv, Types, Elsewhere
  <2> QED BY <2>2, <2>3, <2>4, WorkerMoves
<1>5. ASSUME worker \in {"write", "send"}, messagesToSend # <<>>
      PROVE  /\ dropped = <<>>
             /\ sent \in Seq(Nat)
             /\ NextMessage \in Nat /\ Tail(messagesToSend) \in Seq(Nat)
             /\ messagesToSend = <<NextMessage>> \o Tail(messagesToSend)
             /\ typed = sent \o messagesToSend
  <2>1. dropped = <<>> /\ sent \in Seq(Nat) /\ messagesToSend \in Seq(Nat)
    BY <1>5, LostMeansLeaving DEF IInv, Lines
  <2>2. sent \o <<>> = sent
    BY <2>1
  <2> QED BY <1>5, <2>1, <2>2, FrontOfQueue
        DEF IInv, Lines, LinesKeepTheirOrder, NextMessage
<1>6. ASSUME NEW state \in {"write", "send"}, SendFrom(state)
      PROVE  IInv'
  <2> DEFINE line == NextMessage
             rest == Tail(messagesToSend)
  <2>1. sent' = Append(sent, line) /\ messagesToSend' = rest /\ UNCHANGED <<typed, dropped>>
    BY <1>6 DEF SendFrom
  <2>2. worker \in {"write", "send"} /\ messagesToSend # <<>>
    BY <1>6 DEF SendFrom
  <2>3. /\ dropped = <<>> /\ sent \in Seq(Nat) /\ line \in Nat /\ rest \in Seq(Nat)
        /\ messagesToSend = <<line>> \o rest /\ typed = sent \o messagesToSend
    BY <1>5, <2>2
  <2> HIDE DEF line, rest
  <2>4. Append(sent, line) \o <<>> \o rest = sent \o (<<line>> \o rest)
    BY <2>3, SentFromFront
  <2>5. Lines'
    BY <2>1, <2>3, <2>4 DEF IInv, Lines, LinesKeepTheirOrder
  <2>6. AnswersCount'
    BY <1>6, AnswersFrame DEF SendFrom
  <2> QED BY <1>6, <2>5, <2>6
          DEF SendFrom, flags, IInv, Types, StopStages, ThreadsFit, StopHasACause,
              Entered, BeforeWorker, AfterRun
<1>7. CASE SendFails
  <2> DEFINE line == NextMessage
             rest == Tail(messagesToSend)
  <2>1. dropped' = Append(dropped, line) /\ messagesToSend' = rest /\ UNCHANGED <<typed,
  sent>>
    BY <1>7 DEF SendFails
  <2>2. worker \in {"write", "send"} /\ messagesToSend # <<>> /\ Lose
    BY <1>7 DEF SendFails
  <2>3. /\ dropped = <<>> /\ sent \in Seq(Nat) /\ line \in Nat /\ rest \in Seq(Nat)
        /\ messagesToSend = <<line>> \o rest /\ typed = sent \o messagesToSend
    BY <1>5, <2>2
  <2> HIDE DEF line, rest
  <2>4. sent \o <<line>> \o rest = sent \o (<<line>> \o rest)
    BY <2>3
  <2>5. dropped' = <<line>>
    BY <2>1, <2>3
  <2>6. Lines'
    BY <2>1, <2>2, <2>3, <2>4, <2>5 DEF IInv, Lines, LinesKeepTheirOrder, Lose
  <2> QED BY <2>2, <2>6, LoseInv
<1> QED BY <1>1, <1>2, <1>3, <1>4, <1>6, <1>7 DEF WorkerStep, SendNext, ServerReads

-----------------------------------------------------------------------------
(* What a call of stop changes: nothing of the worker, its lines and what  *)
(* it has received.                                                        *)
LEMMA StopFrame ==
  ASSUME IInv, NEW s \in Stoppers, StopStep(s)
  PROVE  Lines' /\ AnswersCount' /\ worker' = worker /\ (netCancelled => netCancelled')
<1>1. /\ UNCHANGED <<lineVars, worker, inbox, answers, shown>>
      /\ netCancelled => netCancelled'
  BY DEF StopStep, StopRefused, StopEnters, StopLooks, StopJoins, StopJoinsTwice, StopEnds,
         flags, working, outside, IInv, Types
<1>2. Lines'
  BY <1>1, LinesFrame, LostMeansLeaving DEF IInv, Types
<1> QED BY <1>1, <1>2, AnswersFrame

LEMMA StopStepInv ==
  ASSUME IInv, NEW s \in Stoppers, StopStep(s)
  PROVE  IInv'
<1>1. Lines' /\ AnswersCount' /\ worker' = worker /\ (netCancelled => netCancelled')
  BY StopFrame
<1> USE
   DEF IInv, Types, StopStages, ThreadsFit, StopHasACause, Entered, BeforeWorker,
       AfterRun, Stoppers
<1>2. CASE StopRefused(s)
  BY <1>1, <1>2 DEF StopRefused, flags, working, outside
<1>3. CASE StopEnters(s)
  BY <1>1, <1>3 DEF StopEnters, working, outside
<1>4. CASE StopLooks(s)
  BY <1>1, <1>4 DEF StopLooks, flags, working, outside
<1>5. CASE StopJoins(s)
  BY <1>1, <1>5 DEF StopJoins, WorkerEnded, flags, working, outside
<1>6. CASE StopJoinsTwice(s)
  BY <1>1, <1>6 DEF StopJoinsTwice, flags, working, outside
<1>7. CASE StopEnds(s)
  <2>1. main \in AfterRun /\ main' = main /\ ~isClientRunning'
    BY <1>7 DEF StopEnds, Cleared
  <2>2. StopHasACause'
    BY <2>1
  <2>3. ThreadsFit'
    BY <1>1, <1>7, <2>1 DEF StopEnds
  <2>4. Types'
    <3>1. stopper' \in [Stoppers -> StopStages]
      BY <1>7 DEF StopEnds
    <3>2. UNCHANGED <<main, isClientSetup, cancelled, netCancelled, input, worker,
    connection,
                      looked, joined, missed>>
      BY <1>7 DEF StopEnds, working, outside
    <3>3. isClientRunning' \in BOOLEAN
      BY <1>7 DEF StopEnds, Cleared
    <3> QED BY <3>1, <3>2, <3>3
  <2> QED BY <1>1, <2>2, <2>3, <2>4
<1> QED BY <1>2, <1>3, <1>4, <1>5, <1>6, <1>7 DEF StopStep

-----------------------------------------------------------------------------
LEMMA OutsideInv ==
  IInv /\ (ConsoleCloses \/ ConsoleEnds \/ Answer \/ ServerCloses \/ Reset) => IInv'
<1> SUFFICES ASSUME IInv, ConsoleCloses \/ ConsoleEnds \/ Answer \/ ServerCloses \/ Reset
             PROVE  IInv'
  OBVIOUS
<1>1. UNCHANGED <<flags, lineVars, worker, input, joined, missed>>
  BY DEF ConsoleCloses, ConsoleEnds, Answer, ServerCloses, Reset, working
<1>2. Lines'
  BY <1>1, LinesFrame, LostMeansLeaving DEF flags
<1>3. AnswersCount'
  BY ClientConstants
     DEF IInv, ConsoleCloses, ConsoleEnds, Answer, ServerCloses, Reset, AnswersCount,
         outside, ClientConstants
<1> USE
   DEF IInv, Types, StopStages, ThreadsFit, StopHasACause, Entered, BeforeWorker,
       AfterRun, Stoppers, flags, working
<1>4. CASE ConsoleCloses
  BY <1>1, <1>2, <1>3, <1>4 DEF ConsoleCloses, working, outside
<1>5. CASE ConsoleEnds
  BY <1>1, <1>2, <1>3, <1>5 DEF ConsoleEnds, working, outside
<1>6. CASE Answer \/ ServerCloses \/ Reset
  BY <1>1, <1>2, <1>3, <1>6 DEF Answer, ServerCloses, Reset
<1> QED BY <1>4, <1>5, <1>6

LEMMA NextInv == IInv /\ [Next]_vars => IInv'
<1> SUFFICES ASSUME IInv, [Next]_vars PROVE IInv'
  OBVIOUS
<1>1. CASE UNCHANGED vars
  BY <1>1 DEF vars, flags, lineVars, working, outside, IInv, Types, AnswersCount, Lines,
              LinesKeepTheirOrder, ThreadsFit, StopHasACause, Entered
<1>2. CASE Next
  BY <1>2, MainStepInv, InputStepInv, WorkerStepInv, StopStepInv, OutsideInv DEF Next
<1> QED BY <1>1, <1>2

(* The invariant holds in every reachable state. *)
THEOREM Invariance == Spec => []IInv
BY InitInv, NextInv, PTL DEF Spec

-----------------------------------------------------------------------------
LEMMA InvImplies == IInv => ClientInv
<1> SUFFICES ASSUME IInv PROVE ClientInv
  OBVIOUS
<1>1. ClientTypeOK
  <2>1. Len(dropped) <= 1
    BY DroppedType
  <2>2. inbox \in 0 .. answers /\ answers \in 0 .. MaxAnswers /\ shown \in 0 .. answers
    BY ClientConstants DEF IInv, AnswersCount, ClientConstants
  <2> QED BY <2>1, <2>2 DEF IInv, Types, StopStages, Lines, ThreadsFit, ClientTypeOK
<1>2. RunningClientsWork
  BY
     DEF IInv, Types, StopStages, ThreadsFit, StopHasACause, Entered,
         RunningClientsWork, AfterRun, Stoppers
<1> QED BY <1>1, <1>2 DEF ClientInv, IInv, Lines

(* Whatever the order of main, console thread, worker and the two calls of *)
(* stop: lines go out in the order typed, at most one is lost, and a       *)
(* client that says it runs has its worker, is being stopped, or lost its  *)
(* connection while run had not yet set the flag (client.cpp:32-36,        *)
(* client_networking_base.hpp:59-106).                                     *)
THEOREM ClientIsSound == Spec => []ClientInv
BY Invariance, InvImplies, PTL
=============================================================================
