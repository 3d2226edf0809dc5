-------------------------------- MODULE Wire --------------------------------
(***************************************************************************)
(* Lines on their way through one connection: send_message hands a line    *)
(* over in as many pieces as the socket accepts, receive_message collects  *)
(* what has arrived in a buffer of fixed size, and the interpreter reads   *)
(* what was collected.  Nothing marks the end of a line.                   *)
(***************************************************************************)
EXTENDS Protocol

CONSTANTS
  Chars,       (* characters of words                                      *)
  Entities,    (* what a sender may mean                                   *)
  Carried,     (* those of them that the model sends (a bound)             *)
  BufferSize,  (* networking::buffer_size                                  *)
  MaxLines     (* bound on the lines sent                                  *)

Nul == "nul"

Text == Seq(Chars)

(* No word of a console line, of the database or of a status contains a    *)
(* null character.                                                         *)
ASSUME WireConstants ==
  /\ {Opened, Closed, Dash, Space} \subseteq Chars /\ Nul \notin Chars
  /\ BufferSize \in Nat \ {0} /\ MaxLines \in Nat
  /\ Entities \subseteq [command : Text, options : Seq(Text), params : Seq(Text)]
  /\ Carried \subseteq Entities

VARIABLES
  entity,   (* what the sender means                                       *)
  line,     (* the line being sent                                         *)
  offset,   (* sent_bytes_count                                            *)
  arrived,  (* bytes in the receive buffer of the socket                   *)
  closed,   (* the sender has closed the connection in good order          *)
  buffer,   (* the string that recv writes to                              *)
  msg,      (* what receive_message has collected                          *)
  count,    (* the last result of recv; 0 outside of receive_message       *)
  pieces,   (* the messages it has returned                                *)
  written,  (* all bytes of all lines (auxiliary)                          *)
  lines,    (* number of lines (auxiliary)                                 *)
  filled    (* some recv has filled the buffer (auxiliary)                 *)

sender == <<entity, line, offset, written, lines>>
receiver == <<buffer, msg, count>>
vars == <<sender, arrived, closed, receiver, pieces, filled>>

EmptyBuffer == [i \in 1 .. BufferSize |-> Nul]

Sent == offset = Len(line)

Receiving == buffer # <<>>

(* Bytes are counted right, and a receiver outside of receive_message      *)
(* holds nothing back.                                                     *)
WireTypeOK ==
  /\ entity \in Entities
  /\ offset \in 0 .. Len(line)
  /\ closed \in BOOLEAN /\ filled \in BOOLEAN
  /\ lines \in 0 .. MaxLines
  /\ count \in 0 .. BufferSize
  /\ buffer = <<>> \/ DOMAIN buffer = 1 .. BufferSize
  /\ ~Receiving => msg = <<>> /\ count = 0
  /\ Receiving => (msg # <<>> <=> count = BufferSize)

-----------------------------------------------------------------------------
(* networking::send_message                                                *)

SendLine ==
  /\ Sent /\ ~closed /\ lines < MaxLines
  /\ \E e \in IF lines = 0 THEN {entity} \cap Carried ELSE Carried :
       /\ entity' = e
       /\ line' = Build(e)
       /\ written' = written \o Build(e)
  /\ offset' = 0
  /\ lines' = lines + 1
  /\ UNCHANGED <<arrived, closed, receiver, pieces, filled>>

(* Mutant of NextBytes: every piece is taken from the start of the line.   *)
FirstBytes(n) == SubSeq(line, 1, n)

NextBytes(n) == SubSeq(line, offset + 1, offset + n)

(* One round of the loop: send accepts some of the bytes. *)
SendPiece ==
  /\ ~Sent
  /\ \E n \in 1 .. Len(line) - offset :
       /\ arrived' = arrived \o NextBytes(n)
       /\ offset' = offset + n
  /\ UNCHANGED <<entity, line, written, lines, closed, receiver, pieces, filled>>

CloseConnection ==
  /\ Sent /\ lines > 0 /\ ~closed
  /\ closed' = TRUE
  /\ UNCHANGED <<sender, arrived, receiver, pieces, filled>>

-----------------------------------------------------------------------------
(* networking::receive_message                                             *)

(* The worker calls it when the poll says that there is something. *)
ReceiveMessage ==
  /\ ~Receiving /\ arrived # <<>>
  /\ buffer' = EmptyBuffer
  /\ UNCHANGED <<sender, arrived, closed, msg, count, pieces, filled>>

(* buffer.c_str(): up to the first null character. *)
CStr(bytes) ==
  LET end == SequenceOps!SelectInSeq(bytes, LAMBDA ch : ch = Nul)
  IN  IF end = 0 THEN bytes ELSE SubSeq(bytes, 1, end - 1)

(* Mutant of Continues: until there is nothing more.                       *)
ContinuesAlways(n) == n > 0

(* The loop goes on after a full buffer, and waits if nothing is there. *)
Continues(n) == n = BufferSize

Return(collected) ==
  /\ pieces' = Append(pieces, collected)
  /\ buffer' = <<>> /\ msg' = <<>> /\ count' = 0

(* recv overwrites the beginning of the buffer; what a fuller recv has     *)
(* left behind it is read again.                                           *)
Recv ==
  LET n      == IF Len(arrived) < BufferSize THEN Len(arrived) ELSE BufferSize
      bytes  == [i \in 1 .. BufferSize |-> IF i <= n THEN arrived[i] ELSE buffer[i]]
      longer == msg \o CStr(bytes)
  IN  /\ Receiving /\ arrived # <<>>
      /\ arrived' = SubSeq(arrived, n + 1, Len(arrived))
      /\ filled' = (filled \/ n = BufferSize)
      /\ IF Continues(n)
           THEN buffer' = bytes /\ msg' = longer /\ count' = n /\ UNCHANGED pieces
           ELSE Return(longer)
      /\ UNCHANGED <<sender, closed>>

(* recv returns 0: what was collected so far is the message. *)
RecvClosed ==
  /\ Receiving /\ arrived = <<>> /\ closed
  /\ Return(msg)
  /\ UNCHANGED <<sender, arrived, closed, filled>>

-----------------------------------------------------------------------------
Init ==
  /\ entity \in Entities
  /\ line = <<>> /\ offset = 0 /\ written = <<>> /\ lines = 0
  /\ arrived = <<>> /\ closed = FALSE
  /\ buffer = <<>> /\ msg = <<>> /\ count = 0
  /\ pieces = <<>> /\ filled = FALSE

Next == SendLine \/ SendPiece \/ CloseConnection \/ ReceiveMessage \/ Recv \/ RecvClosed

(* send accepts bytes in the end; the worker of the receiver runs. *)
Fairness == WF_vars(SendPiece) /\ WF_vars(ReceiveMessage) /\ WF_vars(Recv) /\ WF_vars(RecvClosed)

Spec == Init /\ [][Next]_vars /\ Fairness

-----------------------------------------------------------------------------
(* Properties.                                                             *)

(* Of texts without brackets the interpreter reads back what the builder   *)
(* wrote exactly when no word is empty and the first parameter does not    *)
(* look like an option (command_builder.cpp:48-69).                        *)
BuilderIsReversed ==
  PlainText(entity) => (Interpret(Build(entity)) = entity <=> Reversible(entity))

(* A line typed as docs/menu.md says, with any number of spaces between    *)
(* the words, is read as it was meant, empty parameters included; only     *)
(* a first parameter must not look like an option.                         *)
TypedLinesAreRead ==
  (PlainText(entity) /\ (entity.params # <<>> => ~IsOption(entity.params[1]) \/ Has(entity.params[1], Space))) =>
    \A gap \in {<<Space>>, <<Space, Space>>} : Interpret(Typed(entity, gap)) = entity

(* Both directions: what the builder wrote and what a user typed is read   *)
(* as it was meant (protocol_interpreter.cpp:5-118).                       *)
LinesAreReadBack == BuilderIsReversed /\ TypedLinesAreRead

(* However a line is cut into pieces, and lines are glued together, the    *)
(* bytes come out in order, none twice, as long as no recv has filled the  *)
(* buffer (networking.cpp:44-69).                                          *)
BytesComeInOrder ==
  filled \/ written = SequenceOps!FlattenSeq(pieces) \o msg \o arrived \o NextBytes(Len(line) - offset)

(* The same, of a receiver that keeps nothing between two messages.        *)
ReceptionInv == WireTypeOK /\ BytesComeInOrder

(* Whatever was sent is taken from the socket and given to the interpreter *)
(* in the end, unless the last recv has filled the buffer exactly: then    *)
(* the worker waits in the next one, with the message in its hands, until  *)
(* something more is sent.                                                 *)
LinesAreHandled ==
  lines > 0 ~> (Sent /\ arrived = <<>> /\ (~Receiving \/ count = BufferSize))
=============================================================================
