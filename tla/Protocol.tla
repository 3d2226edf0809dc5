------------------------------ MODULE Protocol ------------------------------
(***************************************************************************)
(* Lines of the protocol: protocol_interpreter, which reads a line as a    *)
(* command with options and parameters, and command_builder, which writes  *)
(* one.  A text is a sequence of characters; the line feed is left out,    *)
(* because neither a console line nor an answer contains one.              *)
(***************************************************************************)
EXTENDS Naturals, Sequences

SequenceOps == INSTANCE SequencesExt

Opened == "<"
Closed == ">"
Dash   == "-"
Space  == " "  (* stands for every character that \s matches *)

Entity(command, options, params) ==
  [command |-> command, options |-> options, params |-> params]

(* What interpret throws on, a line without a word: no entity without      *)
(* brackets.                                                               *)
Unreadable == Entity(<<>>, <<>>, <<<<Opened, Closed>>>>)

Has(text, ch) == \E i \in DOMAIN text : text[i] = ch

-----------------------------------------------------------------------------
(* protocol_interpreter                                                    *)

(* free_from_composite, a greedy regex: what lies between the first        *)
(* opening and the last closing bracket; what lies outside of them is lost. *)
FreeFromComposite(word) ==
  LET first == SequenceOps!SelectInSeq(word, LAMBDA ch : ch = Opened)
      last  == SequenceOps!SelectLastInSeq(word, LAMBDA ch : ch = Closed)
  IN  IF first # 0 /\ first < last THEN SubSeq(word, first + 1, last - 1) ELSE word

(* split_query between two characters.  blank: skipping whitespace, which  *)
(* counts as a word, so that a line ending there ends with an empty word.  *)
Before == [isWord |-> FALSE, blank |-> TRUE, word |-> <<>>, depth |-> 0, args |-> <<>>]

(* Mutant of Depth: brackets are not counted.                              *)
DepthIgnored(depth, ch) == 0

(* Below zero, as above it, whitespace no longer splits. *)
Depth(depth, ch) ==
  CASE ch = Opened -> depth + 1
    [] ch = Closed -> depth - 1
    [] OTHER -> depth

ReadChar(st, ch) ==
  CASE ch = Space /\ st.blank ->
         [st EXCEPT !.isWord = TRUE]
    [] ch = Space /\ ~st.blank /\ st.depth = 0 ->
         [st EXCEPT !.isWord = FALSE, !.blank = TRUE, !.word = <<>>, !.args = Append(@, st.word)]
    [] OTHER ->
         [st EXCEPT !.isWord = TRUE, !.blank = FALSE, !.word = Append(@, ch), !.depth = Depth(@, ch)]

Read(st, text) ==
  LET after[i \in 0 .. Len(text)] == IF i = 0 THEN st ELSE ReadChar(after[i - 1], text[i])
  IN  after[Len(text)]

SplitQuery(line) ==
  LET end == Read(Before, line)
  IN  IF end.isWord THEN Append(end.args, end.word) ELSE end.args

IsOption(word) == word # <<>> /\ word[1] = Dash

Freed(words) == [i \in DOMAIN words |-> FreeFromComposite(words[i])]

(* The options are the words with a dash right after the command. *)
Interpret(line) ==
  LET args  == SplitQuery(line)
      after == SequenceOps!SelectInSubSeq(args, 2, Len(args), LAMBDA word : ~IsOption(word))
      rest  == IF after = 0 THEN Len(args) + 1 ELSE after
  IN  IF args = <<>> THEN Unreadable
      ELSE Entity(FreeFromComposite(args[1]),
                  Freed([i \in 1 .. rest - 2 |-> Tail(args[i + 1])]),
                  Freed(SubSeq(args, rest, Len(args))))

-----------------------------------------------------------------------------
(* command_builder                                                         *)

TryToWrap(word) == IF Has(word, Space) THEN <<Opened>> \o word \o <<Closed>> ELSE word

Build(e) ==
  LET options == [i \in DOMAIN e.options |-> <<Space, Dash>> \o TryToWrap(e.options[i])]
      params  == [i \in DOMAIN e.params |-> <<Space>> \o TryToWrap(e.params[i])]
  IN  TryToWrap(e.command) \o SequenceOps!FlattenSeq(options) \o SequenceOps!FlattenSeq(params)

(* command_response::to_entity: an answer carries code and text of its     *)
(* status before its parameters.                                           *)
Response(command, options, code, text, params) ==
  Entity(command, options, <<code, text>> \o params)

-----------------------------------------------------------------------------
(* What the builder and the manual promise.                                *)

WordsOf(e) == <<e.command>> \o e.options \o e.params

PlainText(e) ==
  \A i \in DOMAIN WordsOf(e) : ~Has(WordsOf(e)[i], Opened) /\ ~Has(WordsOf(e)[i], Closed)

(* Entities without brackets that survive the builder: an empty command or *)
(* parameter leaves no word, and a first parameter with a dash and without *)
(* whitespace, which nothing wraps, is read as an option.                  *)
Reversible(e) ==
  /\ e.command # <<>>
  /\ \A i \in DOMAIN e.params : e.params[i] # <<>>
  /\ e.params # <<>> => ~IsOption(e.params[1]) \/ Has(e.params[1], Space)

(* menu.md: a user separates words with spaces, and puts brackets around   *)
(* what is empty or contains whitespace.                                   *)
Bracketed(word) ==
  IF word = <<>> \/ Has(word, Space) THEN <<Opened>> \o word \o <<Closed>> ELSE word

Typed(e, gap) ==
  LET options == [i \in DOMAIN e.options |-> gap \o <<Dash>> \o Bracketed(e.options[i])]
      params  == [i \in DOMAIN e.params |-> gap \o Bracketed(e.params[i])]
  IN  Bracketed(e.command) \o SequenceOps!FlattenSeq(options) \o SequenceOps!FlattenSeq(params)
=============================================================================
