------------------------------- MODULE MCWire -------------------------------
(* Words that are empty, short, with whitespace, with a dash or with       *)
(* brackets, in every place of an entity; some short lines are sent.       *)
EXTENDS Wire

MCChars == {"a", "-", " ", "<", ">"}

Plain == { <<>>, <<"a">>, <<"-">>, <<"-", "a">>, <<"a", " ", "a">>, <<"-", " ">>, <<" ">> }

Wild == Plain \cup { <<"<">>, <<">", "a">>, <<"<", "a", ">">> }

UpTo(n, words) == UNION {[1 .. k -> words] : k \in 0 .. n}

MCEntities ==
  {Entity(c, o, p) : c \in Wild, o \in UpTo(1, Wild), p \in UpTo(2, Plain) \cup UpTo(1, Wild)}

MCCarried ==
  { Entity(<<"a">>, <<>>, <<>>), Entity(<<"a">>, <<>>, <<<<"-">>>>),
    Entity(<<"a">>, <<<<"a">>>>, <<>>),
    Response(<<"a">>, <<>>, <<"a">>, <<" ">>, <<>>) }
=============================================================================
