------------------------------- MODULE Search -------------------------------
(***************************************************************************)
(* The command search: strangers whose login or name resembles a query.    *)
(*                                                                         *)
(* The first search for a query reads all strangers, ranks them and stores *)
(* the result in the session; the following ones, with other offsets, page *)
(* through what is stored, while invitations and profiles go on changing.  *)
(* Texts are short sequences of characters.                                *)
(***************************************************************************)
EXTENDS Relations, Sequences, FiniteSets

CONSTANTS
  Searchers,  (* ids whose session the model follows (a bound)             *)
  Renamers,   (* users who may change their profile (a bound)              *)
  FirstLogin, (* the login, and name, that a user signs up with (a bound)  *)
  NewLogins,  (* logins that profile_set -pl may give                      *)
  NewNames,   (* names that profile_set -pn may give                       *)
  Queries,    (* what is searched for; the empty query is among them       *)
  PageSize    (* the limit the client asks for                             *)

ASSUME SearchConstants ==
  /\ Searchers \subseteq Ids /\ Renamers \subseteq Users
  /\ FirstLogin \in [Users -> Seq(STRING) \ {<<>>}]
  /\ NewLogins \cup NewNames \subseteq Seq(STRING) \ {<<>>}
  /\ <<>> \in Queries /\ Queries \subseteq Seq(STRING)
  /\ PageSize \in Nat \ {0}

VARIABLES
  profile,  (* columns login and name of the registered users              *)
  session,  (* one session: its user, its cache, and what its client saw   *)
  touched   (* users whose profile or relation to the searcher has changed *)
            (* since the cache was filled (auxiliary)                      *)

SequenceOps == INSTANCE SequencesExt

searchVars == <<vars, profile, session, touched>>

Texts == {FirstLogin[u] : u \in Users} \cup NewLogins \cup NewNames

Profile == [login : Texts, name : Texts]

(* A row of the cache is a copy of the user's row. *)
CachedUser == [id : Users, login : Texts, name : Texts]

(* next and shown: how far the client has paged, and whom it was shown;    *)
(* known is false when the query was stored but its statement failed.      *)
Session ==
  [user : Ids, query : Queries, results : Seq(CachedUser), known : BOOLEAN,
   next : Nat, shown : SUBSET Users, ended : BOOLEAN]

NoSession == [user |-> "nobody"]

(* The cache holds every user at most once, never the searcher, and        *)
(* nothing for the empty query it starts with.                             *)
SearchTypeOK ==
  /\ profile \in [registered -> Profile]
  /\ touched \subseteq Users
  /\ session # NoSession =>
       /\ session \in Session
       /\ \A i, j \in DOMAIN session.results :
            /\ session.results[i].id = session.results[j].id => i = j
            /\ session.results[i].id \in registered \ {session.user}
       /\ session.query = <<>> \/ ~session.known => session.results = <<>>

-----------------------------------------------------------------------------
(* query_ranking_estimator                                                 *)

Penalty == 20  (* for a gap and for a mismatch *)

Mismatch(a, b) == IF a = b THEN 0 ELSE Penalty

Least(a, b) == IF a < b THEN a ELSE b

(* Mutant of RawRanking: the first row is left as it was allocated.        *)
RawRankingUnbordered(sample, query) ==
  LET buffer[i \in 0 .. Len(sample) - 1] ==
        [j \in 0 .. Len(query) - 1 |->
           IF i = 0 THEN 0
           ELSE IF j = 0 THEN Penalty * i
           ELSE Least(buffer[i - 1][j - 1] + Mismatch(sample[i + 1], query[j + 1]),
                      Least(buffer[i - 1][j] + Penalty, buffer[i][j - 1] + Penalty))]
  IN  buffer[Len(sample) - 1][Len(query) - 1]

(* The table has a row and a column per character, not one more: its first *)
(* row and column are the borders, so the first characters are never       *)
(* compared.                                                               *)
RawRanking(sample, query) ==
  LET buffer[i \in 0 .. Len(sample) - 1] ==
        [j \in 0 .. Len(query) - 1 |->
           IF i = 0 THEN Penalty * j
           ELSE IF j = 0 THEN Penalty * i
           ELSE Least(buffer[i - 1][j - 1] + Mismatch(sample[i + 1], query[j + 1]),
                      Least(buffer[i - 1][j] + Penalty, buffer[i][j - 1] + Penalty))]
  IN  buffer[Len(sample) - 1][Len(query) - 1]

(* translate_ranking: (result, as a share of) the worst penalty. *)
WorstPenalty(query) == Penalty * Len(query)

Ranking ==
  [s \in Texts |-> [q \in Queries \ {<<>>} |->
     IF RawRanking(s, q) > WorstPenalty(q) THEN 0 ELSE WorstPenalty(q) - RawRanking(s, q)]]

Relevance(user, query) ==
  LET byLogin == Ranking[user.login][query]
      byName  == Ranking[user.name][query]
  IN  IF byLogin > byName THEN byLogin ELSE byName

(* min_relevance_value is 0.3 of the worst penalty. *)
IsRelevant(user, query) == 10 * Relevance(user, query) >= 3 * WorstPenalty(query)

-----------------------------------------------------------------------------
(* search_handler                                                          *)

Row(u) == [id |-> u, login |-> profile[u].login, name |-> profile[u].name]

Found(me) == {Row(u) : u \in SearchingList(me)}

(* Users of one relevance come in any order. *)
Ranked(me, query) ==
  {s \in SequenceOps!SetToSeqs({user \in Found(me) : IsRelevant(user, query)}) :
     \A i, j \in DOMAIN s : i < j => Relevance(s[i], query) >= Relevance(s[j], query)}

(* The results are cleared, then inserted by position. *)
Stored(old, new) == new

(* Mutant of Page: the last row of a page opens the next one as well.      *)
PageOverlapping(results, offset) ==
  SubSeq(results, (IF offset = 0 THEN 1 ELSE offset), Least(Len(results), offset + PageSize - 1))

Page(results, offset) == SubSeq(results, offset + 1, Least(Len(results), offset + PageSize))

(* The client counts on from the page it got; a short page is the last.    *)
Paged(s, offset) ==
  LET rows == Page(s.results, offset)
      ids  == {rows[i].id : i \in DOMAIN rows}
  IN  [s EXCEPT !.next = offset + PageSize,
                !.shown = IF offset = 0 THEN ids ELSE s.shown \cup ids,
                !.ended = Len(rows) < PageSize]

(* The first search for a query. *)
SearchAfresh(query) ==
  /\ Idle
  /\ connection = "up"
  /\ session # NoSession
  /\ query # session.query
  /\ query # <<>> \/ Found(session.user) = {}
  /\ \E results \in IF query = <<>> THEN {<<>>} ELSE Ranked(session.user, query) :
       session' = Paged([session EXCEPT !.query = query, !.known = TRUE,
                                        !.results = Stored(session.results, results)], 0)
  /\ touched' = {}
  /\ reply' = "SYS__OKEY"
  /\ UNCHANGED <<tables, connection, accepting, profile>>

(* Its statement fails: the query stays stored, with no results. *)
SearchFails(query) ==
  /\ Idle
  /\ session # NoSession
  /\ query # session.query
  /\ session' = [session EXCEPT !.query = query, !.known = FALSE, !.results = <<>>,
                                !.next = 0, !.shown = {}, !.ended = FALSE]
  /\ touched' = {}
  /\ DatabaseFails
  /\ UNCHANGED profile

(* The following searches for it, at the start or where the client stopped. *)
SearchCached ==
  /\ Idle
  /\ session # NoSession
  /\ \E offset \in {0} \cup (IF session.ended THEN {} ELSE {session.next}) :
       session' = Paged(session, offset)
  /\ reply' = "SYS__OKEY"
  /\ UNCHANGED <<tables, connection, accepting, profile, touched>>

(* The process ends, and the sessions with it. *)
ProcessEnds ==
  /\ Crash
  /\ session' = NoSession /\ touched' = {}
  /\ UNCHANGED profile

(* The empty query has no columns to write a border into: the process ends *)
(* on the first user it ranks.                                             *)
SearchForNothing ==
  /\ Idle
  /\ connection = "up"
  /\ session # NoSession
  /\ session.query # <<>> /\ Found(session.user) # {}
  /\ ProcessEnds

-----------------------------------------------------------------------------
(* What changes meanwhile.                                                 *)

Filled == session # NoSession /\ session.query # <<>> /\ session.known

(* A client logs in, or a request without a valid token makes a session. *)
NewSession ==
  /\ Idle
  /\ \E u \in Searchers \cap ((IF connection = "up" THEN registered ELSE {}) \cup {NoUser}) :
       session' = [user |-> u, query |-> <<>>, results |-> <<>>, known |-> FALSE,
                   next |-> 0, shown |-> {}, ended |-> FALSE]
  /\ touched' = {}
  /\ UNCHANGED <<vars, profile>>

(* The index login_index is unique; it also refuses a login that differs   *)
(* in case only, which is left open here.                                  *)
LoginIsFree(l, u) == \A v \in registered \ {u} : profile[v].login # l

(* profile_set of the login, the name or both. *)
ProfileSet ==
  /\ Idle
  /\ \E u \in registered \cap Renamers :
       \E l \in NewLogins \cup {profile[u].login}, n \in NewNames \cup {profile[u].name} :
         LET new == [login |-> l, name |-> n] IN
           /\ LoginIsFree(l, u)
           /\ profile' = [profile EXCEPT ![u] = new]
           /\ touched' = IF new = profile[u] \/ ~Filled THEN touched ELSE touched \cup {u}
  /\ Committed
  /\ UNCHANGED <<tables, accepting, session>>

(* A step of Relations, of pairs with a searcher: other rows are in no     *)
(* selection of search.  A new user is called by the login, which is free. *)
RelationsChange ==
  /\ \/ \E me \in registered, other \in Users :
          {me, other} \cap Searchers # {} /\ Command(me, other)
     \/ CreateContact
     \/ CreateContactFails
     \/ Register
  /\ \A u \in registered' \ registered : LoginIsFree(FirstLogin[u], u)
  /\ profile' = [u \in registered' |->
       IF u \in registered THEN profile[u]
       ELSE [login |-> FirstLogin[u], name |-> FirstLogin[u]]]
  /\ touched' =
       IF ~Filled THEN {}
       ELSE touched \cup (registered' \ registered)
              \cup {u \in registered : \E me \in {session.user} :
                                         RowsBetween(me, u)' # RowsBetween(me, u)}
  /\ UNCHANGED session

SearchInit == Init /\ profile = [u \in {} |-> <<>>] /\ session = NoSession /\ touched = {}

SearchNext ==
  \/ \E query \in Queries : SearchAfresh(query) \/ SearchFails(query)
  \/ SearchCached
  \/ SearchForNothing
  \/ NewSession
  \/ ProfileSet
  \/ RelationsChange
  \/ ProcessEnds

SearchSpec == SearchInit /\ [][SearchNext]_searchVars

-----------------------------------------------------------------------------
(* Properties.                                                             *)

(* Edits(s, q): the least number of characters to change, insert or delete *)
(* to make q of s, the first characters aside: over all ways to pair       *)
(* characters in order, the pairs that differ and the unpaired.            *)
Pairings(n, m) ==
  {P \in SUBSET ((2 .. n) \X (2 .. m)) :
     \A p, r \in P : p[1] < r[1] <=> p[2] < r[2]}

Edits ==
  [s \in Texts |-> [q \in Queries \ {<<>>} |->
     LET cost(P) == (Len(s) - 1) + (Len(q) - 1) - 2 * Cardinality(P)
                      + Cardinality({p \in P : s[p[1]] # q[p[2]]})
     IN  CHOOSE d \in 0 .. Len(s) + Len(q) :
           /\ \E P \in Pairings(Len(s), Len(q)) : cost(P) = d
           /\ \A P \in Pairings(Len(s), Len(q)) : d <= cost(P)]]

UserEdits(user, q) == Least(Edits[user.login][q], Edits[user.name][q])

Resembles(user, q) == 10 * (Len(q) - UserEdits(user, q)) >= 3 * Len(q)

(* The stored results come by their number of edits, and each resembles    *)
(* the query: what the table of the estimator computes with its borders    *)
(* (query_ranking_estimator.cpp:12-34) is an edit distance.                *)
ResultsAreRanked ==
  (session # NoSession /\ session.query # <<>>) =>
    LET edits(i) == UserEdits(session.results[i], session.query) IN
      \A i \in DOMAIN session.results :
        /\ Resembles(session.results[i], session.query)
        /\ \A j \in i .. Len(session.results) : edits(i) <= edits(j)

(* The cache of a session: rows of users, each once, and ranked.           *)
CacheInv == SearchTypeOK /\ ResultsAreRanked

(* Who resembles the query and has no row together with the searcher. *)
Matches(me, q) ==
  {u \in registered \ {me} : RowsBetween(me, u) = 0 /\ Resembles(profile[u], q)}

(* A client that pages to the end has been shown exactly the matches,      *)
(* whatever happened between its pages, but for users touched since the    *)
(* query was first asked (their login, their name or what they are to the  *)
(* searcher has changed), and unless the statement of the query failed:    *)
(* then its repetition answers OK with nothing (search_handler.cpp:23-35). *)
SearchShowsTheMatches ==
  (Filled /\ session.ended) =>
    \A u \in Users \ touched :
      u \in session.shown <=> u \in Matches(session.user, session.query)
=============================================================================
