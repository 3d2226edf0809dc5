---------------------------- MODULE ChatsProofs -----------------------------
(***************************************************************************)
(* Proofs about chats, and about reading them while others post: for any   *)
(* number of users, chats and messages, any page size and any clock.       *)
(***************************************************************************)
EXTENDS ChatMessages, FiniteSetTheorems, SequenceTheorems, TLAPS

(* who may be the members of chat c: the row of c describes them. *)
Fits(c, who) ==
  /\ chats[c].size = Cardinality(who)
  /\ chats[c].type = "private" => Cardinality(who) = 2
  /\ Cardinality(who) <= MaxParticipants

ChatsFit == \A c \in DOMAIN chats : Members(c) # {} => Fits(c, Members(c))

(* A half created chat has no members, and those it may get fit. *)
CreationFits ==
  \A job \in creating :
    /\ creating = {job}
    /\ Members(job[1]) = {}
    /\ Cardinality(job[2]) = chats[job[1]].size =>
         /\ Fits(job[1], job[2])
         /\ chats[job[1]].type = "private" =>
              \A c \in DOMAIN chats : chats[c].type = "private" => Members(c) # job[2]

PosterIsMember == \A job \in posting : IsParticipant(job[2].sender, job[2].chat)

(* The inductive invariant: the size column alone decides what chat_leave  *)
(* deletes, so every other conjunct rests on ChatsFit, and ChatsFit on     *)
(* what a creation in progress is about to insert.                         *)
IInv ==
  /\ TypeOK
  /\ ChatsFit
  /\ CreationFits
  /\ PosterIsMember
  /\ OnePrivateChatPerPair
  /\ MessagesAreReadable

-----------------------------------------------------------------------------
(* What Put and Remove return. *)
LEMMA PutType ==
  ASSUME NEW S, NEW f, f \in [DOMAIN f -> S], NEW k, NEW v \in S
  PROVE  /\ DOMAIN Put(f, k, v) = DOMAIN f \cup {k}
         /\ Put(f, k, v) \in [DOMAIN Put(f, k, v) -> S]
         /\ Put(f, k, v)[k] = v
         /\ \A x \in DOMAIN f \ {k} : Put(f, k, v)[x] = f[x]
  BY DEF Put

LEMMA RestrictType ==
  ASSUME NEW S, NEW f, f \in [DOMAIN f -> S], NEW D \in SUBSET DOMAIN f
  PROVE  /\ DOMAIN Restrict(f, D) = D
         /\ Restrict(f, D) \in [D -> S]
         /\ \A x \in D : Restrict(f, D)[x] = f[x]
  BY DEF Restrict

(* The members of a chat are finitely many. *)
LEMMA MembersFinite ==
  ASSUME TypeOK, NEW c
  PROVE  IsFiniteSet(Members(c)) /\ Cardinality(Members(c)) \in Nat
<1>1. Members(c) \in SUBSET Users
  BY DEF TypeOK, Members
<1> QED
  BY <1>1, ChatsConstants, FS_Subset, FS_CardinalityType

(* A participant is a registered user, in a chat that exists. *)
LEMMA ParticipantType ==
  ASSUME TypeOK, NEW u, NEW c, IsParticipant(u, c)
  PROVE  u \in registered /\ c \in DOMAIN chats /\ u \in Members(c)
  BY DEF TypeOK, IsParticipant, Members

(* Only table members says who is in a chat. *)
LEMMA SameMembers ==
  ASSUME TypeOK, members' = members, registered \subseteq registered', NEW c
  PROVE  Members(c)' = Members(c)
  BY DEF TypeOK, Members

-----------------------------------------------------------------------------
LEMMA InitInv == Init => IInv
<1> SUFFICES ASSUME Init PROVE IInv
  OBVIOUS
<1>1. DOMAIN chats = {} /\ DOMAIN messages = {}
  BY DEF Init, Empty
<1>2. chats \in [DOMAIN chats -> ChatRow] /\ messages \in [DOMAIN messages -> MessageRow]
  BY <1>1 DEF Init, Empty
<1>3. TypeOK
  BY <1>1, <1>2 DEF Init, TypeOK, StatusCodes
<1> QED
  BY <1>1, <1>3 DEF Init, IInv, ChatsFit, CreationFits, PosterIsMember,
     OnePrivateChatPerPair, MessagesAreReadable

(* Steps that leave rooms and messages alone, and no job but an old one. *)
LEMMA QuietInv ==
  ASSUME IInv, TypeOK', UNCHANGED <<rooms, messages>>, registered \subseteq registered',
         creating' \in {creating, {}}, posting' \in {posting, {}}
  PROVE  IInv'
<1>1. /\ chats' = chats /\ members' = members /\ messages' = messages
      /\ \A c : Members(c)' = Members(c)
  BY SameMembers DEF IInv, rooms
<1>2. ChatsFit' /\ OnePrivateChatPerPair' /\ MessagesAreReadable'
  BY <1>1 DEF IInv, ChatsFit, OnePrivateChatPerPair, MessagesAreReadable, Fits
<1>3. CreationFits' /\ PosterIsMember'
  BY <1>1 DEF IInv, CreationFits, PosterIsMember, Fits, IsParticipant
<1> QED
  BY <1>2, <1>3 DEF IInv

LEMMA AnswerInv ==
  ASSUME IInv, NEW code \in StatusCodes, Answer(code)
  PROVE  IInv'
<1>1. TypeOK'
  BY DEF IInv, TypeOK, Answer, people, rooms, jobs
<1> QED
  BY <1>1, QuietInv DEF Answer, people, rooms, jobs

(* The members a new chat is about to get are one or two different users. *)
LEMMA PairSize ==
  ASSUME NEW u, NEW v, u # v
  PROVE  /\ Cardinality({u}) = 1
         /\ Cardinality({u, v}) = 2
<1>1. Cardinality({u}) = 1 /\ IsFiniteSet({u})
  BY FS_Singleton
<1>2. Cardinality({u} \cup {v}) = 2
  BY <1>1, FS_AddElement
<1>3. {u} \cup {v} = {u, v}
  OBVIOUS
<1> QED
  BY <1>1, <1>2, <1>3

(* No private chat has exactly two users who share none. *)
LEMMA NoChatOfPair ==
  ASSUME NEW u, NEW v, u # v, ~PrivateChatExists(u, v),
         NEW c \in DOMAIN chats, chats[c].type = "private"
  PROVE  Members(c) # {u, v}
<1> SUFFICES ASSUME Members(c) = {u, v} PROVE FALSE
  OBVIOUS
<1>1. {u, v} \cap Members(c) = {u, v}
  OBVIOUS
<1>2. Cardinality({u, v}) = 2
  BY PairSize
<1>3. Cardinality({u, v} \cap Members(c)) > 1
  BY <1>1, <1>2
<1> QED
  BY <1>3 DEF PrivateChatExists

(* The row of a new chat, whose members are still to come. *)
LEMMA InsertChatInv ==
  ASSUME IInv, Idle, NEW c \in ChatIds, NEW type \in {"private", "public"},
         NEW size \in Nat, NEW ids \in SUBSET Ids,
         size <= MaxParticipants,
         type = "private" => size = 2,
         Cardinality(ids) = size /\ type = "private" =>
           \A d \in DOMAIN chats : chats[d].type = "private" => Members(d) # ids,
         InsertChat(c, type, size, ids)
  PROVE  IInv'
<1> DEFINE row == [type |-> type, size |-> size]
<1>1. row \in ChatRow
  BY DEF ChatRow
<1>2. chats \in [DOMAIN chats -> ChatRow]
  BY DEF IInv, TypeOK
<1>3. /\ c \notin DOMAIN chats
      /\ chats' = Put(chats, c, row)
      /\ creating' \in {{}, {<<c, ids>>}}
      /\ reply' \in StatusCodes
      /\ UNCHANGED <<registered, contacts, members, messages, files, posting>>
  BY DEF InsertChat, people, Idle, StatusCodes, IInv, TypeOK
<1>4. /\ DOMAIN chats' = DOMAIN chats \cup {c}
      /\ chats' \in [DOMAIN chats' -> ChatRow]
      /\ chats'[c] = row
      /\ \A x \in DOMAIN chats \ {c} : chats'[x] = chats[x]
  <2> HIDE DEF row
  <2> QED
    BY <1>1, <1>2, <1>3 DEF Put
<1>5. /\ \A d : Members(d)' = Members(d)
      /\ Members(c) = {}
  BY <1>3, SameMembers DEF IInv, TypeOK, Members
<1>6. TypeOK'
  BY <1>3, <1>4 DEF IInv, TypeOK
<1>7. ChatsFit' /\ OnePrivateChatPerPair' /\ MessagesAreReadable' /\ PosterIsMember'
  BY <1>3, <1>4, <1>5 DEF IInv, TypeOK, ChatsFit, Fits, OnePrivateChatPerPair,
     MessagesAreReadable, PosterIsMember, IsParticipant
<1>8. CreationFits'
  <2>1. Cardinality(ids) = size => Fits(c, ids)'
    BY <1>4 DEF Fits
  <2>2. \A d \in DOMAIN chats' :
          Cardinality(ids) = size /\ chats'[c].type = "private" /\ chats'[d].type = "private"
            => Members(d)' # ids
    <3> SUFFICES ASSUME NEW d \in DOMAIN chats', Cardinality(ids) = size,
                        chats'[c].type = "private", chats'[d].type = "private"
                 PROVE  Members(d)' # ids
      OBVIOUS
    <3>1. CASE d = c
      <4>1. Cardinality(ids) = 2
        BY <1>4
      <4>2. Members(d)' = {}
        BY <1>5, <3>1
      <4> QED
        BY <4>1, <4>2, FS_EmptySet
    <3>2. CASE d # c
      BY <1>4, <1>5, <3>2
    <3> QED
      BY <3>1, <3>2
  <2>3. Members(c)' = {} /\ chats'[c].size = size
    BY <1>4, <1>5
  <2> QED
    BY <1>3, <2>1, <2>2, <2>3 DEF CreationFits
<1> QED
  BY <1>6, <1>7, <1>8 DEF IInv

(* The members of the chat in creation arrive together. *)
LEMMA InsertMembersInv ==
  ASSUME IInv, InsertMembers
  PROVE  IInv'
<1>1. PICK job \in creating :
        /\ job[2] \subseteq registered
        /\ Cardinality(job[2]) = chats[job[1]].size
        /\ members' = members \cup (job[2] \X {job[1]})
        /\ creating' = {}
        /\ reply' \in StatusCodes
        /\ UNCHANGED <<registered, contacts, chats, messages, files, posting>>
  BY DEF InsertMembers, people, Committed, StatusCodes
<1> DEFINE c == job[1]
           ids == job[2]
<1>2. /\ c \in DOMAIN chats
      /\ Members(c) = {}
      /\ Fits(c, ids)
      /\ chats[c].type = "private" =>
           \A d \in DOMAIN chats : chats[d].type = "private" => Members(d) # ids
  BY <1>1 DEF IInv, TypeOK, CreationFits
<1>3. /\ Members(c)' = ids
      /\ \A d : d # c => Members(d)' = Members(d)
  BY <1>1, <1>2 DEF Members
<1>4. TypeOK'
  <2>1. members' \subseteq registered' \X (DOMAIN chats')
    BY <1>1, <1>2 DEF IInv, TypeOK
  <2> QED
    BY <1>1, <2>1 DEF IInv, TypeOK
<1> HIDE DEF c, ids
<1>5. ChatsFit'
  BY <1>1, <1>2, <1>3 DEF IInv, ChatsFit, Fits
<1>6. OnePrivateChatPerPair'
  BY <1>1, <1>2, <1>3 DEF IInv, OnePrivateChatPerPair
<1>7. CreationFits' /\ PosterIsMember'
  BY <1>1 DEF IInv, CreationFits, PosterIsMember, IsParticipant
<1>8. MessagesAreReadable'
  BY <1>1, <1>2, <1>3 DEF IInv, MessagesAreReadable
<1> QED
  BY <1>4, <1>5, <1>6, <1>7, <1>8 DEF IInv

LEMMA InsertMembersFailsInv ==
  ASSUME IInv, InsertMembersFails
  PROVE  IInv'
<1>1. TypeOK'
  BY DEF IInv, TypeOK, InsertMembersFails, people, rooms, StatusCodes
<1> QED
  BY <1>1, QuietInv DEF InsertMembersFails, people

-----------------------------------------------------------------------------
LEMMA ChatCreatePublicInv ==
  ASSUME IInv, NEW me \in Ids, NEW c \in ChatIds, NEW title,
         ChatCreatePublic(me, c, title)
  PROVE  IInv'
<1>1. CASE \E code \in StatusCodes : Answer(code)
  BY <1>1, AnswerInv
<1>2. CASE InsertChat(c, "public", 1, {me})
  <2>1. Cardinality({me}) = 1
    BY FS_Singleton
  <2> QED
    BY <1>2, <2>1, InsertChatInv, ChatsConstants DEF ChatCreatePublic
<1> QED
  BY <1>1, <1>2 DEF ChatCreatePublic, DatabaseFails, StatusCodes

LEMMA ChatCreatePrivateInv ==
  ASSUME IInv, NEW me \in Ids, NEW other \in Ids, NEW c \in ChatIds,
         ChatCreatePrivate(me, other, c)
  PROVE  IInv'
<1>1. CASE \E code \in StatusCodes : Answer(code)
  BY <1>1, AnswerInv
<1>2. CASE ~PrivateChatExists(me, other) /\ InsertChat(c, "private", 2, {me, other})
  <2>1. Cardinality({me, other}) = 2 => me # other
    BY FS_Singleton
  <2>2. me # other =>
          \A d \in DOMAIN chats : chats[d].type = "private" => Members(d) # {me, other}
    BY <1>2, NoChatOfPair
  <2> QED
    BY <1>2, <2>1, <2>2, InsertChatInv, ChatsConstants DEF ChatCreatePrivate
<1> QED
  BY <1>1, <1>2 DEF ChatCreatePrivate, DatabaseFails, StatusCodes

-----------------------------------------------------------------------------
(* A public chat below the limit grows by one member and one in size. *)
LEMMA AddUserInv ==
  ASSUME IInv, Idle, NEW c, NEW u \in registered, NEW me,
         IsParticipant(me, c), chats[c].type = "public",
         ~ChatIsFull(c), ~IsParticipant(u, c), AddUserToChat(c, u),
         Committed, UNCHANGED <<people, messages, files, jobs>>
  PROVE  IInv'
<1> USE DEF people, jobs
<1>1. c \in DOMAIN chats /\ me \in Members(c) /\ TypeOK
  BY ParticipantType DEF IInv
<1>2. chats[c] \in ChatRow
  BY <1>1 DEF TypeOK
<1>3. /\ DOMAIN chats' = DOMAIN chats
      /\ chats' \in [DOMAIN chats' -> ChatRow]
      /\ chats'[c].size = chats[c].size + 1
      /\ chats'[c].type = chats[c].type
      /\ \A d \in DOMAIN chats \ {c} : chats'[d] = chats[d]
  BY <1>1, <1>2 DEF AddUserToChat, TypeOK, ChatRow
<1>4. /\ Members(c)' = Members(c) \cup {u}
      /\ \A d : d # c => Members(d)' = Members(d)
  BY DEF AddUserToChat, Members
<1>5. u \notin Members(c)
  BY DEF Members, IsParticipant
<1>6. Cardinality(Members(c)') = Cardinality(Members(c)) + 1
  BY <1>1, <1>4, <1>5, MembersFinite, FS_AddElement
<1>7. chats[c].size = Cardinality(Members(c)) /\ chats[c].size \in Nat
  BY <1>1, <1>2 DEF IInv, ChatsFit, Fits, ChatRow
<1>8. Fits(c, Members(c))'
  BY <1>3, <1>6, <1>7, ChatsConstants DEF Fits, ChatIsFull
<1>9. TypeOK'
  <2>1. members' \subseteq registered' \X (DOMAIN chats')
    BY <1>1, <1>3 DEF TypeOK, AddUserToChat
  <2> QED
    BY <1>1, <1>3, <2>1 DEF TypeOK, Idle, StatusCodes, Committed
<1>10. ChatsFit'
  <2> SUFFICES ASSUME NEW d \in DOMAIN chats, d # c, Members(d) # {}
               PROVE  Fits(d, Members(d))'
    BY <1>3, <1>4, <1>8 DEF ChatsFit
  <2> QED
    BY <1>3, <1>4 DEF IInv, ChatsFit, Fits
<1>11. OnePrivateChatPerPair'
  BY <1>3, <1>4 DEF IInv, OnePrivateChatPerPair
<1>12. MessagesAreReadable'
  BY <1>4 DEF IInv, MessagesAreReadable
<1>13. CreationFits' /\ PosterIsMember'
  BY DEF Idle, CreationFits, PosterIsMember
<1> QED
  BY <1>8, <1>9, <1>10, <1>11, <1>12, <1>13 DEF IInv

LEMMA ChatAddInv ==
  ASSUME IInv, NEW me \in Ids, NEW c \in ChatIds, NEW u \in Ids, ChatAdd(me, c, u)
  PROVE  IInv'
<1>1. CASE \E code \in StatusCodes : Answer(code)
  BY <1>1, AnswerInv
<1>2. CASE /\ IsParticipant(me, c) /\ chats[c].type = "public"
           /\ ~ChatIsFull(c) /\ MayBeContacts(me, u) /\ ~IsParticipant(u, c)
           /\ AddUserToChat(c, u)
           /\ Committed
           /\ UNCHANGED <<people, messages, files, jobs>>
  <2>1. u # me
    BY <1>2
  <2>2. {me, u} \in contacts
    BY <1>2, <2>1 DEF MayBeContacts
  <2>3. u \in registered
    BY <2>2 DEF IInv, TypeOK
  <2> QED
    BY <1>2, <2>3, AddUserInv DEF ChatAdd
<1> QED
  BY <1>1, <1>2 DEF ChatAdd, DatabaseFails, StatusCodes

(* The last but one member of a private chat, the last of a public one:    *)
(* the chat goes, with everything in it.                                   *)
LEMMA CloseChatInv ==
  ASSUME IInv, Idle, NEW c \in DOMAIN chats, UNCHANGED <<people, files, jobs>>,
         Committed,
         chats' = Remove(chats, c),
         members' = {p \in members : p[2] # c},
         messages' = Restrict(messages, {m \in DOMAIN messages : messages[m].chat # c})
  PROVE  IInv'
<1> USE DEF people, jobs
<1>1. TypeOK
  BY DEF IInv
<1>2. /\ DOMAIN chats' = DOMAIN chats \ {c}
      /\ chats' \in [DOMAIN chats' -> ChatRow]
      /\ \A d \in DOMAIN chats' : chats'[d] = chats[d]
  BY <1>1 DEF TypeOK, Remove, Restrict
<1>3. /\ DOMAIN messages' = {m \in DOMAIN messages : messages[m].chat # c}
      /\ messages' \in [DOMAIN messages' -> MessageRow]
      /\ \A m \in DOMAIN messages' : messages'[m] = messages[m]
  BY <1>1 DEF TypeOK, Restrict
<1>4. \A d : d # c => Members(d)' = Members(d)
  BY <1>1 DEF TypeOK, Members
<1>5. TypeOK'
  <2>1. members' \subseteq registered' \X (DOMAIN chats')
    BY <1>1, <1>2 DEF TypeOK
  <2>2. \A m \in DOMAIN messages' : messages'[m].chat \in DOMAIN chats'
    BY <1>1, <1>2, <1>3 DEF TypeOK
  <2>3. DOMAIN chats' \subseteq ChatIds /\ DOMAIN messages' \subseteq MessageIds
    <3>1. DOMAIN chats' \subseteq DOMAIN chats /\ DOMAIN messages' \subseteq DOMAIN messages
      BY <1>2, <1>3
    <3>2. DOMAIN chats \subseteq ChatIds /\ DOMAIN messages \subseteq MessageIds
      BY <1>1 DEF TypeOK
    <3> QED
      BY <3>1, <3>2
  <2>4. creating' = {} /\ posting' = {} /\ reply' \in StatusCodes
    BY DEF Idle, StatusCodes, Committed
  <2> QED
    BY <1>1, <1>2, <1>3, <2>1, <2>2, <2>3, <2>4 DEF TypeOK
<1>6. ChatsFit' /\ OnePrivateChatPerPair'
  BY <1>2, <1>4 DEF IInv, ChatsFit, Fits, OnePrivateChatPerPair
<1>7. MessagesAreReadable'
  BY <1>3, <1>4 DEF IInv, MessagesAreReadable
<1>8. CreationFits' /\ PosterIsMember'
  BY DEF Idle, CreationFits, PosterIsMember
<1> QED
  BY <1>5, <1>6, <1>7, <1>8 DEF IInv

(* A public chat that keeps members shrinks by one member and one in size. *)
LEMMA ShrinkChatInv ==
  ASSUME IInv, Idle, NEW c, NEW u, IsParticipant(u, c),
         chats[c].size - 1 # ClosesAt(chats[c].type),
         UNCHANGED <<people, messages, files, jobs>>, Committed,
         chats' = [chats EXCEPT ![c].size = chats[c].size - 1],
         members' = members \ {<<u, c>>}
  PROVE  IInv'
<1> USE DEF people, jobs
<1>1. c \in DOMAIN chats /\ u \in Members(c) /\ TypeOK
  BY ParticipantType DEF IInv
<1>2. chats[c] \in ChatRow
  BY <1>1 DEF TypeOK
<1>3. Fits(c, Members(c))
  BY <1>1 DEF IInv, ChatsFit
<1>4. /\ Members(c)' = Members(c) \ {u}
      /\ \A d : d # c => Members(d)' = Members(d)
  BY DEF Members
<1>5. /\ Cardinality(Members(c)') = Cardinality(Members(c)) - 1
      /\ IsFiniteSet(Members(c)')
      /\ Cardinality(Members(c)) \in Nat
  BY <1>1, <1>4, MembersFinite, FS_RemoveElement
<1>6. Cardinality(Members(c)') \in Nat
  BY <1>5, FS_CardinalityType
<1>7. chats[c].type = "public" /\ chats[c].size - 1 \in Nat \ {0}
  BY <1>2, <1>3, <1>5, <1>6 DEF Fits, ClosesAt, ChatRow
<1>8. /\ DOMAIN chats' = DOMAIN chats
      /\ chats' \in [DOMAIN chats' -> ChatRow]
      /\ chats'[c].size = chats[c].size - 1
      /\ chats'[c].type = "public"
      /\ \A d \in DOMAIN chats \ {c} : chats'[d] = chats[d]
  BY <1>1, <1>2, <1>7 DEF TypeOK, ChatRow
<1>9. Members(c)' # {}
  BY <1>3, <1>5, <1>7, FS_EmptySet DEF Fits
<1>10. TypeOK'
  <2>1. members' \subseteq registered' \X (DOMAIN chats')
    BY <1>1, <1>8 DEF TypeOK
  <2> QED
    BY <1>1, <1>8, <2>1 DEF TypeOK, Idle, StatusCodes, Committed
<1>11. Fits(c, Members(c))'
  BY <1>3, <1>5, <1>8, ChatsConstants DEF Fits
<1>12. ChatsFit' /\ OnePrivateChatPerPair'
  <2>1. ASSUME NEW d \in DOMAIN chats, d # c, Members(d) # {}
        PROVE  Fits(d, Members(d))'
    BY <1>4, <1>8, <2>1 DEF IInv, ChatsFit, Fits
  <2>2. ChatsFit'
    BY <1>4, <1>8, <1>11, <2>1 DEF ChatsFit
  <2>3. ASSUME NEW d \in DOMAIN chats', chats'[d].type = "private"
        PROVE  /\ d \in DOMAIN chats /\ chats[d].type = "private"
               /\ Members(d)' = Members(d)
    BY <1>4, <1>8, <2>3
  <2>4. OnePrivateChatPerPair'
    BY <2>3 DEF IInv, OnePrivateChatPerPair
  <2> QED
    BY <2>2, <2>4
<1>13. MessagesAreReadable'
  BY <1>4, <1>9 DEF IInv, MessagesAreReadable
<1>14. CreationFits' /\ PosterIsMember'
  BY DEF Idle, CreationFits, PosterIsMember
<1> QED
  BY <1>10, <1>12, <1>13, <1>14 DEF IInv

LEMMA ChatLeaveInv ==
  ASSUME IInv, NEW me \in Ids, NEW c \in ChatIds, ChatLeave(me, c)
  PROVE  IInv'
<1>1. CASE \E code \in StatusCodes : Answer(code)
  BY <1>1, AnswerInv
<1>2. CASE /\ IsParticipant(me, c)
           /\ ExcludeUser(me, c)
           /\ Committed
           /\ UNCHANGED <<people, files, jobs>>
  <2>1. c \in DOMAIN chats
    BY <1>2, ParticipantType DEF IInv
  <2>2. CASE chats[c].size - 1 = ClosesAt(chats[c].type)
    BY <1>2, <2>1, <2>2, CloseChatInv DEF ExcludeUser, ChatLeave
  <2>3. CASE chats[c].size - 1 # ClosesAt(chats[c].type)
    <3>1. /\ chats' = [chats EXCEPT ![c].size = chats[c].size - 1]
          /\ members' = members \ {<<me, c>>}
          /\ UNCHANGED messages
      BY <1>2, <2>3 DEF ExcludeUser
    <3> QED
      BY <1>2, <2>3, <3>1, ShrinkChatInv DEF ChatLeave
  <2> QED
    BY <2>2, <2>3
<1> QED
  BY <1>1, <1>2 DEF ChatLeave, DatabaseFails, StatusCodes

-----------------------------------------------------------------------------
(* A message row whose sender is in the chat. *)
LEMMA PostMessageInv ==
  ASSUME IInv, NEW m \in MessageIds, NEW row \in MessageRow,
         IsParticipant(row.sender, row.chat), PostMessage(m, row),
         posting' \in {posting, {}}, UNCHANGED files
  PROVE  IInv'
<1>1. /\ messages' = Put(messages, m, row)
      /\ Committed
      /\ UNCHANGED <<registered, contacts, chats, members, creating>>
  BY DEF PostMessage, people, rooms
<1>2. TypeOK
  BY DEF IInv
<1>3. /\ DOMAIN messages' = DOMAIN messages \cup {m}
      /\ messages' \in [DOMAIN messages' -> MessageRow]
      /\ messages'[m] = row
      /\ \A x \in DOMAIN messages \ {m} : messages'[x] = messages[x]
  BY <1>1, <1>2 DEF Put, TypeOK
<1>4. row.chat \in DOMAIN chats /\ Members(row.chat) # {}
  BY <1>2, ParticipantType
<1>5. \A d : Members(d)' = Members(d)
  BY <1>1, <1>2, SameMembers
<1>6. TypeOK'
  <2>1. DOMAIN messages' \subseteq MessageIds
    BY <1>2, <1>3 DEF TypeOK
  <2>2. \A x \in DOMAIN messages' : messages'[x].chat \in DOMAIN chats'
    BY <1>1, <1>2, <1>3, <1>4 DEF TypeOK
  <2>3. posting' \subseteq MessageIds \X MessageRow
    BY <1>2 DEF TypeOK
  <2> QED
    BY <1>1, <1>2, <1>3, <2>1, <2>2, <2>3 DEF TypeOK, StatusCodes, Committed
<1>7. ChatsFit' /\ OnePrivateChatPerPair'
  BY <1>1, <1>5 DEF IInv, ChatsFit, Fits, OnePrivateChatPerPair
<1>8. MessagesAreReadable'
  BY <1>3, <1>4, <1>5 DEF IInv, MessagesAreReadable
<1>9. CreationFits' /\ PosterIsMember'
  BY <1>1, <1>5 DEF IInv, CreationFits, Fits, PosterIsMember, IsParticipant
<1> QED
  BY <1>6, <1>7, <1>8, <1>9 DEF IInv

(* The message of a participant is a row of its table. *)
LEMMA MessageType ==
  ASSUME NEW c \in ChatIds, NEW u \in Ids, NEW type \in {"text", "file"}
  PROVE  /\ Message(c, u, type) \in MessageRow
         /\ Message(c, u, type).chat = c
         /\ Message(c, u, type).sender = u
  BY DEF Message, MessageRow

LEMMA ChatPostTextInv ==
  ASSUME IInv, NEW me \in Ids, NEW c \in ChatIds, NEW m \in MessageIds, NEW content,
         ChatPostText(me, c, m, content)
  PROVE  IInv'
<1>1. CASE \E code \in StatusCodes : Answer(code)
  BY <1>1, AnswerInv
<1>2. CASE /\ IsParticipant(me, c)
           /\ PostMessage(m, Message(c, me, "text"))
           /\ UNCHANGED <<files, posting>>
  <2> DEFINE row == Message(c, me, "text")
  <2>1. row \in MessageRow /\ IsParticipant(row.sender, row.chat)
    BY <1>2, MessageType
  <2> HIDE DEF row
  <2> QED
    BY <1>2, <2>1, PostMessageInv DEF row
<1> QED
  BY <1>1, <1>2 DEF ChatPostText, DatabaseFails, StatusCodes

LEMMA ChatPostFileInv ==
  ASSUME IInv, NEW me \in Ids, NEW c \in ChatIds, NEW m \in MessageIds, NEW content,
         ChatPostFile(me, c, m, content)
  PROVE  IInv'
<1>1. CASE \E code \in StatusCodes : Answer(code)
  BY <1>1, AnswerInv
<1>2. CASE /\ IsParticipant(me, c)
           /\ files' = files \cup {<<c, m>>} \/ UNCHANGED files
           /\ posting' = {<<m, Message(c, me, "file")>>}
           /\ UNCHANGED <<people, rooms, messages, creating, reply>>
  <2> USE DEF people, rooms
  <2> DEFINE row == Message(c, me, "file")
  <2>1. row \in MessageRow /\ row.sender = me /\ row.chat = c
    BY MessageType
  <2> HIDE DEF row
  <2>2. posting' = {<<m, row>>}
    BY <1>2 DEF row
  <2>3. TypeOK'
    BY <1>2, <2>1, <2>2 DEF IInv, TypeOK
  <2>4. PosterIsMember'
    BY <1>2, <2>1, <2>2 DEF PosterIsMember, IsParticipant
  <2>5. \A d : Members(d)' = Members(d)
    BY <1>2, SameMembers DEF IInv
  <2>6. ChatsFit' /\ OnePrivateChatPerPair' /\ MessagesAreReadable' /\ CreationFits'
    BY <1>2, <2>5 DEF IInv, ChatsFit, Fits, OnePrivateChatPerPair, MessagesAreReadable,
       CreationFits
  <2> QED
    BY <2>3, <2>4, <2>6 DEF IInv
<1> QED
  BY <1>1, <1>2 DEF ChatPostFile, SaveFile, DatabaseFails, StatusCodes

LEMMA PostFileMessageInv ==
  ASSUME IInv, PostFileMessage \/ PostFileMessageFails
  PROVE  IInv'
<1>1. CASE PostFileMessage
  <2>1. PICK job \in posting : /\ PostMessage(job[1], job[2])
                               /\ posting' = {}
                               /\ UNCHANGED files
    BY <1>1 DEF PostFileMessage
  <2>2. /\ job[1] \in MessageIds /\ job[2] \in MessageRow
        /\ IsParticipant(job[2].sender, job[2].chat)
    BY DEF IInv, TypeOK, PosterIsMember
  <2> QED
    BY <2>1, <2>2, PostMessageInv
<1>2. CASE PostFileMessageFails
  <2>1. TypeOK'
    BY <1>2 DEF IInv, TypeOK, PostFileMessageFails, people, rooms, StatusCodes
  <2> QED
    BY <1>2, <2>1, QuietInv DEF PostFileMessageFails, people
<1> QED
  BY <1>1, <1>2

-----------------------------------------------------------------------------
LEMMA EnvironmentInv ==
  ASSUME IInv, Register \/ ContactsChange \/ Crash
  PROVE  IInv'
<1> USE DEF people, rooms, jobs
<1>1. CASE Register
  <2>1. TypeOK'
    BY <1>1 DEF IInv, TypeOK, Register
  <2> QED
    BY <1>1, <2>1, QuietInv DEF Register
<1>2. CASE ContactsChange
  <2>1. TypeOK'
    BY <1>2 DEF IInv, TypeOK, ContactsChange
  <2> QED
    BY <1>2, <2>1, QuietInv DEF ContactsChange
<1>3. CASE Crash
  <2>1. TypeOK'
    BY <1>3 DEF IInv, TypeOK, Crash, StatusCodes
  <2> QED
    BY <1>3, <2>1, QuietInv DEF Crash
<1> QED
  BY <1>1, <1>2, <1>3

LEMMA NextInv == IInv /\ [Next]_vars => IInv'
<1> SUFFICES ASSUME IInv, [Next]_vars PROVE IInv'
  OBVIOUS
<1>1. CASE \E me \in registered \cup {NoUser}, c \in ChatIds :
             RoomCommand(me, c) \/ PostCommand(me, c)
  <2>1. PICK me \in Ids, c \in ChatIds : RoomCommand(me, c) \/ PostCommand(me, c)
    BY <1>1 DEF IInv, TypeOK, Ids
  <2>2. CASE RoomCommand(me, c)
    BY <2>2, ChatCreatePublicInv, ChatCreatePrivateInv, ChatAddInv, ChatLeaveInv
       DEF RoomCommand
  <2>3. CASE PostCommand(me, c)
    BY <2>3, ChatPostTextInv, ChatPostFileInv DEF PostCommand
  <2> QED
    BY <2>1, <2>2, <2>3
<1>2. CASE InsertMembers \/ InsertMembersFails
  BY <1>2, InsertMembersInv, InsertMembersFailsInv
<1>3. CASE PostFileMessage \/ PostFileMessageFails
  BY <1>3, PostFileMessageInv
<1>4. CASE Register \/ ContactsChange \/ Crash
  BY <1>4, EnvironmentInv
<1>5. CASE UNCHANGED vars
  <2>1. TypeOK'
    BY <1>5 DEF IInv, TypeOK, vars
  <2> QED
    BY <1>5, <2>1, QuietInv DEF vars, rooms
<1> QED
  BY <1>1, <1>2, <1>3, <1>4, <1>5 DEF Next

-----------------------------------------------------------------------------
(* The tables of chats, members and messages keep IInv. *)
THEOREM Invariant == Spec => []IInv
  BY InitInv, NextInv, PTL DEF Spec

(* Tables have their types and obey their foreign keys. *)
THEOREM TypeCorrect == Spec => []TypeOK
<1>1. IInv => TypeOK
  BY DEF IInv
<1> QED
  BY <1>1, Invariant, PTL

(* The size column of a chat with members is their number. *)
THEOREM SizesAreRight == Spec => []SizeCountsMembers
<1>1. IInv => SizeCountsMembers
  BY DEF IInv, ChatsFit, Fits, SizeCountsMembers
<1> QED
  BY <1>1, Invariant, PTL

(* Private chats have two members or none. *)
THEOREM PrivateChatsArePairs == Spec => []PrivateChatsHaveTwo
<1>1. IInv => PrivateChatsHaveTwo
  BY DEF IInv, ChatsFit, Fits, PrivateChatsHaveTwo
<1> QED
  BY <1>1, Invariant, PTL

(* No pair of users has two private chats. *)
THEOREM PrivateChatsAreUnique == Spec => []OnePrivateChatPerPair
<1>1. IInv => OnePrivateChatPerPair
  BY DEF IInv
<1> QED
  BY <1>1, Invariant, PTL

(* No chat outgrows max_chat_participants_count. *)
THEOREM ChatsStayWithinLimit == Spec => []ParticipantsLimit
<1>1. IInv => ParticipantsLimit
  <2> SUFFICES ASSUME IInv, NEW c \in DOMAIN chats
               PROVE  Cardinality(Members(c)) <= MaxParticipants
    BY DEF ParticipantsLimit
  <2>1. CASE Members(c) = {}
    BY <2>1, FS_EmptySet, ChatsConstants
  <2>2. CASE Members(c) # {}
    BY <2>2 DEF IInv, ChatsFit, Fits
  <2> QED
    BY <2>1, <2>2
<1> QED
  BY <1>1, Invariant, PTL

(* No message is left in a chat nobody is in. *)
THEOREM MessagesStayReadable == Spec => []MessagesAreReadable
<1>1. IInv => MessagesAreReadable
  BY DEF IInv
<1> QED
  BY <1>1, Invariant, PTL

-----------------------------------------------------------------------------
(* What a chat in creation is going to be.                                 *)

CreationShape ==
  \A job \in creating :
    \/ chats[job[1]].type = "public" /\ \E u \in Ids : job[2] = {u}
    \/ chats[job[1]].type = "private" /\ \E u, v \in Ids : job[2] = {u, v}

LEMMA InsertChatShape ==
  ASSUME IInv, NEW c \in ChatIds, NEW type, NEW size, NEW ids,
         \/ type = "public" /\ \E u \in Ids : ids = {u}
         \/ type = "private" /\ \E u, v \in Ids : ids = {u, v},
         Idle, InsertChat(c, type, size, ids)
  PROVE  CreationShape'
<1>1. /\ chats' = Put(chats, c, [type |-> type, size |-> size])
      /\ creating' \in {{}, {<<c, ids>>}}
  BY DEF InsertChat, Idle
<1>2. chats'[c].type = type
  BY <1>1 DEF Put
<1> QED
  BY <1>1, <1>2 DEF CreationShape

(* Every other step keeps or ends a creation. *)
LEMMA ShapeFrame ==
  ASSUME CreationShape, creating' = {} \/ UNCHANGED <<chats, creating>>
  PROVE  CreationShape'
BY DEF CreationShape

LEMMA CreatePublicShape ==
  ASSUME IInv, CreationShape, NEW me \in Ids, NEW c \in ChatIds, NEW title,
         ChatCreatePublic(me, c, title)
  PROVE  CreationShape'
<1>1. CASE \E code \in StatusCodes : Answer(code)
  BY <1>1, ShapeFrame DEF Answer, rooms, jobs
<1>2. CASE Idle /\ InsertChat(c, "public", 1, {me})
  BY <1>2, InsertChatShape
<1> QED
  BY <1>1, <1>2 DEF ChatCreatePublic, DatabaseFails, StatusCodes

LEMMA CreatePrivateShape ==
  ASSUME IInv, CreationShape, NEW me \in Ids, NEW other \in Ids, NEW c \in ChatIds,
         ChatCreatePrivate(me, other, c)
  PROVE  CreationShape'
<1>1. CASE \E code \in StatusCodes : Answer(code)
  BY <1>1, ShapeFrame DEF Answer, rooms, jobs
<1>2. CASE Idle /\ InsertChat(c, "private", 2, {me, other})
  BY <1>2, InsertChatShape
<1> QED
  BY <1>1, <1>2 DEF ChatCreatePrivate, DatabaseFails, StatusCodes

LEMMA OtherCommandsShape ==
  ASSUME CreationShape, NEW me, NEW c,
         \/ \E u \in Ids : ChatAdd(me, c, u)
         \/ ChatLeave(me, c)
         \/ PostCommand(me, c)
  PROVE  CreationShape'
<1> USE ShapeFrame DEF Answer, rooms, jobs, people, DatabaseFails, Idle
<1>1. ASSUME NEW u \in Ids, ChatAdd(me, c, u) PROVE creating' = {}
  BY <1>1 DEF ChatAdd
<1>2. CASE ChatLeave(me, c)
  BY <1>2 DEF ChatLeave
<1>3. CASE PostCommand(me, c)
  <2>1. PICK m \in MessageIds, content \in {"fits", "oversized"} :
          ChatPostText(me, c, m, content) \/ ChatPostFile(me, c, m, content)
    BY <1>3 DEF PostCommand
  <2>2. CASE ChatPostText(me, c, m, content)
    BY <2>2 DEF ChatPostText, PostMessage
  <2>3. CASE ChatPostFile(me, c, m, content)
    BY <2>3 DEF ChatPostFile, SaveFile
  <2> QED
    BY <2>1, <2>2, <2>3
<1> QED
  BY <1>1, <1>2, <1>3

LEMMA NextShape ==
  ASSUME IInv, CreationShape, [Next]_vars
  PROVE  CreationShape'
<1> USE ShapeFrame DEF people, rooms, jobs
<1>1. ASSUME NEW me \in Ids, NEW c \in ChatIds, RoomCommand(me, c) \/ PostCommand(me, c)
      PROVE  CreationShape'
  BY <1>1, CreatePublicShape, CreatePrivateShape, OtherCommandsShape DEF RoomCommand
<1>2. CASE InsertMembers \/ InsertMembersFails
  BY <1>2 DEF InsertMembers, InsertMembersFails
<1>3. CASE PostFileMessage \/ PostFileMessageFails
  BY <1>3 DEF PostFileMessage, PostFileMessageFails, PostMessage
<1>4. CASE Register \/ ContactsChange \/ Crash
  BY <1>4 DEF Register, ContactsChange, Crash
<1>5. CASE UNCHANGED vars
  BY <1>5 DEF vars
<1>6. registered \cup {NoUser} \subseteq Ids
  BY DEF IInv, TypeOK, Ids
<1> QED
  BY <1>1, <1>2, <1>3, <1>4, <1>5, <1>6 DEF Next

(* A chat in creation has one member to come when it is public, and two    *)
(* ids, which may be of one user, when it is private.                      *)
THEOREM CreationsHaveShape == Spec => [](IInv /\ CreationShape)
<1>1. Init => CreationShape
  BY DEF Init, CreationShape
<1> QED
  BY <1>1, NextShape, InitInv, NextInv, PTL DEF Spec

-----------------------------------------------------------------------------
(* What each step does to the rooms.                                       *)

RoomStep == Rooms!Next \/ UNCHANGED <<Party, Kind>>

LEMMA OnlyChatsHaveMembers ==
  ASSUME TypeOK, NEW c, Members(c) # {}
  PROVE  c \in DOMAIN chats
<1>1. PICK u : <<u, c>> \in members
  BY DEF Members
<1> QED
  BY <1>1 DEF TypeOK

(* A row without members shows no room, and the type of a row is for good. *)
LEMMA SameRooms ==
  ASSUME TypeOK, members' = members, registered \subseteq registered',
         \A c \in DOMAIN chats : c \in DOMAIN chats' /\ chats'[c].type = chats[c].type
  PROVE  UNCHANGED <<Party, Kind>>
<1>1. \A c : Members(c)' = Members(c)
  BY SameMembers
<1>2. \A c : Members(c) # {} => c \in DOMAIN chats
  BY OnlyChatsHaveMembers
<1> QED
  BY <1>1, <1>2 DEF Party, Kind

LEMMA OneRoomBecomes ==
  ASSUME NEW c \in ChatIds, NEW k, NEW who, Members(c)' = who,
         k = IF who = {} THEN "none" ELSE chats'[c].type,
         \A d \in ChatIds \ {c} :
           Members(d)' = Members(d) /\ (Members(d) # {} => chats'[d].type = chats[d].type)
  PROVE  Rooms!Become(c, k, who)
<1>1. Party' = [Party EXCEPT ![c] = who]
  BY DEF Party
<1>2. Kind' = [Kind EXCEPT ![c] = k]
  BY DEF Kind
<1> QED
  BY <1>1, <1>2 DEF Rooms!Become

LEMMA InsertMembersRooms ==
  ASSUME IInv, CreationShape, InsertMembers
  PROVE  Rooms!Next
<1>1. PICK job \in creating :
        /\ job[2] \subseteq registered
        /\ Cardinality(job[2]) = chats[job[1]].size
        /\ members' = members \cup (job[2] \X {job[1]})
        /\ UNCHANGED <<registered, chats>>
  BY DEF InsertMembers, people
<1> DEFINE c == job[1]
           ids == job[2]
<1>2. /\ c \in DOMAIN chats /\ c \in ChatIds
      /\ Members(c) = {}
      /\ chats[c].type = "private" =>
           \A d \in DOMAIN chats : chats[d].type = "private" => Members(d) # ids
      /\ chats[c].type = "private" => Cardinality(ids) = 2
      /\ \/ chats[c].type = "public" /\ \E u \in Ids : ids = {u}
         \/ chats[c].type = "private" /\ \E u, v \in Ids : ids = {u, v}
  <2>1. creating \subseteq (DOMAIN chats) \X (SUBSET Ids) /\ DOMAIN chats \subseteq ChatIds
    BY DEF IInv, TypeOK
  <2>2. c \in DOMAIN chats /\ c \in ChatIds
    BY <1>1, <2>1
  <2>3. CreationFits /\ CreationShape
    BY DEF IInv
  <2>4. /\ Members(c) = {}
        /\ Cardinality(ids) = chats[c].size =>
             /\ Fits(c, ids)
             /\ chats[c].type = "private" =>
                  \A d \in DOMAIN chats : chats[d].type = "private" => Members(d) # ids
    BY <1>1, <2>3 DEF CreationFits
  <2>5. \/ chats[c].type = "public" /\ \E u \in Ids : ids = {u}
        \/ chats[c].type = "private" /\ \E u, v \in Ids : ids = {u, v}
    BY <1>1, <2>3 DEF CreationShape
  <2>6. Cardinality(ids) = chats[c].size
    BY <1>1
  <2> HIDE DEF c, ids
  <2> QED BY <2>2, <2>4, <2>5, <2>6 DEF Fits
<1>3. /\ Members(c)' = ids
      /\ \A d : d # c => Members(d)' = Members(d)
  <2>1. ids \subseteq registered /\ members' = members \cup (ids \X {c}) /\ registered' = registered
    BY <1>1
  <2>2. Members(c) = {}
    BY <1>2
  <2> HIDE DEF c, ids
  <2>3. Members(c)' = ids
    BY <2>1, <2>2 DEF Members
  <2>4. ASSUME NEW d, d # c PROVE Members(d)' = Members(d)
    BY <2>1, <2>4 DEF Members
  <2> QED BY <2>3, <2>4
<1>4. ids \subseteq Users
  BY <1>1 DEF IInv, TypeOK
<1> HIDE DEF c, ids
<1>5. ids # {} /\ chats'[c].type = chats[c].type
  BY <1>1, <1>2
<1>6. Rooms!Become(c, chats[c].type, ids)
  BY <1>1, <1>2, <1>3, <1>5, OneRoomBecomes
<1>7. c \in Rooms!Changed
  BY <1>2, <1>3, <1>5 DEF Rooms!Changed, Party
<1>8. Kind[c] = "none"
  BY <1>2 DEF Kind
<1>9. CASE chats[c].type = "public"
  <2>1. PICK u \in Users : ids = {u}
    BY <1>2, <1>4, <1>9
  <2>2. Rooms!OpenPublic(c, u)
    BY <1>6, <1>8, <1>9, <2>1 DEF Rooms!OpenPublic
  <2> QED
    BY <1>7, <2>2 DEF Rooms!Next
<1>10. CASE chats[c].type = "private"
  <2>0. PICK u, v : ids = {u, v}
    BY <1>2, <1>10
  <2>1. u \in Users /\ v \in Users /\ u # v /\ ids = {u, v}
    <3>1. u = v => ids = {u}
      BY <2>0
    <3>2. Cardinality({u}) = 1
      BY FS_Singleton
    <3> QED BY <1>2, <1>4, <1>10, <2>0, <3>1, <3>2
  <2>2. ASSUME NEW d \in ChatIds, Kind[d] = "private" PROVE Party[d] # {u, v}
    <3>1. Members(d) # {} /\ chats[d].type = "private"
      BY <2>2 DEF Kind
    <3>2. d \in DOMAIN chats
      BY <3>1, OnlyChatsHaveMembers DEF IInv
    <3> QED
      BY <1>2, <1>10, <2>1, <3>1, <3>2 DEF Party
  <2>3. Rooms!OpenPrivate(c, u, v)
    BY <1>6, <1>8, <1>10, <2>1, <2>2 DEF Rooms!OpenPrivate
  <2> QED
    BY <1>7, <2>1, <2>3 DEF Rooms!Next
<1> QED
  BY <1>2, <1>9, <1>10

LEMMA ChatAddRooms ==
  ASSUME IInv, NEW me \in Ids, NEW c \in ChatIds, NEW u \in Ids, ChatAdd(me, c, u)
  PROVE  RoomStep
<1>1. CASE \E code \in StatusCodes : Answer(code)
  BY <1>1, SameRooms DEF Answer, people, rooms, IInv, RoomStep
<1>2. CASE /\ IsParticipant(me, c) /\ chats[c].type = "public"
           /\ MayBeContacts(me, u) /\ ~IsParticipant(u, c)
           /\ AddUserToChat(c, u)
           /\ UNCHANGED <<people, messages, files, jobs>>
  <2>1. u \in registered /\ u \in Users
    <3>1. u # me
      BY <1>2
    <3>2. {me, u} \in contacts
      BY <1>2, <3>1 DEF MayBeContacts
    <3> QED
      BY <3>2 DEF IInv, TypeOK
  <2>2. c \in DOMAIN chats /\ me \in Members(c) /\ chats[c] \in ChatRow
    BY <1>2, ParticipantType DEF IInv, TypeOK
  <2>3. /\ Members(c)' = Members(c) \cup {u}
        /\ \A d : d # c => Members(d)' = Members(d)
    BY <1>2, <2>1 DEF AddUserToChat, Members, people
  <2>4. \A d \in DOMAIN chats : chats'[d].type = chats[d].type
    BY <1>2, <2>2 DEF AddUserToChat, ChatRow, IInv, TypeOK
  <2>5. \A d : Members(d) # {} => d \in DOMAIN chats
    BY OnlyChatsHaveMembers DEF IInv
  <2>6. Rooms!Become(c, "public", Party[c] \cup {u})
    BY <1>2, <2>2, <2>3, <2>4, <2>5, OneRoomBecomes DEF Party
  <2>7. u \notin Party[c] /\ Kind[c] = "public"
    BY <1>2, <2>2 DEF Party, Kind, Members, IsParticipant
  <2>8. c \in Rooms!Changed
    BY <2>3, <2>7 DEF Rooms!Changed, Party
  <2>9. Rooms!Join(c, u)
    BY <2>6, <2>7 DEF Rooms!Join
  <2> QED
    BY <2>1, <2>8, <2>9 DEF Rooms!Next, RoomStep
<1> QED
  BY <1>1, <1>2 DEF ChatAdd, DatabaseFails, StatusCodes

LEMMA ChatLeaveRooms ==
  ASSUME IInv, NEW me \in Ids, NEW c \in ChatIds, ChatLeave(me, c)
  PROVE  RoomStep
<1>1. CASE \E code \in StatusCodes : Answer(code)
  BY <1>1, SameRooms DEF Answer, people, rooms, IInv, RoomStep
<1>2. CASE /\ IsParticipant(me, c)
           /\ ExcludeUser(me, c)
           /\ UNCHANGED <<people, files, jobs>>
  <2>1. /\ c \in DOMAIN chats /\ me \in Members(c) /\ chats[c] \in ChatRow
        /\ me \in registered /\ me \in Users /\ registered' = registered
    BY <1>2, ParticipantType DEF IInv, TypeOK, people
  <2>2. /\ Fits(c, Members(c))
        /\ IsFiniteSet(Members(c)) /\ Cardinality(Members(c)) \in Nat
    BY <2>1, MembersFinite DEF IInv, ChatsFit
  <2>3. me \in Party[c] /\ Kind[c] = chats[c].type
    BY <2>1 DEF Party, Kind
  <2>4. \A d : Members(d) # {} => d \in DOMAIN chats
    BY OnlyChatsHaveMembers DEF IInv
  <2>5. CASE chats[c].size - 1 = ClosesAt(chats[c].type)
    <3>1. /\ chats' = Remove(chats, c)
          /\ members' = {p \in members : p[2] # c}
      BY <1>2, <2>5 DEF ExcludeUser
    <3>2. Members(c)' = {} /\ \A d : d # c => Members(d)' = Members(d)
      BY <2>1, <3>1 DEF Members, IInv, TypeOK
    <3>3. \A d \in DOMAIN chats \ {c} : chats'[d].type = chats[d].type
      BY <3>1 DEF Remove, Restrict
    <3>4. Rooms!Become(c, "none", {})
      BY <2>4, <3>2, <3>3, OneRoomBecomes
    <3>5. c \in Rooms!Changed
      BY <2>1, <3>2 DEF Rooms!Changed, Party
    <3>6. Kind[c] = "public" => Party[c] = {me}
      <4> SUFFICES ASSUME chats[c].type = "public" PROVE Members(c) = {me}
        BY <2>3 DEF Party
      <4>1. Cardinality(Members(c)) = 1
        BY <2>1, <2>2, <2>5 DEF Fits, ClosesAt, ChatRow
      <4>2. PICK x : Members(c) = {x}
        BY <2>2, <4>1, FS_Singleton
      <4> QED
        BY <2>1, <4>2
    <3>7. Rooms!Leave(c, me)
      BY <2>3, <3>4, <3>6 DEF Rooms!Leave
    <3> QED
      BY <2>1, <3>5, <3>7 DEF Rooms!Next, RoomStep
  <2>6. CASE chats[c].size - 1 # ClosesAt(chats[c].type)
    <3>1. /\ chats' = [chats EXCEPT ![c].size = chats[c].size - 1]
          /\ members' = members \ {<<me, c>>}
      BY <1>2, <2>6 DEF ExcludeUser
    <3>2. /\ Members(c)' = Members(c) \ {me}
          /\ \A d : d # c => Members(d)' = Members(d)
      BY <2>1, <3>1 DEF Members
    <3>3. \A d \in DOMAIN chats : chats'[d].type = chats[d].type
      BY <2>1, <3>1 DEF ChatRow, IInv, TypeOK
    <3>4. chats[c].type = "public" /\ Cardinality(Members(c)) # 1
      BY <2>1, <2>2, <2>6 DEF Fits, ClosesAt, ChatRow
    <3>5. Members(c) # {me}
      BY <3>4, FS_Singleton
    <3>6. Rooms!Become(c, "public", Party[c] \ {me})
      BY <2>1, <2>4, <3>2, <3>3, <3>4, <3>5, OneRoomBecomes DEF Party
    <3>7. c \in Rooms!Changed
      BY <2>1, <3>2 DEF Rooms!Changed, Party
    <3>8. Rooms!Leave(c, me)
      BY <2>3, <3>4, <3>5, <3>6 DEF Rooms!Leave, Party
    <3> QED
      BY <2>1, <3>7, <3>8 DEF Rooms!Next, RoomStep
  <2> QED
    BY <2>5, <2>6
<1> QED
  BY <1>1, <1>2 DEF ChatLeave, DatabaseFails, StatusCodes

LEMMA InsertChatRooms ==
  ASSUME IInv, NEW c \in ChatIds, NEW type, NEW size, NEW ids, InsertChat(c, type, size, ids)
  PROVE  RoomStep
<1>1. /\ members' = members /\ registered' = registered
      /\ c \notin DOMAIN chats
      /\ chats' = Put(chats, c, [type |-> type, size |-> size])
  BY DEF InsertChat, people
<1>2. \A d \in DOMAIN chats : d \in DOMAIN chats' /\ chats'[d].type = chats[d].type
  BY <1>1 DEF Put
<1> QED
  BY <1>1, <1>2, SameRooms DEF IInv, RoomStep

LEMMA QuietRooms ==
  ASSUME IInv, UNCHANGED rooms, registered \subseteq registered'
  PROVE  RoomStep
BY SameRooms DEF rooms, IInv, RoomStep

LEMMA CreateRooms ==
  ASSUME IInv, NEW me, NEW c \in ChatIds, NEW title, NEW other,
         ChatCreatePublic(me, c, title) \/ ChatCreatePrivate(me, other, c)
  PROVE  RoomStep
<1>1. CASE \E code : Answer(code)
  BY <1>1, QuietRooms DEF Answer, people
<1>2. CASE \E type, size, ids : InsertChat(c, type, size, ids)
  BY <1>2, InsertChatRooms
<1>3. CASE ChatCreatePublic(me, c, title)
  BY <1>1, <1>2, <1>3 DEF ChatCreatePublic, DatabaseFails
<1>4. CASE ChatCreatePrivate(me, other, c)
  BY <1>1, <1>2, <1>4 DEF ChatCreatePrivate, DatabaseFails
<1> QED
  BY <1>3, <1>4

LEMMA PostRooms ==
  ASSUME IInv, NEW me, NEW c, PostCommand(me, c)
  PROVE  RoomStep
<1> USE QuietRooms DEF Answer, people, DatabaseFails
<1>1. PICK m \in MessageIds, content \in {"fits", "oversized"} :
        ChatPostText(me, c, m, content) \/ ChatPostFile(me, c, m, content)
  BY DEF PostCommand
<1>2. CASE ChatPostText(me, c, m, content)
  BY <1>2 DEF ChatPostText, PostMessage
<1>3. CASE ChatPostFile(me, c, m, content)
  BY <1>3 DEF ChatPostFile, SaveFile
<1> QED
  BY <1>1, <1>2, <1>3

LEMMA InitRooms == Init => Rooms!Init
BY DEF Init, Rooms!Init, Party, Kind, Members

(* One step. *)
LEMMA NextRooms ==
  ASSUME IInv, CreationShape, [Next]_vars
  PROVE  RoomStep
<1>1. registered \cup {NoUser} \subseteq Ids
  BY DEF IInv, TypeOK, Ids
<1>2. ASSUME NEW me \in Ids, NEW c \in ChatIds, RoomCommand(me, c) \/ PostCommand(me, c)
      PROVE  RoomStep
  BY <1>2, CreateRooms, ChatAddRooms, ChatLeaveRooms, PostRooms DEF RoomCommand
<1>3. CASE InsertMembers
  BY <1>3, InsertMembersRooms DEF RoomStep
<1>4. CASE InsertMembersFails \/ PostFileMessage \/ PostFileMessageFails
  BY <1>4, QuietRooms DEF InsertMembersFails, PostFileMessage, PostFileMessageFails,
     PostMessage, people
<1>5. CASE Register \/ ContactsChange \/ Crash
  BY <1>5, QuietRooms DEF Register, ContactsChange, Crash, people
<1>6. CASE UNCHANGED vars
  BY <1>6, QuietRooms DEF vars, rooms
<1> QED
  BY <1>1, <1>2, <1>3, <1>4, <1>5, <1>6 DEF Next

(* For any users, chats and limits, the tables behave as rooms that open   *)
(* with all their members at once and close at once: the size column, half *)
(* created chats and orphans do not show.                                  *)
THEOREM Refinement == Spec => ImplementsChatRooms
<1>1. IInv /\ CreationShape /\ [Next]_vars => [Rooms!Next]_<<Party, Kind>>
  BY NextRooms DEF RoomStep
<1> QED
  BY <1>1, InitRooms, CreationsHaveShape, PTL DEF Spec, ImplementsChatRooms, Rooms!Spec, Rooms!vars

-----------------------------------------------------------------------------
(* Orphans, and who posts.                                                 *)

OrphanStep == Orphans' \subseteq Orphans \/ InsertMembersFails \/ Crash \/ CreationUnheard

LEMMA QuietOrphans ==
  ASSUME IInv, UNCHANGED <<rooms, creating>>, registered \subseteq registered'
  PROVE  OrphanStep
<1>1. \A c : Members(c)' = Members(c)
  BY SameMembers DEF rooms, IInv
<1> QED
  BY <1>1 DEF rooms, Orphans, OrphanStep

LEMMA InsertChatOrphans ==
  ASSUME IInv, Idle, NEW c, NEW type, NEW size, NEW ids, InsertChat(c, type, size, ids)
  PROVE  OrphanStep
<1>1. /\ members' = members /\ registered' = registered
      /\ chats' = Put(chats, c, [type |-> type, size |-> size])
      /\ c \notin DOMAIN chats /\ creating = {}
      /\ \/ creating' = {<<c, ids>>}
         \/ reply' = "SYS__INTERNAL_SERVER_ERROR" /\ creating' = {}
  BY DEF InsertChat, people, Idle
<1>2. DOMAIN chats' = DOMAIN chats \cup {c}
  BY <1>1 DEF Put
<1>3. \A d : Members(d)' = Members(d)
  BY <1>1 DEF Members
<1>4. CASE creating' = {<<c, ids>>}
  BY <1>1, <1>2, <1>3, <1>4 DEF Orphans, OrphanStep
<1>5. CASE reply' = "SYS__INTERNAL_SERVER_ERROR" /\ creating' = {}
  <2>1. Members(c) = {}
    BY <1>1 DEF IInv, TypeOK, Members
  <2>2. Orphans' = Orphans \cup {c}
    BY <1>1, <1>2, <1>3, <1>5, <2>1 DEF Orphans
  <2> QED
    BY <1>1, <1>2, <1>5, <2>2 DEF CreationUnheard, OrphanStep
<1> QED
  BY <1>1, <1>4, <1>5

LEMMA CreateOrphans ==
  ASSUME IInv, NEW me, NEW c, NEW title, NEW other,
         ChatCreatePublic(me, c, title) \/ ChatCreatePrivate(me, other, c)
  PROVE  OrphanStep
<1>1. CASE \E code : Answer(code)
  BY <1>1, QuietOrphans DEF Answer, people, jobs
<1>2. CASE Idle /\ \E type, size, ids : InsertChat(c, type, size, ids)
  BY <1>2, InsertChatOrphans
<1>3. CASE ChatCreatePublic(me, c, title)
  BY <1>1, <1>2, <1>3 DEF ChatCreatePublic, DatabaseFails
<1>4. CASE ChatCreatePrivate(me, other, c)
  BY <1>1, <1>2, <1>4 DEF ChatCreatePrivate, DatabaseFails
<1> QED
  BY <1>3, <1>4

LEMMA InsertMembersOrphans ==
  ASSUME IInv, CreationShape, InsertMembers
  PROVE  OrphanStep
<1>1. PICK job \in creating :
        /\ job[2] \subseteq registered
        /\ members' = members \cup (job[2] \X {job[1]})
        /\ creating' = {}
        /\ UNCHANGED <<registered, chats>>
  BY DEF InsertMembers, people
<1>2. creating = {job} /\ job[2] # {}
  BY DEF IInv, CreationFits, CreationShape
<1>3. Members(job[1])' # {} /\ \A d : d # job[1] => Members(d)' = Members(d)
  BY <1>1, <1>2 DEF Members
<1> QED
  BY <1>1, <1>2, <1>3 DEF Orphans, OrphanStep

LEMMA ChatAddOrphans ==
  ASSUME IInv, NEW me, NEW c, NEW u, ChatAdd(me, c, u)
  PROVE  OrphanStep
<1>1. CASE \E code \in StatusCodes : Answer(code)
  BY <1>1, QuietOrphans DEF Answer, people, jobs
<1>2. CASE AddUserToChat(c, u) /\ UNCHANGED <<people, jobs>>
  <2>1. DOMAIN chats' = DOMAIN chats /\ creating' = creating
    BY <1>2 DEF AddUserToChat, jobs
  <2>2. \A d : Members(d) \subseteq Members(d)'
    BY <1>2 DEF AddUserToChat, Members, people
  <2> QED
    BY <2>1, <2>2 DEF Orphans, OrphanStep
<1> QED
  BY <1>1, <1>2 DEF ChatAdd, DatabaseFails, StatusCodes

(* chat_leave takes the last member and the chat together. *)
LEMMA ChatLeaveOrphans ==
  ASSUME IInv, NEW me, NEW c, ChatLeave(me, c)
  PROVE  OrphanStep
<1>1. CASE \E code \in StatusCodes : Answer(code)
  BY <1>1, QuietOrphans DEF Answer, people, jobs
<1>2. CASE /\ IsParticipant(me, c)
           /\ ExcludeUser(me, c)
           /\ UNCHANGED <<people, files, jobs>>
  <2>1. /\ c \in DOMAIN chats /\ me \in Members(c) /\ chats[c] \in ChatRow
        /\ registered' = registered /\ creating' = creating
    BY <1>2, ParticipantType DEF IInv, TypeOK, people, jobs
  <2>2. /\ Fits(c, Members(c))
        /\ IsFiniteSet(Members(c)) /\ Cardinality(Members(c)) \in Nat
    BY <2>1, MembersFinite DEF IInv, ChatsFit
  <2>3. CASE chats[c].size - 1 = ClosesAt(chats[c].type)
    <3>1. /\ chats' = Remove(chats, c)
          /\ members' = {p \in members : p[2] # c}
      BY <1>2, <2>3 DEF ExcludeUser
    <3>2. DOMAIN chats' = DOMAIN chats \ {c}
      BY <3>1 DEF Remove, Restrict
    <3>3. \A d : d # c => Members(d)' = Members(d)
      BY <2>1, <3>1 DEF Members, IInv, TypeOK
    <3> QED
      BY <2>1, <3>2, <3>3 DEF Orphans, OrphanStep
  <2>4. CASE chats[c].size - 1 # ClosesAt(chats[c].type)
    <3>1. /\ DOMAIN chats' = DOMAIN chats
          /\ members' = members \ {<<me, c>>}
      BY <1>2, <2>4 DEF ExcludeUser
    <3>2. /\ Members(c)' = Members(c) \ {me}
          /\ \A d : d # c => Members(d)' = Members(d)
      BY <2>1, <3>1 DEF Members
    <3>3. Cardinality(Members(c)) # 1
      BY <2>1, <2>2, <2>4 DEF Fits, ClosesAt, ChatRow
    <3>4. Members(c) # {me}
      BY <3>3, FS_Singleton
    <3>5. Members(c)' # {}
      BY <2>1, <3>2, <3>4
    <3> QED
      BY <2>1, <3>1, <3>2, <3>5 DEF Orphans, OrphanStep
  <2> QED
    BY <2>3, <2>4
<1> QED
  BY <1>1, <1>2 DEF ChatLeave, DatabaseFails, StatusCodes

LEMMA PostOrphans ==
  ASSUME IInv, NEW me, NEW c, PostCommand(me, c)
  PROVE  OrphanStep
<1> USE QuietOrphans DEF Answer, people, DatabaseFails, jobs
<1>1. PICK m \in MessageIds, content \in {"fits", "oversized"} :
        ChatPostText(me, c, m, content) \/ ChatPostFile(me, c, m, content)
  BY DEF PostCommand
<1>2. CASE ChatPostText(me, c, m, content)
  BY <1>2 DEF ChatPostText, PostMessage
<1>3. CASE ChatPostFile(me, c, m, content)
  BY <1>3 DEF ChatPostFile, SaveFile
<1> QED
  BY <1>1, <1>2, <1>3

LEMMA NextOrphans ==
  ASSUME IInv, CreationShape, Next
  PROVE  OrphanStep
<1>1. ASSUME NEW me, NEW c, RoomCommand(me, c) \/ PostCommand(me, c)
      PROVE  OrphanStep
  BY <1>1, CreateOrphans, ChatAddOrphans, ChatLeaveOrphans, PostOrphans DEF RoomCommand
<1>2. CASE InsertMembers
  BY <1>2, InsertMembersOrphans
<1>3. CASE PostFileMessage \/ PostFileMessageFails
  BY <1>3, QuietOrphans DEF PostFileMessage, PostFileMessageFails, PostMessage, people
<1>4. CASE Register \/ ContactsChange
  BY <1>4, QuietOrphans DEF Register, ContactsChange, jobs
<1> QED
  BY <1>1, <1>2, <1>3, <1>4 DEF Next, OrphanStep

(* For any users, chats and limits, a chat nobody can reach any more comes *)
(* only from a creation that was cut after its first statement: leaving    *)
(* never makes one.                                                        *)
THEOREM OrphansHaveACause == Spec => OrphansOnlyByFault
<1>1. IInv /\ CreationShape /\ [Next]_vars => [OrphanStep]_vars
  BY NextOrphans
<1>2. OrphanStep <=> (Orphans' \subseteq Orphans \/ InsertMembersFails \/ Crash \/ CreationUnheard)
  BY DEF OrphanStep
<1> QED
  BY <1>1, <1>2, CreationsHaveShape, PTL DEF Spec, OrphansOnlyByFault, OrphanStep

-----------------------------------------------------------------------------
(* The module of the orders counts as this one does. *)
LEMMA SameCount == ASSUME NEW S PROVE SequenceOps!Cardinality(S) = Cardinality(S)
BY DEF SequenceOps!Cardinality, Cardinality, SequenceOps!IsFiniteSet, IsFiniteSet

(* An order of a finite set has every element once. *)
LEMMA OrderIsOnto ==
  ASSUME NEW S, IsFiniteSet(S), NEW s \in SequenceOps!SetToSeqs(S)
  PROVE  /\ s \in Seq(S)
         /\ Len(s) = Cardinality(S) /\ Len(s) \in Nat /\ DOMAIN s = 1 .. Len(s)
         /\ \A i, j \in 1 .. Len(s) : i # j => s[i] # s[j]
         /\ \A x \in S : \E i \in 1 .. Len(s) : s[i] = x
<1> DEFINE n == Cardinality(S)
<1>1. n \in Nat
  BY FS_CardinalityType
<1>2. s \in [1 .. n -> S] /\ \A i, j \in 1 .. n : i # j => s[i] # s[j]
  BY SameCount DEF SequenceOps!SetToSeqs
<1>3. s \in Seq(S) /\ Len(s) = n /\ DOMAIN s = 1 .. n
  BY <1>1, <1>2
<1>4. s \in Injection(1 .. n, S)
  BY <1>2 DEF Injection, IsInjective
<1>5. IsFiniteSet(1 .. n) /\ Cardinality(1 .. n) = n
  BY <1>1, FS_Interval
<1>6. s \in Surjection(1 .. n, S)
  BY <1>4, <1>5, FS_Injection
<1> QED
  BY <1>1, <1>2, <1>3, <1>6 DEF Surjection

(* The messages later than m. *)
Later(S, t, m) == {x \in S : t[x] > t[m]}

Rank(S, t, m) == Cardinality(Later(S, t, m))

Alone(S, t, m) == \A o \in S : o # m => t[o] # t[m]

(* A message that is alone with its time has one place in any order by     *)
(* time: behind those that are later.                                      *)
LEMMA PlaceOfTheAlone ==
  ASSUME NEW S, IsFiniteSet(S), NEW t, \A x \in S : t[x] \in Nat,
         NEW s \in SequenceOps!SetToSeqs(S),
         \A i, j \in DOMAIN s : i < j => t[s[i]] >= t[s[j]],
         NEW m \in S, Alone(S, t, m)
  PROVE  Rank(S, t, m) \in Nat /\ Rank(S, t, m) + 1 \in 1 .. Len(s) /\ s[Rank(S, t, m) + 1] = m
<1>1. /\ s \in Seq(S) /\ Len(s) \in Nat /\ DOMAIN s = 1 .. Len(s)
      /\ \A i, j \in 1 .. Len(s) : i # j => s[i] # s[j]
      /\ \A x \in S : \E i \in 1 .. Len(s) : s[i] = x
  BY OrderIsOnto
<1>2. PICK p \in 1 .. Len(s) : s[p] = m
  BY <1>1
<1> DEFINE before == [i \in 1 .. p - 1 |-> s[i]]
<1>3. p \in Nat /\ p >= 1 /\ p - 1 \in Nat
  BY <1>1, <1>2
<1>4. \A i \in 1 .. Len(s) : s[i] \in S
  BY <1>1
<1>5. \A i \in 1 .. p - 1 : s[i] \in Later(S, t, m)
  <2> SUFFICES ASSUME NEW i \in 1 .. p - 1 PROVE s[i] \in Later(S, t, m)
    OBVIOUS
  <2>1. i \in 1 .. Len(s) /\ i < p
    BY <1>1, <1>2, <1>3
  <2>2. s[i] \in S /\ s[i] # m /\ t[s[i]] >= t[m]
    BY <1>1, <1>2, <1>4, <2>1
  <2> QED BY <2>2 DEF Alone, Later
<1>6. \A x \in Later(S, t, m) : \E i \in 1 .. p - 1 : s[i] = x
  <2> SUFFICES ASSUME NEW x \in Later(S, t, m) PROVE \E i \in 1 .. p - 1 : s[i] = x
    OBVIOUS
  <2>1. x \in S /\ t[x] > t[m] /\ t[x] \in Nat /\ t[m] \in Nat
    BY DEF Later
  <2>2. PICK i \in 1 .. Len(s) : s[i] = x
    BY <1>1, <2>1
  <2>3. i # p /\ ~(p < i)
    BY <1>1, <1>2, <2>1, <2>2
  <2>4. i \in 1 .. p - 1
    BY <1>1, <1>2, <2>2, <2>3
  <2> QED BY <2>2, <2>4
<1>7. before \in Bijection(1 .. p - 1, Later(S, t, m))
  <2>1. before \in [1 .. p - 1 -> Later(S, t, m)]
    BY <1>5
  <2>2. \A i, j \in 1 .. p - 1 : before[i] = before[j] => i = j
    BY <1>1, <1>2, <1>3
  <2>3. \A x \in Later(S, t, m) : \E i \in 1 .. p - 1 : before[i] = x
    BY <1>6
  <2> QED BY <2>1, <2>2, <2>3 DEF Bijection, Injection, IsInjective, Surjection
<1>8. ExistsBijection(1 .. p - 1, Later(S, t, m))
  BY <1>7 DEF ExistsBijection
<1>9. IsFiniteSet(1 .. p - 1) /\ Cardinality(1 .. p - 1) = p - 1
  BY <1>3, FS_Interval
<1>10. Rank(S, t, m) = p - 1
  BY <1>8, <1>9, FS_Bijection DEF Rank
<1> QED
  BY <1>2, <1>3, <1>10

(* A page shows the message, or the next page begins at its place or       *)
(* before; a page that is not full shows it.                               *)
LEMMA PageShows ==
  ASSUME NEW S, IsFiniteSet(S), NEW t, \A x \in S : t[x] \in Nat,
         NEW s \in SequenceOps!SetToSeqs(S),
         \A i, j \in DOMAIN s : i < j => t[s[i]] >= t[s[j]],
         NEW offset \in Nat, NEW m \in S, Alone(S, t, m), Rank(S, t, m) >= offset
  PROVE  \/ m \in Range(Limit(s, offset, PageSize))
         \/ /\ Rank(S, t, m) >= offset + PageSize
            /\ Len(Limit(s, offset, PageSize)) = PageSize
<1> DEFINE r == Rank(S, t, m)
           last == IF Len(s) < offset + PageSize THEN Len(s) ELSE offset + PageSize
           rows == SubSeq(s, offset + 1, last)
<1>1. s \in Seq(S) /\ Len(s) \in Nat
  BY OrderIsOnto
<1>2. r \in Nat /\ r + 1 \in 1 .. Len(s) /\ s[r + 1] = m
  BY PlaceOfTheAlone
<1>3. PageSize \in Nat /\ PageSize > 0
  BY MessagesConstants DEF MessagesConstants
<1>4. rows = Limit(s, offset, PageSize)
  BY DEF Limit
<1> HIDE DEF r
<1>5. /\ offset + 1 \in Int /\ last \in Int
      /\ \A i \in offset + 1 .. last : s[i] \in S
  BY <1>1, <1>3
<1>6. /\ Len(rows) = IF offset + 1 <= last THEN last - (offset + 1) + 1 ELSE 0
      /\ \A i \in 1 .. last - (offset + 1) + 1 : rows[i] = s[offset + 1 + i - 1]
      /\ rows \in Seq(S)
  BY <1>5, SubSeqProperties
<1>7. CASE r + 1 <= last
  <2>1. r + 1 - offset \in 1 .. last - (offset + 1) + 1
    BY <1>1, <1>2, <1>3, <1>7 DEF r
  <2>2. rows[r + 1 - offset] = m /\ r + 1 - offset \in DOMAIN rows
    BY <1>1, <1>2, <1>3, <1>6, <1>7, <2>1
  <2>3. m \in Range(rows)
    BY <2>2 DEF Range
  <2> QED BY <1>4, <2>3
<1>8. CASE r + 1 > last
  <2>1. Len(s) >= offset + PageSize /\ last = offset + PageSize
    BY <1>1, <1>2, <1>3, <1>8
  <2>2. Len(rows) = PageSize
    BY <1>3, <1>6, <2>1
  <2>3. r >= offset + PageSize
    BY <1>2, <1>3, <1>8, <2>1
  <2> QED BY <1>4, <2>2, <2>3 DEF r
<1> QED
  BY <1>1, <1>2, <1>3, <1>7, <1>8

-----------------------------------------------------------------------------
(* What a command of Chats does to the messages.                           *)

(* The message of a file in progress is not in the table yet. *)
JobsAreNew ==
  \A job \in posting : posting = {job} /\ job[1] \notin DOMAIN messages

Keeps == messages' = messages

Posts(m, row) ==
  /\ m \in MessageIds \ DOMAIN messages
  /\ row \in MessageRow /\ IsParticipant(row.sender, row.chat)
  /\ messages' = Put(messages, m, row)
  /\ posting' = {} /\ files' = files
  /\ posting # {} => posting = {<<m, row>>}

Deletes(c) ==
  /\ c \in DOMAIN chats \ DOMAIN chats'
  /\ messages' = Restrict(messages, {m \in DOMAIN messages : messages[m].chat # c})
  /\ posting' = posting /\ posting = {} /\ files' = files

LEMMA LeaveMessages ==
  ASSUME IInv, NEW me, NEW c, ChatLeave(me, c)
  PROVE  (Keeps /\ UNCHANGED <<posting, files>>) \/ Deletes(c)
<1>1. CASE Keeps
  BY <1>1 DEF ChatLeave, DatabaseFails, Answer, jobs
<1>2. CASE ~Keeps
  <2>1. IsParticipant(me, c) /\ ExcludeUser(me, c) /\ UNCHANGED <<people, files, jobs>> /\ Idle
    BY <1>2 DEF ChatLeave, DatabaseFails, Answer, Keeps
  <2>2. /\ chats' = Remove(chats, c)
        /\ messages' = Restrict(messages, {m \in DOMAIN messages : messages[m].chat # c})
    BY <1>2, <2>1 DEF ExcludeUser, Keeps
  <2>3. c \in DOMAIN chats
    BY <2>1, ParticipantType DEF IInv
  <2>4. c \notin DOMAIN chats'
    BY <2>2 DEF Remove, Restrict
  <2> QED BY <2>1, <2>2, <2>3, <2>4 DEF Deletes, Idle, jobs
<1> QED BY <1>1, <1>2

LEMMA PostMessages ==
  ASSUME IInv, NEW me \in Ids, NEW c \in ChatIds, NEW m \in MessageIds, NEW content,
         ChatPostText(me, c, m, content) \/ ChatPostFile(me, c, m, content)
  PROVE  \/ Keeps /\ UNCHANGED <<posting, files>>
         \/ \E row : Posts(m, row)
         \/ /\ Keeps /\ m \notin DOMAIN messages /\ posting = {}
            /\ \E row : posting' = {<<m, row>>} /\ row.chat = c
            /\ files' \subseteq files \cup {<<c, m>>}
<1>1. m \notin DOMAIN messages /\ Idle
  BY DEF ChatPostText, ChatPostFile
<1>2. \A type \in {"text", "file"} :
        /\ Message(c, me, type) \in MessageRow
        /\ Message(c, me, type).chat = c
        /\ Message(c, me, type).sender = me
  BY MessageType
<1>3. CASE \E code : Answer(code)
  BY <1>3 DEF Answer, Keeps, jobs
<1>4. CASE IsParticipant(me, c) /\ PostMessage(m, Message(c, me, "text")) /\ UNCHANGED <<files, posting>>
  BY <1>1, <1>2, <1>4 DEF Posts, PostMessage, Idle
<1>5. CASE IsParticipant(me, c) /\ SaveFile(c, m, Message(c, me, "file"))
  BY <1>1, <1>2, <1>3, <1>5 DEF SaveFile, Keeps, Idle
<1> QED BY <1>3, <1>4, <1>5 DEF ChatPostText, ChatPostFile, DatabaseFails

LEMMA FileMessages ==
  ASSUME IInv, JobsAreNew, PostFileMessage
  PROVE  \E m, row : Posts(m, row)
<1>1. PICK job \in posting :
        PostMessage(job[1], job[2]) /\ posting' = {} /\ UNCHANGED files
  BY DEF PostFileMessage
<1>2. job \in MessageIds \X MessageRow
  BY <1>1 DEF IInv, TypeOK
<1>3. job = <<job[1], job[2]>> /\ job[1] \in MessageIds /\ job[2] \in MessageRow
  BY <1>2
<1>4. posting = {<<job[1], job[2]>>} /\ job[1] \notin DOMAIN messages
  BY <1>1, <1>3 DEF JobsAreNew
<1>5. IsParticipant(job[2].sender, job[2].chat)
  BY <1>1 DEF IInv, PosterIsMember
<1>6. Posts(job[1], job[2])
  BY <1>1, <1>3, <1>4, <1>5 DEF Posts, PostMessage
<1> QED BY <1>6

(* The steps of Chats, by what they do to messages, jobs and files. *)
LEMMA StepsOnMessages ==
  ASSUME IInv, JobsAreNew, Next
  PROVE  \/ Keeps /\ UNCHANGED <<posting, files>>
         \/ Keeps /\ (PostFileMessageFails \/ Crash)
         \/ \E m, row : Posts(m, row)
         \/ \E c \in ChatIds, m \in MessageIds \ DOMAIN messages :
              /\ Keeps /\ posting = {}
              /\ \E row : posting' = {<<m, row>>} /\ row.chat = c
              /\ files' \subseteq files \cup {<<c, m>>}
         \/ \E c \in ChatIds : Deletes(c)
<1>1. CASE \E me \in registered \cup {NoUser}, c \in ChatIds :
             RoomCommand(me, c) \/ PostCommand(me, c)
  <2>1. PICK me \in Ids, c \in ChatIds : RoomCommand(me, c) \/ PostCommand(me, c)
    BY <1>1 DEF IInv, TypeOK, Ids
  <2>2. CASE PostCommand(me, c)
    <3>1. PICK m \in MessageIds, content \in {"fits", "oversized"} :
            ChatPostText(me, c, m, content) \/ ChatPostFile(me, c, m, content)
      BY <2>2 DEF PostCommand
    <3> QED BY <3>1, PostMessages
  <2>3. CASE ChatLeave(me, c)
    BY <2>3, LeaveMessages
  <2>4. CASE \E title : ChatCreatePublic(me, c, title)
    BY <2>4 DEF ChatCreatePublic, DatabaseFails, Answer, InsertChat, Keeps, jobs
  <2>5. CASE \E other : ChatCreatePrivate(me, other, c)
    BY <2>5 DEF ChatCreatePrivate, DatabaseFails, Answer, InsertChat, Keeps, jobs
  <2>6. CASE \E u : ChatAdd(me, c, u)
    BY <2>6 DEF ChatAdd, DatabaseFails, Answer, Keeps, jobs
  <2> QED BY <2>1, <2>2, <2>3, <2>4, <2>5, <2>6 DEF RoomCommand
<1>2. CASE InsertMembers \/ InsertMembersFails
  BY <1>2 DEF InsertMembers, InsertMembersFails, Keeps
<1>3. CASE PostFileMessage
  BY <1>3, FileMessages
<1>4. CASE PostFileMessageFails \/ Crash
  BY <1>4 DEF PostFileMessageFails, Crash, Keeps
<1>5. CASE Register \/ ContactsChange
  BY <1>5 DEF Register, ContactsChange, Keeps, jobs
<1> QED BY <1>1, <1>2, <1>3, <1>4, <1>5 DEF Next

-----------------------------------------------------------------------------
(* The inductive invariant.                                                *)

Timed ==
  /\ now \in 0 .. MaxTime
  /\ times \in [DOMAIN messages -> 0 .. MaxTime]
  /\ late \subseteq DOMAIN messages
  /\ \A m, o \in DOMAIN messages :
       messages[m].chat = messages[o].chat /\ messages[m].sender = messages[o].sender
         /\ times[m] = times[o] => m = o

(* Between its pages a reader misses no message that came in time and is   *)
(* alone with its time, unless that is still to come: on a later page, or  *)
(* later than the last message it knows.                                   *)
Reading(r) ==
  /\ r \in Reader
  /\ r.last \in r.shown \cap InChat(r.chat)
  /\ r.goal \subseteq InChat(r.chat)
  /\ \A m \in InChat(r.chat) : m \in r.goal \/ m \in late \/ times[m] > times[r.last]
  /\ \A m \in r.goal :
       \/ m \in r.shown
       \/ m \in late
       \/ ~Alone(InChat(r.chat), times, m)
       \/ r.mode = "paging" /\ Rank(InChat(r.chat), times, m) >= r.offset

MInv == IInv /\ JobsAreNew /\ Timed /\ (reader = Nobody \/ Reading(reader))

LEMMA MessagesFinite ==
  ASSUME IInv, Timed, NEW c
  PROVE  /\ InChat(c) \subseteq MessageIds /\ IsFiniteSet(InChat(c))
         /\ \A m \in InChat(c) : times[m] \in Nat /\ m \in DOMAIN messages
         /\ now \in Nat
<1>1. InChat(c) \in SUBSET MessageIds
  BY DEF IInv, TypeOK, InChat
<1>2. IsFiniteSet(InChat(c))
  BY <1>1, MessagesConstants, FS_Subset DEF MessagesConstants
<1>3. now \in Nat
  BY MessagesConstants DEF Timed, MessagesConstants
<1>4. \A m \in InChat(c) : m \in DOMAIN messages
  BY DEF InChat
<1> QED BY <1>1, <1>2, <1>3, <1>4, MessagesConstants DEF Timed, MessagesConstants

-----------------------------------------------------------------------------
(* Write.                                                                  *)

LEMMA JobsInv ==
  ASSUME IInv, JobsAreNew, Next
  PROVE  JobsAreNew'
<1>1. CASE Keeps /\ UNCHANGED <<posting, files>>
  BY <1>1 DEF Keeps, JobsAreNew
<1>2. CASE Keeps /\ (PostFileMessageFails \/ Crash)
  BY <1>2 DEF PostFileMessageFails, Crash, JobsAreNew
<1>3. CASE \E m, row : Posts(m, row)
  BY <1>3 DEF Posts, JobsAreNew
<1>4. CASE \E m \in MessageIds \ DOMAIN messages : Keeps /\ \E row : posting' = {<<m, row>>}
  BY <1>4 DEF Keeps, JobsAreNew
<1>5. CASE \E c \in ChatIds : Deletes(c)
  BY <1>5 DEF Deletes, JobsAreNew
<1> QED BY <1>1, <1>2, <1>3, <1>4, <1>5, StepsOnMessages

(* How the messages of a chat and their times change. *)
LEMMA StampedPost ==
  ASSUME IInv, Timed, NEW m, NEW row, Posts(m, row), Stamp
  PROVE  /\ DOMAIN messages' = DOMAIN messages \cup {m}
         /\ messages'[m] = row /\ times'[m] = now
         /\ \A x \in DOMAIN messages : messages'[x] = messages[x] /\ times'[x] = times[x]
         /\ DOMAIN times' = DOMAIN messages'
         /\ \A o \in DOMAIN messages :
              ~ (times[o] = now /\ messages[o].chat = row.chat /\ messages[o].sender = row.sender)
         /\ late' \subseteq DOMAIN messages' /\ late \cap DOMAIN messages' \subseteq late'
         /\ m \notin late' => \A o \in DOMAIN messages : messages[o].chat = row.chat => ~ times[o] >= now
<1>1. m \notin DOMAIN messages /\ messages \in [DOMAIN messages -> MessageRow] /\ row \in MessageRow
  BY DEF Posts, IInv, TypeOK
<1>2. /\ DOMAIN messages' = DOMAIN messages \cup {m}
      /\ messages'[m] = row
      /\ \A x \in DOMAIN messages : messages'[x] = messages[x]
  BY <1>1 DEF Posts, Put
<1>3. DOMAIN messages' \ DOMAIN messages = {m}
  BY <1>1, <1>2
<1> QED BY <1>1, <1>2, <1>3 DEF Stamp

LEMMA StampedRest ==
  ASSUME IInv, Timed, Stamp, Keeps \/ \E c : Deletes(c)
  PROVE  /\ DOMAIN messages' \subseteq DOMAIN messages /\ DOMAIN times' = DOMAIN messages'
         /\ \A x \in DOMAIN messages' : messages'[x] = messages[x] /\ times'[x] = times[x]
         /\ late' \subseteq DOMAIN messages' /\ late \cap DOMAIN messages' \subseteq late'
<1>1. /\ DOMAIN messages' \subseteq DOMAIN messages
      /\ \A x \in DOMAIN messages' : messages'[x] = messages[x]
  BY DEF Keeps, Deletes, Restrict
<1>2. DOMAIN messages' \ DOMAIN messages = {}
  BY <1>1
<1> QED BY <1>1, <1>2 DEF Stamp

LEMMA WriteCases ==
  ASSUME IInv, JobsAreNew, Next
  PROVE  Keeps \/ (\E c : Deletes(c)) \/ \E m, row : Posts(m, row)
BY StepsOnMessages

LEMMA WriteTimed ==
  ASSUME MInv, Write
  PROVE  Timed'
<1>1. IInv /\ JobsAreNew /\ Timed /\ Next /\ Stamp /\ now' = now
  BY DEF MInv, Write
<1>2. now \in Nat /\ now \in 0 .. MaxTime
  BY <1>1, MessagesFinite DEF Timed
<1>3. CASE Keeps \/ \E c : Deletes(c)
  <2>1. /\ DOMAIN messages' \subseteq DOMAIN messages /\ DOMAIN times' = DOMAIN messages'
        /\ \A x \in DOMAIN messages' : messages'[x] = messages[x] /\ times'[x] = times[x]
        /\ late' \subseteq DOMAIN messages'
    BY <1>1, <1>3, StampedRest
  <2>2. times' = [x \in DOMAIN messages' |-> times'[x]]
    BY <1>1 DEF Stamp
  <2> QED BY <1>1, <1>2, <2>1, <2>2 DEF Timed
<1>4. ASSUME NEW m, NEW row, Posts(m, row) PROVE Timed'
  <2>1. /\ DOMAIN messages' = DOMAIN messages \cup {m}
        /\ messages'[m] = row /\ times'[m] = now
        /\ \A x \in DOMAIN messages : messages'[x] = messages[x] /\ times'[x] = times[x]
        /\ \A o \in DOMAIN messages :
             ~ (times[o] = now /\ messages[o].chat = row.chat /\ messages[o].sender = row.sender)
        /\ late' \subseteq DOMAIN messages'
    BY <1>1, <1>4, StampedPost
  <2>2. times' = [x \in DOMAIN messages' |-> times'[x]]
    BY <1>1 DEF Stamp
  <2>3. times' \in [DOMAIN messages' -> 0 .. MaxTime]
    BY <1>1, <1>2, <2>1, <2>2 DEF Timed
  <2>4. ASSUME NEW x \in DOMAIN messages', NEW o \in DOMAIN messages',
               messages'[x].chat = messages'[o].chat, messages'[x].sender = messages'[o].sender,
               times'[x] = times'[o]
        PROVE  x = o
    <3>1. CASE x \in DOMAIN messages /\ o \in DOMAIN messages
      BY <1>1, <2>1, <2>4, <3>1 DEF Timed
    <3>2. CASE x = m /\ o = m
      BY <3>2
    <3>3. CASE x = m /\ o \in DOMAIN messages
      BY <2>1, <2>4, <3>3
    <3>4. CASE x \in DOMAIN messages /\ o = m
      BY <2>1, <2>4, <3>4
    <3> QED BY <2>1, <2>4, <3>1, <3>2, <3>3, <3>4
  <2> QED BY <1>1, <1>2, <2>1, <2>3, <2>4 DEF Timed
<1> QED BY <1>1, <1>3, <1>4, WriteCases

(* A chat that stays keeps its messages, and gets only new ones. *)
LEMMA WriteGrows ==
  ASSUME MInv, Next, Stamp, NEW c \in DOMAIN chats'
  PROVE  /\ InChat(c) \subseteq InChat(c)'
         /\ \A x \in InChat(c) : times'[x] = times[x] /\ (x \in late => x \in late')
         /\ \A x \in InChat(c)' \ InChat(c) :
              /\ times'[x] = now
              /\ x \notin late' => \A o \in InChat(c) : ~ times[o] >= now
<1>1. IInv /\ JobsAreNew /\ Timed
  BY DEF MInv
<1>2. CASE Keeps
  BY <1>1, <1>2, StampedRest DEF InChat, Keeps
<1>3. ASSUME NEW d, Deletes(d)
      PROVE  /\ InChat(c)' = InChat(c)
             /\ \A x \in InChat(c) : times'[x] = times[x] /\ (x \in late => x \in late')
  <2>1. d # c
    BY <1>3 DEF Deletes
  <2>2. DOMAIN messages' = {m \in DOMAIN messages : messages[m].chat # d}
    BY <1>3 DEF Deletes, Restrict
  <2>3. /\ \A x \in DOMAIN messages' : messages'[x] = messages[x] /\ times'[x] = times[x]
        /\ late \cap DOMAIN messages' \subseteq late'
    BY <1>1, <1>3, StampedRest
  <2> QED BY <2>1, <2>2, <2>3 DEF InChat
<1>4. ASSUME NEW m, NEW row, Posts(m, row)
      PROVE  /\ InChat(c) \subseteq InChat(c)'
             /\ \A x \in InChat(c) : times'[x] = times[x] /\ (x \in late => x \in late')
             /\ \A x \in InChat(c)' \ InChat(c) :
                  /\ times'[x] = now
                  /\ x \notin late' => \A o \in InChat(c) : ~ times[o] >= now
  <2>1. /\ DOMAIN messages' = DOMAIN messages \cup {m}
        /\ messages'[m] = row /\ times'[m] = now
        /\ \A x \in DOMAIN messages : messages'[x] = messages[x] /\ times'[x] = times[x]
        /\ late \cap DOMAIN messages' \subseteq late'
        /\ m \notin late' => \A o \in DOMAIN messages : messages[o].chat = row.chat => ~ times[o] >= now
    BY <1>1, <1>4, StampedPost
  <2>2. InChat(c) \subseteq InChat(c)'
    BY <2>1 DEF InChat
  <2>3. \A x \in InChat(c) : times'[x] = times[x] /\ (x \in late => x \in late')
    BY <2>1 DEF InChat
  <2>4. ASSUME NEW x \in InChat(c)' \ InChat(c)
        PROVE  /\ times'[x] = now
               /\ x \notin late' => \A o \in InChat(c) : ~ times[o] >= now
    <3>1. x = m /\ row.chat = c
      BY <2>1, <2>4 DEF InChat
    <3>2. times'[x] = now
      BY <2>1, <3>1
    <3>3. \A o \in InChat(c) : o \in DOMAIN messages /\ messages[o].chat = c
      BY DEF InChat
    <3>4. x \notin late' => \A o \in InChat(c) : ~ times[o] >= now
      BY <2>1, <3>1, <3>3
    <3> QED BY <3>2, <3>4
  <2> QED BY <2>2, <2>3, <2>4
<1> QED BY <1>1, <1>2, <1>3, <1>4, WriteCases

(* More messages leave a message at its place or put it further back.      *)
LEMMA RankGrows ==
  ASSUME NEW S, NEW T, IsFiniteSet(T), S \subseteq T, NEW t, NEW u,
         \A x \in S : u[x] = t[x], NEW m \in S
  PROVE  /\ Rank(S, t, m) \in Nat /\ Rank(T, u, m) \in Nat
         /\ Rank(T, u, m) >= Rank(S, t, m)
         /\ Alone(T, u, m) => Alone(S, t, m)
<1>1. Later(T, u, m) \in SUBSET T
  BY DEF Later
<1>2. IsFiniteSet(Later(T, u, m))
  BY <1>1, FS_Subset
<1>3. Later(S, t, m) \in SUBSET Later(T, u, m)
  BY DEF Later
<1>4. IsFiniteSet(Later(S, t, m)) /\ Rank(S, t, m) <= Rank(T, u, m)
  BY <1>2, <1>3, FS_Subset DEF Rank
<1>5. Rank(S, t, m) \in Nat /\ Rank(T, u, m) \in Nat
  BY <1>2, <1>4, FS_CardinalityType DEF Rank
<1>6. Alone(T, u, m) => Alone(S, t, m)
  BY DEF Alone
<1> QED BY <1>4, <1>5, <1>6

LEMMA ReadingStays ==
  ASSUME MInv, IInv', Timed', Next, Stamp, now' = now,
         Reading(reader), reader.chat \in DOMAIN chats', reader' = reader
  PROVE  Reading(reader)'
<1>0. PICK c : c = reader.chat
  OBVIOUS
<1> DEFINE S == InChat(c)
           T == InChat(c)'
<1>1. /\ S \subseteq T
      /\ \A x \in S : times'[x] = times[x] /\ (x \in late => x \in late')
      /\ \A x \in T \ S : times'[x] = now
      /\ \A x \in T \ S : x \notin late' => \A o \in S : ~ times[o] >= now
  BY <1>0, WriteGrows
<1>2. IsFiniteSet(T)
  <2>1. T \in SUBSET MessageIds
    BY DEF IInv, TypeOK, InChat
  <2> QED BY <2>1, MessagesConstants, FS_Subset DEF MessagesConstants
<1>3. now \in Nat /\ \A x \in S : times[x] \in Nat
  BY MessagesFinite DEF MInv
<1>4. /\ reader \in Reader /\ reader.last \in reader.shown \cap S /\ reader.goal \subseteq S
      /\ \A m \in S : m \in reader.goal \/ m \in late \/ times[m] > times[reader.last]
      /\ \A m \in reader.goal :
           \/ m \in reader.shown
           \/ m \in late
           \/ ~Alone(S, times, m)
           \/ reader.mode = "paging" /\ Rank(S, times, m) >= reader.offset
  BY <1>0 DEF Reading
<1>5. reader.offset \in Nat
  BY <1>4 DEF Reader
<1>6. InChat(reader.chat)' = T
  BY <1>0 DEF InChat
<1> HIDE DEF S, T
<1>7. ASSUME NEW m \in T
      PROVE  m \in reader.goal \/ m \in late' \/ times'[m] > times'[reader.last]
  <2>1. reader.last \in S /\ times'[reader.last] = times[reader.last] /\ times[reader.last] \in Nat
    BY <1>1, <1>3, <1>4
  <2>2. CASE m \in S
    <3>1. times'[m] = times[m] /\ (m \in late => m \in late')
      BY <1>1, <2>2
    <3>2. m \in reader.goal \/ m \in late \/ times[m] > times[reader.last]
      BY <1>4, <2>2
    <3> QED BY <2>1, <3>1, <3>2
  <2>3. CASE m \notin S /\ m \notin late'
    <3>0. m \in T \ S
      BY <1>7, <2>3
    <3>1. times'[m] = now
      BY <1>1, <3>0
    <3>2. ~ times[reader.last] >= now
      BY <1>1, <2>1, <2>3, <3>0
    <3> QED BY <1>3, <2>1, <3>1, <3>2
  <2> QED BY <2>2, <2>3
<1>8. ASSUME NEW m \in reader.goal
      PROVE  \/ m \in reader.shown
             \/ m \in late'
             \/ ~Alone(T, times', m)
             \/ reader.mode = "paging" /\ Rank(T, times', m) >= reader.offset
  <2>1. /\ Rank(S, times, m) \in Nat /\ Rank(T, times', m) \in Nat
        /\ Rank(T, times', m) >= Rank(S, times, m)
        /\ Alone(T, times', m) => Alone(S, times, m)
    BY <1>1, <1>2, <1>4, <1>8, RankGrows
  <2>2. m \in late => m \in late'
    BY <1>1, <1>4, <1>8
  <2> QED BY <1>4, <1>5, <1>8, <2>1, <2>2
<1>9. reader.last \in reader.shown \cap T /\ reader.goal \subseteq T
  BY <1>1, <1>4
<1> QED BY <1>4, <1>6, <1>7, <1>8, <1>9 DEF Reading, Alone, Rank, Later

LEMMA WriteInv == MInv /\ Write => MInv'
<1> SUFFICES ASSUME MInv, Write PROVE MInv'
  OBVIOUS
<1>1. /\ Next /\ Stamp /\ now' = now
      /\ reader' = IF reader # Nobody /\ reader.chat \notin DOMAIN chats' THEN Nobody ELSE reader
  BY DEF Write
<1>2. IInv'
  BY <1>1, NextInv DEF MInv
<1>3. Timed' /\ JobsAreNew'
  BY <1>1, WriteTimed, JobsInv DEF MInv
<1>4. reader' = Nobody \/ Reading(reader)'
  BY <1>1, <1>2, <1>3, ReadingStays DEF MInv
<1> QED BY <1>2, <1>3, <1>4 DEF MInv, Nobody

-----------------------------------------------------------------------------
(* The listings.                                                           *)

LEMMA OrderOfMessages ==
  ASSUME IInv, Timed, NEW S, S \subseteq DOMAIN messages, NEW s \in NewestFirst(S)
  PROVE  /\ IsFiniteSet(S) /\ S \subseteq MessageIds
         /\ s \in SequenceOps!SetToSeqs(S) /\ s \in Seq(S) /\ s \in Seq(MessageIds)
         /\ \A i, j \in DOMAIN s : i < j => times[s[i]] >= times[s[j]]
         /\ Range(s) = S
<1>1. S \in SUBSET MessageIds
  BY DEF IInv, TypeOK
<1>2. IsFiniteSet(S)
  BY <1>1, MessagesConstants, FS_Subset DEF MessagesConstants
<1>3. s \in SequenceOps!SetToSeqs(S) /\ \A i, j \in DOMAIN s : i < j => times[s[i]] >= times[s[j]]
  BY DEF NewestFirst
<1>4. /\ s \in Seq(S) /\ DOMAIN s = 1 .. Len(s) /\ Len(s) \in Nat
      /\ \A x \in S : \E i \in 1 .. Len(s) : s[i] = x
  BY <1>2, <1>3, OrderIsOnto
<1>5. Range(s) = S
  BY <1>4 DEF Range
<1>6. s \in Seq(MessageIds)
  BY <1>1, <1>4, SeqMonotonic
<1> QED BY <1>1, <1>2, <1>3, <1>4, <1>5, <1>6

LEMMA PageType ==
  ASSUME NEW S, NEW s \in Seq(S), NEW offset \in Nat
  PROVE  /\ Limit(s, offset, PageSize) \in Seq(S)
         /\ Range(Limit(s, offset, PageSize)) \subseteq S
<1> DEFINE last == IF Len(s) < offset + PageSize THEN Len(s) ELSE offset + PageSize
           rows == SubSeq(s, offset + 1, last)
<1>1. Len(s) \in Nat /\ \A i \in 1 .. Len(s) : s[i] \in S
  OBVIOUS
<1>2. offset + 1 \in Int /\ last \in Int /\ last <= Len(s)
  BY <1>1, MessagesConstants DEF MessagesConstants
<1>3. \A i \in offset + 1 .. last : s[i] \in S
  BY <1>1, <1>2
<1>4. rows \in Seq(S)
  BY <1>2, <1>3, SubSeqProperties
<1>5. Range(rows) \subseteq S
  BY <1>4 DEF Range
<1> QED BY <1>4, <1>5 DEF Limit

LEMMA AfterPageType ==
  ASSUME NEW r \in Reader, NEW rows \in Seq(MessageIds)
  PROVE  LET q == AfterPage(r, rows) IN
           /\ q \in Reader
           /\ q.chat = r.chat /\ q.last = r.last /\ q.goal = r.goal
           /\ q.shown = r.shown \cup Range(rows)
           /\ q.offset = r.offset + PageSize
           /\ Len(rows) = PageSize => q.mode = "paging"
<1>1. Range(rows) \subseteq MessageIds
  BY DEF Range
<1>2. PageSize \in Nat /\ Len(rows) \in Nat
  BY MessagesConstants DEF MessagesConstants
<1> DEFINE mode == IF Len(rows) < PageSize THEN "following" ELSE "paging"
           shown == r.shown \cup Range(rows)
<1>3. AfterPage(r, rows) =
        [r EXCEPT !.shown = shown, !.offset = r.offset + PageSize, !.mode = mode]
  BY DEF AfterPage, Shown, Reader
<1>4. mode \in {"paging", "following"} /\ (Len(rows) = PageSize => mode = "paging")
  BY <1>2
<1>5. shown \in SUBSET MessageIds /\ r.offset + PageSize \in Nat
  BY <1>1, <1>2 DEF Reader
<1> HIDE DEF mode
<1> QED BY <1>3, <1>4, <1>5 DEF Reader

(* A page leaves out only what is on a later one, late or not alone. *)
LEMMA PagedGoal ==
  ASSUME IInv, Timed, NEW r \in Reader, r.goal \subseteq InChat(r.chat),
         NEW s \in NewestFirst(InChat(r.chat)),
         \A m \in r.goal : \/ m \in r.shown
                           \/ m \in late
                           \/ ~Alone(InChat(r.chat), times, m)
                           \/ Rank(InChat(r.chat), times, m) >= r.offset
  PROVE  LET rows == Limit(s, r.offset, PageSize)
             q    == AfterPage(r, rows)
         IN  /\ rows \in Seq(MessageIds)
             /\ Range(rows) \subseteq InChat(r.chat)
             /\ \A m \in q.goal :
                  \/ m \in q.shown
                  \/ m \in late
                  \/ ~Alone(InChat(q.chat), times, m)
                  \/ q.mode = "paging" /\ Rank(InChat(q.chat), times, m) >= q.offset
<1> DEFINE S == InChat(r.chat)
           rows == Limit(s, r.offset, PageSize)
           q == AfterPage(r, rows)
<1>1. S \subseteq DOMAIN messages /\ \A x \in S : times[x] \in Nat
  BY MessagesFinite DEF InChat
<1>2. /\ IsFiniteSet(S) /\ S \subseteq MessageIds /\ s \in SequenceOps!SetToSeqs(S) /\ s \in Seq(S)
      /\ \A i, j \in DOMAIN s : i < j => times[s[i]] >= times[s[j]]
  BY <1>1, OrderOfMessages
<1>3. r.offset \in Nat
  BY DEF Reader
<1>4. rows \in Seq(S) /\ Range(rows) \subseteq S
  BY <1>2, <1>3, PageType
<1>5. rows \in Seq(MessageIds)
  BY <1>2, <1>4, SeqMonotonic
<1>6. /\ q.chat = r.chat /\ q.goal = r.goal
      /\ q.shown = r.shown \cup Range(rows) /\ q.offset = r.offset + PageSize
      /\ Len(rows) = PageSize => q.mode = "paging"
  BY <1>5, AfterPageType
<1>7. ASSUME NEW m \in r.goal, Alone(S, times, m), Rank(S, times, m) >= r.offset
      PROVE  m \in Range(rows) \/ (Rank(S, times, m) >= r.offset + PageSize /\ Len(rows) = PageSize)
  BY <1>1, <1>2, <1>3, <1>7, PageShows
<1> HIDE DEF rows, q, S
<1>8. \A m \in q.goal :
        \/ m \in q.shown
        \/ m \in late
        \/ ~Alone(S, times, m)
        \/ q.mode = "paging" /\ Rank(S, times, m) >= q.offset
  BY <1>6, <1>7 DEF S
<1> QED BY <1>4, <1>5, <1>6, <1>8 DEF rows, q, S

LEMMA OpenChatReads ==
  ASSUME MInv, NEW u \in registered, NEW c \in ChatIds, OpenChat(u, c)
  PROVE  reader' = Nobody \/ \E q : reader' = q /\ Reading(q)
<1>0. IInv /\ Timed
  BY DEF MInv
<1>1. PICK s \in NewestFirst(InChat(c)) :
        LET rows == Limit(s, 0, PageSize) IN
          reader' =
            IF rows = <<>> THEN Nobody
            ELSE AfterPage([user |-> u, mode |-> "paging", chat |-> c, offset |-> 0,
                            last |-> rows[1], shown |-> {}, goal |-> InChat(c)], rows)
  BY DEF OpenChat
<1> DEFINE rows == Limit(s, 0, PageSize)
           r == [user |-> u, mode |-> "paging", chat |-> c, offset |-> 0,
                 last |-> rows[1], shown |-> {}, goal |-> InChat(c)]
           q == AfterPage(r, rows)
<1>2. CASE rows = <<>>
  BY <1>1, <1>2
<1>3. CASE rows # <<>>
  <2>1. InChat(c) \subseteq DOMAIN messages /\ InChat(c) \subseteq MessageIds
    BY <1>0, MessagesFinite
  <2>2. s \in Seq(InChat(c)) /\ IsFiniteSet(InChat(c))
    BY <1>0, <2>1, OrderOfMessages
  <2>3. rows \in Seq(InChat(c)) /\ Range(rows) \subseteq InChat(c)
    BY <2>2, PageType
  <2>4. rows[1] \in Range(rows)
    <3>1. 1 \in DOMAIN rows
      BY <1>3, <2>3, EmptySeq, LenProperties
    <3> QED BY <3>1 DEF Range
  <2>5. u \in Ids
    BY <1>0 DEF IInv, TypeOK, Ids
  <2>6. r \in Reader
    BY <2>1, <2>3, <2>4, <2>5 DEF Reader
  <2>7. \A m \in r.goal : Rank(InChat(c), times, m) >= 0
    <3> SUFFICES ASSUME NEW m \in InChat(c) PROVE Rank(InChat(c), times, m) >= 0
      OBVIOUS
    <3>1. Later(InChat(c), times, m) \in SUBSET InChat(c)
      BY DEF Later
    <3>2. Rank(InChat(c), times, m) \in Nat
      BY <2>2, <3>1, FS_Subset, FS_CardinalityType DEF Rank
    <3> QED BY <3>2
  <2>8. r.chat = c /\ r.offset = 0 /\ r.goal = InChat(c) /\ r.last = rows[1] /\ r.shown = {}
    OBVIOUS
  <2> HIDE DEF r
  <2>9. /\ rows \in Seq(MessageIds)
        /\ \A m \in q.goal :
             \/ m \in q.shown
             \/ m \in late
             \/ ~Alone(InChat(q.chat), times, m)
             \/ q.mode = "paging" /\ Rank(InChat(q.chat), times, m) >= q.offset
    BY <1>0, <2>6, <2>7, <2>8, PagedGoal
  <2>10. /\ q \in Reader
         /\ q.chat = c /\ q.last = rows[1] /\ q.goal = InChat(c) /\ q.shown = Range(rows)
    <3>1. r \in Reader /\ rows \in Seq(MessageIds)
      BY <2>6, <2>9
    <3>2. r.chat = c /\ r.last = rows[1] /\ r.goal = InChat(c) /\ r.shown = {}
      BY <2>8
    <3> HIDE DEF rows
    <3>3. /\ q \in Reader /\ q.chat = r.chat /\ q.last = r.last /\ q.goal = r.goal
          /\ q.shown = r.shown \cup Range(rows)
      BY <3>1, AfterPageType
    <3> QED BY <3>2, <3>3
  <2>11. reader' = q
    BY <1>1, <1>3 DEF r
  <2> HIDE DEF q, rows
  <2>12. Reading(q)
    BY <2>3, <2>4, <2>9, <2>10 DEF Reading
  <2> QED BY <2>11, <2>12
<1> QED BY <1>2, <1>3

LEMMA NextPageReads ==
  ASSUME MInv, NextPage
  PROVE  \E q : reader' = q /\ Reading(q)
<1>0. IInv /\ Timed /\ Reading(reader) /\ reader.mode = "paging"
  BY DEF MInv, NextPage
<1>1. PICK s \in NewestFirst(InChat(reader.chat)) :
        reader' = AfterPage(reader, Limit(s, reader.offset, PageSize))
  BY DEF NextPage
<1> DEFINE rows == Limit(s, reader.offset, PageSize)
           q == AfterPage(reader, rows)
<1>2. /\ reader \in Reader /\ reader.last \in reader.shown \cap InChat(reader.chat)
      /\ reader.goal \subseteq InChat(reader.chat)
      /\ \A m \in InChat(reader.chat) :
           m \in reader.goal \/ m \in late \/ times[m] > times[reader.last]
      /\ \A m \in reader.goal : \/ m \in reader.shown
                                 \/ m \in late
                                 \/ ~Alone(InChat(reader.chat), times, m)
                                 \/ Rank(InChat(reader.chat), times, m) >= reader.offset
  BY <1>0 DEF Reading
<1>3. /\ rows \in Seq(MessageIds)
      /\ \A m \in q.goal :
           \/ m \in q.shown
           \/ m \in late
           \/ ~Alone(InChat(q.chat), times, m)
           \/ q.mode = "paging" /\ Rank(InChat(q.chat), times, m) >= q.offset
  BY <1>0, <1>2, PagedGoal
<1>4. /\ q \in Reader
      /\ q.chat = reader.chat /\ q.last = reader.last /\ q.goal = reader.goal
      /\ q.shown = reader.shown \cup Range(rows)
  BY <1>2, <1>3, AfterPageType
<1>5. reader' = q
  BY <1>1
<1> HIDE DEF q, rows
<1>6. Reading(q)
  BY <1>2, <1>3, <1>4 DEF Reading
<1> QED BY <1>5, <1>6

LEMMA FollowChatReads ==
  ASSUME MInv, FollowChat
  PROVE  \E q : reader' = q /\ Reading(q)
<1>0. IInv /\ Timed /\ Reading(reader) /\ reader.mode = "following"
  BY DEF MInv, FollowChat
<1> DEFINE S == InChat(reader.chat)
           N == NewIn(reader.chat, reader.last)
<1>1. PICK s \in NewestFirst(N) :
        reader' = [Shown(reader, s) EXCEPT !.goal = S, !.last = IF s = <<>> THEN @ ELSE s[1]]
  BY DEF FollowChat
<1> DEFINE q == [Shown(reader, s) EXCEPT !.goal = S, !.last = IF s = <<>> THEN @ ELSE s[1]]
<1>2. /\ reader \in Reader /\ reader.last \in reader.shown \cap S /\ reader.goal \subseteq S
      /\ \A m \in S : m \in reader.goal \/ m \in late \/ times[m] > times[reader.last]
      /\ \A m \in reader.goal : m \in reader.shown \/ m \in late \/ ~Alone(S, times, m)
  BY <1>0 DEF Reading
<1>3. /\ S \subseteq MessageIds /\ S \subseteq DOMAIN messages
      /\ \A m \in S : times[m] \in Nat
  BY <1>0, MessagesFinite
<1>4. N = {m \in S : times[m] > times[reader.last]}
  BY <1>2, <1>3 DEF NewIn
<1>5. s \in Seq(N) /\ Range(s) = N
  BY <1>0, <1>3, <1>4, OrderOfMessages
<1>6. s # <<>> => s[1] \in N
  BY <1>5, EmptySeq
<1>7. /\ q \in Reader /\ q.chat = reader.chat /\ q.goal = S /\ q.shown = reader.shown \cup N
      /\ q.last = IF s = <<>> THEN reader.last ELSE s[1]
  BY <1>2, <1>3, <1>4, <1>5, <1>6 DEF Shown, Reader
<1>8. reader' = q
  BY <1>1
<1> HIDE DEF q
<1>9. q.last \in q.shown \cap S
  BY <1>2, <1>4, <1>6, <1>7
<1>10. ASSUME NEW m \in S PROVE m \in q.shown \/ m \in late \/ ~Alone(S, times, m)
  <2>1. CASE m \in N
    BY <1>7, <2>1
  <2>2. CASE m \in reader.goal
    BY <1>2, <1>7, <2>2
  <2>3. CASE m \notin N /\ m \notin reader.goal
    BY <1>2, <1>4, <1>10, <2>3
  <2> QED BY <2>1, <2>2, <2>3
<1>11. Reading(q)
  BY <1>2, <1>7, <1>9, <1>10 DEF Reading
<1> QED BY <1>8, <1>11

-----------------------------------------------------------------------------
LEMMA MInitInv == MessagesInit => MInv
<1> SUFFICES ASSUME MessagesInit PROVE MInv
  OBVIOUS
<1>1. IInv
  BY InitInv DEF MessagesInit
<1>2. DOMAIN messages = {} /\ DOMAIN times = {} /\ posting = {} /\ times = [x \in {} |-> x]
  BY DEF MessagesInit, Init, Empty
<1>3. now \in 0 .. MaxTime
  BY MessagesConstants DEF MessagesInit, MessagesConstants
<1>4. times \in [DOMAIN messages -> 0 .. MaxTime] /\ late = {}
  BY <1>2 DEF MessagesInit
<1> QED BY <1>1, <1>2, <1>3, <1>4 DEF MInv, JobsAreNew, Timed, MessagesInit

(* A listing leaves the tables alone. *)
LEMMA TablesStay ==
  ASSUME MInv, UNCHANGED vars \/ (\E code \in StatusCodes : Answer(code)), times' = times,
         late' = late, now' \in 0 .. MaxTime
  PROVE  /\ IInv' /\ JobsAreNew' /\ Timed' /\ messages' = messages
         /\ \A q : Reading(q)' <=> Reading(q)
<1>1. IInv'
  BY NextInv, AnswerInv DEF MInv
<1>2. messages' = messages /\ posting' = posting
  BY DEF vars, Answer, jobs
<1>3. JobsAreNew'
  BY <1>2 DEF MInv, JobsAreNew
<1>4. Timed'
  BY <1>2 DEF MInv, Timed
<1>5. \A q : Reading(q)' <=> Reading(q)
  BY <1>2 DEF Reading, InChat
<1> QED BY <1>1, <1>2, <1>3, <1>4, <1>5

LEMMA MNextInv == MInv /\ [MessagesNext]_timedVars => MInv'
<1> SUFFICES ASSUME MInv, [MessagesNext]_timedVars PROVE MInv'
  OBVIOUS
<1>0. now \in 0 .. MaxTime /\ now \in Nat
  BY MessagesConstants DEF MInv, Timed, MessagesConstants
<1>1. CASE Write
  BY <1>1, WriteInv
<1>2. CASE Tick
  <2>1. UNCHANGED <<vars, times, late, reader>> /\ now' \in 0 .. MaxTime
    BY <1>2 DEF Tick
  <2> QED BY <2>1, TablesStay DEF MInv, Nobody
<1>3. CASE CloseChat \/ (UNCHANGED timedVars)
  <2>1. UNCHANGED <<vars, times, late, now>> /\ reader' \in {reader, Nobody}
    BY <1>3 DEF CloseChat, timedVars
  <2> QED BY <1>0, <2>1, TablesStay DEF MInv, Nobody
<1>4. CASE ListCommand
  <2>1. /\ \E code \in StatusCodes : Answer(code)
        /\ UNCHANGED <<times, late, now>>
    BY <1>4 DEF ListCommand, ListingRefused, OpenChat, NextPage, FollowChat, Listing,
                DatabaseFails, StatusCodes
  <2>2. reader' \in {reader, Nobody} \/ \E q : reader' = q /\ Reading(q)
    <3>1. CASE \E u \in registered \cup {NoUser}, c \in ChatIds : ListingRefused(u, c)
      BY <3>1 DEF ListingRefused
    <3>2. CASE \E u \in registered, c \in ChatIds : OpenChat(u, c)
      BY <3>2, OpenChatReads
    <3>3. CASE NextPage \/ FollowChat
      BY <3>3, NextPageReads, FollowChatReads
    <3> QED BY <1>4, <3>1, <3>2, <3>3 DEF ListCommand
  <2>3. /\ IInv' /\ JobsAreNew' /\ Timed' /\ \A q : Reading(q)' <=> Reading(q)
    BY <1>0, <2>1, TablesStay
  <2>4. reader' = Nobody \/ \E q : reader' = q /\ Reading(q)
    BY <2>2 DEF MInv
  <2>5. reader' = Nobody \/ Reading(reader)'
    <3>1. CASE reader' = Nobody
      BY <3>1
    <3>2. ASSUME NEW q, reader' = q, Reading(q) PROVE Reading(reader)'
      BY <2>3, <3>2 DEF Reading
    <3> QED BY <2>4, <3>1, <3>2
  <2> QED BY <2>3, <2>5 DEF MInv, Nobody
<1> QED BY <1>1, <1>2, <1>3, <1>4 DEF MessagesNext

(* The tables, the times and the reader keep their invariant. *)
THEOREM MessagesInvariant == MessagesSpec => []MInv
BY MInitInv, MNextInv, PTL DEF MessagesSpec

-----------------------------------------------------------------------------
(* Columns and readers have their types, and no sender has two messages    *)
(* of one millisecond in one chat (the unique index of table messages).    *)
THEOREM MessagesHaveTypes == MessagesSpec => []MessagesTypeOK
<1>1. MInv => MessagesTypeOK
  BY DEF MInv, IInv, Timed, Reading, MessagesTypeOK
<1> QED BY <1>1, MessagesInvariant, PTL

(* No message is left in a chat nobody is in, whatever the clock says.     *)
THEOREM TimedMessagesAreReadable == MessagesSpec => []MessagesAreReadable
<1>1. MInv => MessagesAreReadable
  BY DEF MInv, IInv
<1> QED BY <1>1, MessagesInvariant, PTL

(* However many users post while a reader pages through a chat and then    *)
(* asks for what is new, and however the clock of the database is set, it  *)
(* misses nothing but messages that share their millisecond with another   *)
(* one and those that were late (db_queries_generator.cpp:632-641).        *)
THEOREM ReadersMissNothingElse == MessagesSpec => []ReadersMissOnlyTheLate
<1>1. MInv => ReadersMissOnlyTheLate
  <2> SUFFICES ASSUME MInv, reader # Nobody, reader.mode = "following",
                      NEW m \in reader.goal \cap DOMAIN messages
               PROVE  m \in reader.shown \/ Simultaneous(m) \/ m \in late
    BY DEF ReadersMissOnlyTheLate
  <2>1. /\ m \in InChat(reader.chat)
        /\ m \in reader.shown \/ m \in late \/ ~Alone(InChat(reader.chat), times, m)
    BY DEF MInv, Reading
  <2>2. messages[m].chat = reader.chat
    BY <2>1 DEF InChat
  <2> QED BY <2>1, <2>2 DEF Alone, Simultaneous
<1> QED BY <1>1, MessagesInvariant, PTL

-----------------------------------------------------------------------------
LEMMA FirstOfOrder ==
  ASSUME IInv, Timed, NEW c, NEW l \in LastMessages(c)
  PROVE  IF InChat(c) = {} THEN l = <<>>
         ELSE \A m \in InChat(c) : times[m] <= times[l[1]]
<1>1. PICK s \in NewestFirst(InChat(c)) : l = Limit(s, 0, 1)
  BY DEF LastMessages
<1>2. InChat(c) \subseteq DOMAIN messages /\ \A m \in InChat(c) : times[m] \in Nat
  BY MessagesFinite
<1>3. /\ IsFiniteSet(InChat(c)) /\ s \in SequenceOps!SetToSeqs(InChat(c)) /\ s \in Seq(InChat(c))
      /\ \A i, j \in DOMAIN s : i < j => times[s[i]] >= times[s[j]]
  BY <1>2, OrderOfMessages
<1>4. /\ Len(s) = Cardinality(InChat(c)) /\ Len(s) \in Nat /\ DOMAIN s = 1 .. Len(s)
      /\ \A x \in InChat(c) : \E i \in 1 .. Len(s) : s[i] = x
  BY <1>3, OrderIsOnto
<1>5. CASE InChat(c) = {}
  <2>1. Len(s) = 0
    BY <1>4, <1>5, FS_EmptySet
  <2>2. l = SubSeq(s, 1, 0)
    BY <1>1, <2>1 DEF Limit
  <2>3. SubSeq(s, 1, 0) = <<>>
    BY SubSeqEmpty
  <2> QED BY <1>5, <2>2, <2>3
<1>6. CASE InChat(c) # {}
  <2>1. Len(s) >= 1
    BY <1>4, <1>6
  <2>2. l = SubSeq(s, 1, 1)
    BY <1>1, <1>4, <2>1 DEF Limit
  <2>3. \A i \in 1 .. 1 : s[i] \in InChat(c)
    BY <1>3, <2>1
  <2>4. l[1] = s[1]
    BY <2>2, <2>3, SubSeqProperties
  <2>5. ASSUME NEW m \in InChat(c) PROVE times[m] <= times[s[1]]
    <3>1. PICK i \in 1 .. Len(s) : s[i] = m
      BY <1>4
    <3>2. CASE i = 1
      BY <1>2, <3>1, <3>2
    <3>3. CASE i # 1
      <4>1. 1 \in DOMAIN s /\ i \in DOMAIN s /\ 1 < i
        BY <1>4, <2>1, <3>3
      <4>2. s[1] \in InChat(c)
        BY <2>3
      <4> QED BY <1>2, <1>3, <3>1, <4>1, <4>2
    <3> QED BY <3>2, <3>3
  <2> QED BY <1>6, <2>4, <2>5
<1> QED BY <1>5, <1>6

(* The listings tell the same about a chat: its size, its party, one title *)
(* of a private chat, the newest message (db_queries_generator.cpp:493-520, *)
(* 647-676).                                                               *)
THEOREM ListingsAreConsistent == MessagesSpec => []ListingsAgree
<1>1. MInv => ListingsAgree
  <2> SUFFICES ASSUME MInv, NEW u \in registered, NEW c \in UserChats(u)
               PROVE  /\ chats[c].size = 1 + Cardinality(PartyList(u, c))
                      /\ chats[c].type = "private" => Cardinality(TitleRows(u, c)) = 1
                      /\ \A l \in LastMessages(c) :
                           IF InChat(c) = {} THEN l = <<>>
                           ELSE \A m \in InChat(c) : times[m] <= times[l[1]]
    BY DEF ListingsAgree
  <2>1. TypeOK /\ IInv /\ Timed
    BY DEF MInv, IInv
  <2>2. c \in DOMAIN chats /\ IsParticipant(u, c)
    BY DEF UserChats
  <2>3. u \in Members(c)
    BY <2>1, <2>2, ParticipantType
  <2>4. Fits(c, Members(c))
    BY <2>1, <2>2, <2>3 DEF IInv, ChatsFit
  <2>5. IsFiniteSet(Members(c)) /\ Cardinality(Members(c)) \in Nat
    BY <2>1, MembersFinite
  <2>6. Cardinality(Members(c) \ {u}) = Cardinality(Members(c)) - 1
    BY <2>3, <2>5, FS_RemoveElement
  <2> QED BY <2>1, <2>4, <2>5, <2>6, FirstOfOrder DEF Fits, PartyList, TitleRows
<1> QED BY <1>1, MessagesInvariant, PTL

-----------------------------------------------------------------------------
LEMMA QuietCommands ==
  ASSUME MInv, Tick \/ ListCommand \/ CloseChat \/ UNCHANGED timedVars
  PROVE  UNCHANGED <<messages, files, posting>>
BY DEF Tick, ListCommand, CloseChat, timedVars, vars, ListingRefused, OpenChat, NextPage,
       FollowChat, Listing, DatabaseFails, Answer, jobs

LEMMA StepByMember ==
  ASSUME MInv, [MessagesNext]_timedVars
  PROVE  \A m \in DOMAIN messages' \ DOMAIN messages :
           IsParticipant(messages'[m].sender, messages'[m].chat)
<1>1. CASE Write
  <2>1. IInv /\ JobsAreNew /\ Timed /\ Next /\ Stamp
    BY <1>1 DEF MInv, Write
  <2>2. CASE Keeps \/ \E c : Deletes(c)
    BY <2>1, <2>2, StampedRest
  <2>3. ASSUME NEW m, NEW row, Posts(m, row)
        PROVE  \A x \in DOMAIN messages' \ DOMAIN messages :
                 IsParticipant(messages'[x].sender, messages'[x].chat)
    <3>1. DOMAIN messages' = DOMAIN messages \cup {m} /\ messages'[m] = row
      BY <2>1, <2>3, StampedPost
    <3>2. IsParticipant(row.sender, row.chat)
      BY <2>3 DEF Posts
    <3> QED BY <3>1, <3>2
  <2> QED BY <2>1, <2>2, <2>3, WriteCases
<1>2. CASE Tick \/ ListCommand \/ CloseChat \/ UNCHANGED timedVars
  BY <1>2, QuietCommands
<1> QED BY <1>1, <1>2 DEF MessagesNext

(* The files that are accounted for, by the tables of one state. *)
MessagePairs == {<<messages[m].chat, m>> : m \in DOMAIN messages}

JobPairs == {<<job[2].chat, job[1]>> : job \in posting}

LEMMA SameFiles ==
  ASSUME UNCHANGED <<messages, files, posting>>
  PROVE  OrphanFiles' = OrphanFiles
BY DEF OrphanFiles

LEMMA StepExplained ==
  ASSUME MInv, [MessagesNext]_timedVars
  PROVE  \/ OrphanFiles' \subseteq OrphanFiles
         \/ posting # {} /\ (PostFileMessageFails \/ Crash)
         \/ \E c \in DOMAIN chats \ DOMAIN chats' : \A f \in OrphanFiles' \ OrphanFiles : f[1] = c
<1>0. IInv /\ JobsAreNew /\ Timed
  BY DEF MInv
<1>1. CASE Write
  <2>1. Next /\ Stamp
    BY <1>1 DEF Write
  <2>2. CASE Keeps /\ UNCHANGED <<posting, files>>
    BY <2>2, SameFiles DEF Keeps
  <2>3. CASE Keeps /\ (PostFileMessageFails \/ Crash)
    <3>1. CASE posting = {}
      <4>1. UNCHANGED <<messages, files, posting>>
        BY <2>3, <3>1 DEF Keeps, PostFileMessageFails, Crash
      <4> QED BY <4>1, SameFiles
    <3> QED BY <2>3, <3>1
  <2>4. ASSUME NEW m, NEW row, Posts(m, row) PROVE OrphanFiles' \subseteq OrphanFiles
    <3>1. /\ DOMAIN messages' = DOMAIN messages \cup {m} /\ messages'[m] = row
          /\ \A x \in DOMAIN messages : messages'[x] = messages[x]
      BY <1>0, <2>1, <2>4, StampedPost
    <3>2. files' = files /\ (posting = {} \/ posting = {<<m, row>>})
      BY <2>4 DEF Posts
    <3>3. MessagePairs \cup JobPairs \subseteq MessagePairs'
      <4>1. MessagePairs \subseteq MessagePairs'
        BY <3>1 DEF MessagePairs
      <4>2. <<row.chat, m>> \in MessagePairs'
        BY <3>1 DEF MessagePairs
      <4>3. JobPairs \subseteq {<<row.chat, m>>}
        BY <3>2 DEF JobPairs
      <4> QED BY <4>1, <4>2, <4>3
    <3> QED BY <3>2, <3>3 DEF OrphanFiles, MessagePairs, JobPairs
  <2>5. ASSUME NEW c, NEW m, NEW row, Keeps, m \notin DOMAIN messages,
               posting' = {<<m, row>>}, row.chat = c, files' \subseteq files \cup {<<c, m>>},
               posting = {}
        PROVE  OrphanFiles' \subseteq OrphanFiles
    <3>1. MessagePairs' = MessagePairs
      BY <2>5 DEF MessagePairs, Keeps
    <3>2. JobPairs = {} /\ <<c, m>> \in JobPairs'
      BY <2>5 DEF JobPairs
    <3> QED BY <2>5, <3>1, <3>2 DEF OrphanFiles, MessagePairs, JobPairs
  <2>6. ASSUME NEW c, Deletes(c)
        PROVE  \A f \in OrphanFiles' \ OrphanFiles : f[1] = c
    <3>1. /\ files' = files /\ posting' = posting
          /\ DOMAIN messages' = {m \in DOMAIN messages : messages[m].chat # c}
      BY <2>6 DEF Deletes, Restrict
    <3>2. \A x \in DOMAIN messages' : messages'[x] = messages[x]
      BY <1>0, <2>1, <2>6, StampedRest
    <3>3. ASSUME NEW p \in MessagePairs \ MessagePairs' PROVE p[1] = c
      <4>1. PICK m \in DOMAIN messages : p = <<messages[m].chat, m>>
        BY DEF MessagePairs
      <4>2. m \notin DOMAIN messages'
        BY <3>2, <4>1 DEF MessagePairs
      <4> QED BY <3>1, <4>1, <4>2
    <3> QED BY <3>1, <3>3 DEF OrphanFiles, MessagePairs
  <2> QED BY <1>0, <2>1, <2>2, <2>3, <2>4, <2>5, <2>6, StepsOnMessages DEF Deletes
<1>2. CASE Tick \/ ListCommand \/ CloseChat \/ UNCHANGED timedVars
  BY <1>2, QuietCommands, SameFiles
<1> QED BY <1>1, <1>2 DEF MessagesNext

(* PostsAreSound: whatever fails between the check, the file and the row    *)
(* of a post, messages come from members only, and a file without its       *)
(* message has one of the three causes (chat_post_handler.cpp:30-82).       *)
THEOREM PostsAreExplained == MessagesSpec => PostsAreSound
<1>1. MInv /\ [MessagesNext]_timedVars =>
        [\A m \in DOMAIN messages' \ DOMAIN messages :
           IsParticipant(messages'[m].sender, messages'[m].chat)]_vars
  BY StepByMember
<1>2. MInv /\ [MessagesNext]_timedVars =>
        [ \/ OrphanFiles' \subseteq OrphanFiles
          \/ posting # {} /\ (PostFileMessageFails \/ Crash)
          \/ \E c \in DOMAIN chats \ DOMAIN chats' :
               \A f \in OrphanFiles' \ OrphanFiles : f[1] = c ]_timedVars
  BY StepExplained
<1> QED
  BY <1>1, <1>2, MessagesInvariant, PTL
     DEF MessagesSpec, PostsAreSound, OnlyMembersPost, OrphanFilesHaveACause

-----------------------------------------------------------------------------
(* A step with the clock and the reader is one of the chats, or it changes *)
(* no table.                                                               *)
LEMMA TimedStep ==
  ASSUME [MessagesNext]_timedVars
  PROVE  [Next]_vars \/ UNCHANGED <<people, rooms, messages, files, jobs>>
<1>1. CASE Write
  BY <1>1 DEF Write
<1>2. CASE Tick \/ CloseChat \/ UNCHANGED timedVars
  BY <1>2 DEF Tick, CloseChat, timedVars
<1>3. CASE ListCommand
  BY <1>3 DEF ListCommand, ListingRefused, OpenChat, NextPage, FollowChat, Listing, DatabaseFails, Answer
<1> QED
  BY <1>1, <1>2, <1>3 DEF MessagesNext

LEMMA TimedShape ==
  ASSUME IInv, CreationShape, [MessagesNext]_timedVars
  PROVE  CreationShape'
<1>1. CASE UNCHANGED <<people, rooms, messages, files, jobs>>
  BY <1>1, ShapeFrame DEF rooms, jobs
<1> QED
  BY <1>1, TimedStep, NextShape

(* With message times, listings and a reader between the commands, the     *)
(* tables still behave as rooms.                                           *)
THEOREM TimedChatsAreRooms == MessagesSpec => ImplementsChatRooms
<1>1. MInv => IInv
  BY DEF MInv
<1>2. MessagesInit => Rooms!Init /\ CreationShape
  BY InitRooms DEF MessagesInit, Init, CreationShape
<1>3. IInv /\ CreationShape /\ [MessagesNext]_timedVars => CreationShape'
  BY TimedShape
<1>4. IInv /\ CreationShape /\ [MessagesNext]_timedVars => [Rooms!Next]_<<Party, Kind>>
  <2> SUFFICES ASSUME IInv, CreationShape, [MessagesNext]_timedVars PROVE RoomStep
    BY DEF RoomStep
  <2>1. CASE UNCHANGED <<people, rooms, messages, files, jobs>>
    BY <2>1, QuietRooms DEF people
  <2> QED
    BY <2>1, TimedStep, NextRooms
<1> QED
  BY <1>1, <1>2, <1>3, <1>4, MessagesInvariant, PTL
     DEF MessagesSpec, ImplementsChatRooms, Rooms!Spec, Rooms!vars
=============================================================================
