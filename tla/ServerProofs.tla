----------------------------- MODULE ServerProofs -----------------------------
(***************************************************************************)
(* Proofs about MessengerServer for any number of users, sessions and      *)
(* messages.                                                               *)
(***************************************************************************)
EXTENDS ServerProperties, FiniteSetTheorems, SequenceTheorems, TLAPS

\* The ids that a set of rows is listed by are the ids of the set.
LEMMA ListingsType ==
    ASSUME NEW ids \in SUBSET MessageIds, NEW listing \in Listings(ids)
    PROVE  listing \in Seq(MessageIds)
<1>1. IsFiniteSet(MessageIds)
  BY FS_Interval, DatabaseAssumption DEF MessageIds
<1>2. IsFiniteSet(ids)
  BY <1>1, FS_Subset
<1>3. Cardinality(ids) \in Nat
  BY <1>2, FS_CardinalityType
<1>4. listing \in [1 .. Cardinality(ids) -> MessageIds]
  BY DEF Listings
<1> QED
  BY <1>3, <1>4

\* The lines the server sends are lines.
LEMMA MessageLinesType ==
    ASSUME NEW listing \in Seq(MessageIds), NEW stored \in BOOLEAN
    PROVE  MessageLines(listing, stored) \in Seq(Line)
<1> DEFINE line(i) == [kind |-> "message", id |-> listing[i], stored |-> stored]
<1>1. \A i \in DOMAIN listing : line(i) \in Line
  BY DEF Line, MessageLine
<1>2. [i \in 1 .. Len(listing) |-> line(i)] \in Seq(Line)
  <2>1. Len(listing) \in Nat /\ DOMAIN listing = 1 .. Len(listing)
    OBVIOUS
  <2> HIDE DEF line
  <2> QED BY <1>1, <2>1
<1>3. DOMAIN listing = 1 .. Len(listing)
  OBVIOUS
<1> QED
  BY <1>2, <1>3 DEF MessageLines, Kept

LEMMA ResponseType ==
    ASSUME NEW type \in {"register", "login", "message", "error"},
           NEW success \in BOOLEAN
    PROVE  Response(type, success) \in Seq(Line)
<1>1. [kind |-> "response", type |-> type, success |-> success] \in Line
  BY DEF Line, ResponseLine
<1> QED
  BY <1>1 DEF Response, Kept

LEMMA TypingType ==
    ASSUME NEW from \in Names, NEW is_typing \in BOOLEAN
    PROVE  Typing(from, is_typing) \in Seq(Line)
<1>1. [kind |-> "typing", from |-> from, is_typing |-> is_typing] \in Line
  BY DEF Line, TypingLine
<1> QED
  BY <1>1 DEF Typing, Kept

\* send() keeps the types of the streams.
LEMMA SendType ==
    ASSUME out \in [Sessions -> Seq(Line)], writeFailed \in [Sessions -> BOOLEAN],
           NEW s \in Sessions, NEW lines \in Seq(Line), Send(s, lines)
    PROVE  /\ out' \in [Sessions -> Seq(Line)]
           /\ writeFailed' \in [Sessions -> BOOLEAN]
BY DEF Send, Enqueued, Doomed

LEMMA EnqueuedType ==
    ASSUME NEW o \in [Sessions -> Seq(Line)], NEW s \in Sessions,
           NEW lines \in Seq(Line)
    PROVE  Enqueued(o, s, lines) \in [Sessions -> Seq(Line)]
BY DEF Enqueued

LEMMA SendThenSendType ==
    ASSUME out \in [Sessions -> Seq(Line)], writeFailed \in [Sessions -> BOOLEAN],
           NEW r \in Sessions, NEW lines \in Seq(Line),
           NEW s \in Sessions, NEW more \in Seq(Line),
           SendThenSend(r, lines, s, more)
    PROVE  /\ out' \in [Sessions -> Seq(Line)]
           /\ writeFailed' \in [Sessions -> BOOLEAN]
<1>1. Enqueued(Enqueued(out, r, lines), s, more) \in [Sessions -> Seq(Line)]
  BY EnqueuedType
<1>2. Doomed(Doomed(writeFailed, r), s) \in [Sessions -> BOOLEAN]
  BY DEF Doomed
<1> QED
  BY <1>1, <1>2 DEF SendThenSend

-----------------------------------------------------------------------------
(* Type correctness, first of what the actions are made of.                 *)

LEMMA GetUserType ==
    ASSUME DatabaseTypes, NEW name \in Names, NEW user \in GetUser(name)
    PROVE  user \in UserIds
BY DatabaseAssumption DEF DatabaseTypes, GetUser, UserIds

LEMMA AddUserType ==
    ASSUME DatabaseTypes, NEW name \in Names, NEW email \in Emails,
           NEW hash \in Hashes, AddUser(name, email, hash)
    PROVE  DatabaseTypes'
<1> DEFINE row == [username |-> ColumnText[name], email |-> email,
                   password_hash |-> hash]
<1>1. row \in UserRow
  BY DatabaseAssumption DEF UserRow
<1>2. users' = Append(users, row) /\ Len(users) < MaxUsers
  BY DEF AddUser
<1> HIDE DEF row
<1>3. users' \in Seq(UserRow) /\ Len(users') <= MaxUsers
  BY <1>1, <1>2, DatabaseAssumption DEF DatabaseTypes
<1> QED
  BY <1>3 DEF AddUser, DatabaseTypes

LEMMA StoreMessageType ==
    ASSUME DatabaseTypes, NEW sender \in UserIds, NEW receiver \in UserIds,
           NEW is_delivered \in BOOLEAN,
           StoreMessage(sender, receiver, is_delivered)
    PROVE  /\ DatabaseTypes'
           /\ NextMessageId \in MessageIds
BY DatabaseAssumption
   DEF DatabaseTypes, StoreMessage, NextMessageId, MessageIds, MessageRow

LEMMA DeleteType ==
    ASSUME DatabaseTypes, NEW user \in UserIds, DeleteOfflineMessages(user)
    PROVE  DatabaseTypes'
BY DEF DatabaseTypes, DeleteOfflineMessages

LEMMA HandedOverType ==
    ASSUME HistoryTypes, NEW ids \in SUBSET MessageIds, HandedOver(ids)
    PROVE  handed' \in [MessageIds -> 0 .. 2]
BY DEF HistoryTypes, HandedOver, Once

LEMMA ScanType ==
    ASSUME NEW user \in UserIds, NEW scan \in OfflineScans(user)
    PROVE  scan \in SUBSET OfflineMessages(user) /\ scan \in SUBSET MessageIds
BY DEF OfflineScans, OfflinePrefixes, OfflineMessages

\* The replay on login.
LEMMA SendStoredType ==
    ASSUME DatabaseTypes, StreamTypes, HistoryTypes,
           NEW s \in Sessions, NEW user \in UserIds, NEW reply \in Seq(Line),
           SendStoredMessages(s, user, reply)
    PROVE  /\ DatabaseTypes'
           /\ out' \in [Sessions -> Seq(Line)]
           /\ writeFailed' \in [Sessions -> BOOLEAN]
           /\ handed' \in [MessageIds -> 0 .. 2]
<1> PICK scan \in OfflineScans(user) : \E listing \in Listings(scan) :
         /\ Send(s, reply \o MessageLines(listing, TRUE))
         /\ HandedOver(scan)
         /\ \/ scan # {} /\ DeleteOfflineMessages(user)
            \/ scan = {} /\ UNCHANGED dbVars
            \/ "delete" \in Faults /\ UNCHANGED dbVars
  BY DEF SendStoredMessages
<1>1. PICK listing \in Listings(scan) :
         /\ Send(s, reply \o MessageLines(listing, TRUE))
         /\ HandedOver(scan)
         /\ \/ scan # {} /\ DeleteOfflineMessages(user)
            \/ scan = {} /\ UNCHANGED dbVars
            \/ "delete" \in Faults /\ UNCHANGED dbVars
  OBVIOUS
<1>2. scan \in SUBSET MessageIds
  BY ScanType
<1>3. MessageLines(listing, TRUE) \in Seq(Line)
  BY <1>2, ListingsType, MessageLinesType
<1>4. reply \o MessageLines(listing, TRUE) \in Seq(Line)
  BY <1>3, ConcatProperties
<1>5. /\ out' \in [Sessions -> Seq(Line)]
      /\ writeFailed' \in [Sessions -> BOOLEAN]
  BY <1>1, <1>4, SendType DEF StreamTypes
<1>6. handed' \in [MessageIds -> 0 .. 2]
  BY <1>1, <1>2, HandedOverType
<1>7. DatabaseTypes'
  <2>1. CASE DeleteOfflineMessages(user)
    BY <2>1, DeleteType
  <2>2. CASE UNCHANGED dbVars
    BY <2>2 DEF dbVars, DatabaseTypes
  <2> QED BY <1>1, <2>1, <2>2
<1> QED
  BY <1>5, <1>6, <1>7

LEMMA ReadHandledType ==
    ASSUME unread \in [Sessions -> Nat], NEW s \in Sessions, ReadHandled(s)
    PROVE  /\ unread' \in [Sessions -> Nat]
           /\ phase' = phase /\ link' = link
           /\ unread[s] > 0
BY DEF ReadHandled

LEMMA SessionTypesKept ==
    ASSUME SessionTypes, UNCHANGED <<accountVars, phase>>
    PROVE  SessionTypes'
<1>1. /\ phase' = phase /\ authenticated' = authenticated
      /\ userId' = userId /\ username' = username
  BY DEF accountVars
<1> QED
  BY <1>1 DEF SessionTypes

\* A request that is only answered.
LEMMA AnswerType ==
    ASSUME TypeOK, NEW s \in Sessions, NEW lines \in Seq(Line), NEW r \in Sessions,
           ReadHandled(s), Send(r, lines),
           UNCHANGED <<dbVars, registryVars, accountVars, historyVars>>
    PROVE  TypeOK'
<1>1. /\ out' \in [Sessions -> Seq(Line)]
      /\ writeFailed' \in [Sessions -> BOOLEAN]
  BY SendType DEF TypeOK, StreamTypes
<1>2. StreamTypes'
  BY <1>1, ReadHandledType DEF TypeOK, StreamTypes
<1>3. DatabaseTypes' /\ RegistryTypes' /\ HistoryTypes'
  BY DEF TypeOK, DatabaseTypes, RegistryTypes, HistoryTypes, dbVars, registryVars,
         historyVars
<1>4. SessionTypes'
  BY SessionTypesKept DEF TypeOK, ReadHandled
<1> QED
  BY <1>2, <1>3, <1>4 DEF TypeOK

LEMMA CloseType ==
    ASSUME TypeOK, NEW s \in Sessions, Close(s)
    PROVE  /\ DatabaseTypes' /\ RegistryTypes' /\ SessionTypes'
           /\ link' = link /\ out' = out
           /\ writeFailed' \in [Sessions -> BOOLEAN]
<1>1. DatabaseTypes'
  BY DEF TypeOK, DatabaseTypes, Close, dbVars
<1>2. RegistryTypes'
  BY DEF TypeOK, RegistryTypes, Close, RemoveSession, registryVars
<1>3. SessionTypes'
  BY DEF TypeOK, SessionTypes, Close, accountVars
<1> QED
  BY <1>1, <1>2, <1>3 DEF TypeOK, StreamTypes, Close

LEMMA VolatileLostType ==
    ASSUME TypeOK, VolatileLost
    PROVE  /\ RegistryTypes' /\ SessionTypes' /\ StreamTypes'
           /\ loggedInAs' \in [Sessions -> SUBSET UserIds]
BY DEF TypeOK, VolatileLost, RegistryTypes, SessionTypes, StreamTypes, EmptyRegistry,
       NoUsernames

\* A message from a session that passes isSessionAuthenticated.
LEMMA SenderType ==
    ASSUME TypeOK, NEW s \in Sessions, IsSessionAuthenticated(s)
    PROVE  /\ userId[s] \in UserIds
           /\ username[s] \in Names
           /\ activeSessions[userId[s]] \in Sessions
BY DEF TypeOK, SessionTypes, RegistryTypes, IsSessionAuthenticated, IsSessionActive

LEMMA PostType ==
    ASSUME TypeOK, NEW s \in Sessions, NEW user \in UserIds,
           ReadHandled(s), IsSessionAuthenticated(s),
           UNCHANGED <<registryVars, accountVars, loggedInAs>>,
           \/ DeliverOnline(s, user, MessageSent)
           \/ StoreOffline(s, user, MessageSent)
    PROVE  TypeOK'
<1>1. PICK d \in BOOLEAN : StoreMessage(userId[s], user, d)
  BY DEF DeliverOnline, StoreOffline
<1>2. userId[s] \in UserIds
  BY SenderType
<1>3. DatabaseTypes' /\ NextMessageId \in MessageIds
  BY <1>1, <1>2, StoreMessageType DEF TypeOK
<1>4. MessageSent \in Seq(Line)
  BY ResponseType DEF MessageSent
<1>5. /\ out' \in [Sessions -> Seq(Line)]
      /\ writeFailed' \in [Sessions -> BOOLEAN]
      /\ handed' \in [MessageIds -> 0 .. 2]
      /\ addressee' \in [MessageIds -> UserIds \cup {0}]
  <2>1. addressee' \in [MessageIds -> UserIds \cup {0}]
    BY <1>3 DEF TypeOK, HistoryTypes, DeliverOnline, StoreOffline, Stored
  <2>2. CASE DeliverOnline(s, user, MessageSent)
    <3>1. activeSessions[user] \in Sessions
      BY <2>2 DEF TypeOK, RegistryTypes, DeliverOnline
    <3>2. MessageLines(<<NextMessageId>>, FALSE) \in Seq(Line)
      <4>1. <<NextMessageId>> \in Seq(MessageIds)
        BY <1>3
      <4> QED BY <4>1, MessageLinesType
    <3>3. {NextMessageId} \in SUBSET MessageIds
      BY <1>3
    <3>4. SendThenSend(activeSessions[user], MessageLines(<<NextMessageId>>, FALSE),
                       s, MessageSent)
      BY <2>2 DEF DeliverOnline
    <3>5. /\ out' \in [Sessions -> Seq(Line)]
          /\ writeFailed' \in [Sessions -> BOOLEAN]
      BY <3>1, <3>2, <3>4, <1>4, SendThenSendType DEF TypeOK, StreamTypes
    <3>6. handed' \in [MessageIds -> 0 .. 2]
      BY <2>2, <3>3, HandedOverType DEF TypeOK, DeliverOnline
    <3> QED BY <3>5, <3>6, <2>1
  <2>3. CASE StoreOffline(s, user, MessageSent)
    <3>1. /\ out' \in [Sessions -> Seq(Line)]
          /\ writeFailed' \in [Sessions -> BOOLEAN]
      BY <2>3, <1>4, SendType DEF TypeOK, StreamTypes, StoreOffline
    <3> QED BY <2>1, <2>3, <3>1 DEF TypeOK, HistoryTypes, StoreOffline
  <2> QED BY <2>2, <2>3
<1>6. StreamTypes'
  BY <1>5, ReadHandledType DEF TypeOK, StreamTypes
<1>7. HistoryTypes'
  BY <1>5 DEF TypeOK, HistoryTypes
<1>8. RegistryTypes' /\ SessionTypes'
  <2>1. SessionTypes'
    BY SessionTypesKept DEF TypeOK, ReadHandled
  <2> QED BY <2>1 DEF TypeOK, RegistryTypes, registryVars
<1> QED
  BY <1>3, <1>6, <1>7, <1>8 DEF TypeOK

LEMMA TypeInit == Init => TypeOK
<1> SUFFICES ASSUME Init PROVE TypeOK
  OBVIOUS
<1> USE DEF Init
<1>1. DatabaseTypes
  BY DatabaseAssumption DEF DatabaseInit, DatabaseTypes
<1>2. RegistryTypes
  BY DEF UserManagerInit, RegistryTypes, EmptyRegistry, NoUsernames
<1>3. SessionTypes /\ StreamTypes
  BY DEF SessionInit, SessionTypes, StreamTypes
<1>4. HistoryTypes
  BY DEF RouterInit, HistoryTypes
<1> QED
  BY <1>1, <1>2, <1>3, <1>4 DEF TypeOK

LEMMA TypeStep == TypeOK /\ [Next]_vars => TypeOK'
<1> SUFFICES ASSUME TypeOK, [Next]_vars PROVE TypeOK'
  OBVIOUS
<1>1. ASSUME NEW s \in Sessions, Accept(s) PROVE TypeOK'
  <2>1. DatabaseTypes' /\ RegistryTypes' /\ HistoryTypes'
    BY <1>1 DEF TypeOK, Accept, DatabaseTypes, RegistryTypes, HistoryTypes, dbVars,
                registryVars, historyVars
  <2>2. SessionTypes'
    BY <1>1 DEF TypeOK, Accept, Construct, SessionTypes, accountVars
  <2>3. StreamTypes'
    BY <1>1 DEF TypeOK, Accept, Construct, StreamTypes
  <2> QED BY <2>1, <2>2, <2>3 DEF TypeOK
<1>2. ASSUME NEW s \in Sessions, Register(s) PROVE TypeOK'
  <2>1. DatabaseTypes'
    BY <1>2, AddUserType, UserManagerAssumption DEF TypeOK, Register, RegisterUser
  <2>2. /\ out' \in [Sessions -> Seq(Line)]
        /\ writeFailed' \in [Sessions -> BOOLEAN]
    BY <1>2, ResponseType, SendType DEF TypeOK, StreamTypes, Register
  <2>3. StreamTypes'
    BY <1>2, <2>2, ReadHandledType DEF TypeOK, StreamTypes, Register
  <2>4. SessionTypes'
    BY <1>2, SessionTypesKept, ReadHandledType DEF TypeOK, StreamTypes, Register
  <2>5. RegistryTypes' /\ HistoryTypes'
    BY <1>2 DEF TypeOK, Register, RegistryTypes, HistoryTypes, registryVars, historyVars
  <2> QED BY <2>1, <2>3, <2>4, <2>5 DEF TypeOK
<1>3. ASSUME NEW s \in Sessions, RegisterFails(s) PROVE TypeOK'
  BY <1>3, AnswerType, ResponseType DEF RegisterFails
<1>4. ASSUME NEW s \in Sessions, Login(s) PROVE TypeOK'
  <2>1. PICK name \in Names, password \in Passwords :
           \E user \in Authenticated(name, password) :
              /\ LogIn(s, user, name)
              /\ SendStoredMessages(s, user, Response("login", TRUE))
    BY <1>4 DEF Login
  <2>2. PICK user \in Authenticated(name, password) :
              /\ LogIn(s, user, name)
              /\ SendStoredMessages(s, user, Response("login", TRUE))
    BY <2>1
  <2>3. user \in UserIds
    BY GetUserType DEF TypeOK, Authenticated
  <2>4. /\ DatabaseTypes'
        /\ out' \in [Sessions -> Seq(Line)]
        /\ writeFailed' \in [Sessions -> BOOLEAN]
        /\ handed' \in [MessageIds -> 0 .. 2]
    BY <2>2, <2>3, SendStoredType, ResponseType DEF TypeOK
  <2>5. RegistryTypes'
    BY <2>2, <2>3 DEF TypeOK, RegistryTypes, LogIn, AddSession
  <2>6. SessionTypes'
    BY <1>4, <2>2, <2>3, ReadHandledType
       DEF TypeOK, SessionTypes, StreamTypes, Login, LogIn, SetAuthenticated
  <2>7. StreamTypes'
    BY <1>4, <2>4, ReadHandledType DEF TypeOK, StreamTypes, Login
  <2>8. HistoryTypes'
    BY <1>4, <2>2, <2>3, <2>4 DEF TypeOK, HistoryTypes, Login, LogIn
  <2> QED BY <2>4, <2>5, <2>6, <2>7, <2>8 DEF TypeOK
<1>5. ASSUME NEW s \in Sessions, LoginFails(s) PROVE TypeOK'
  BY <1>5, AnswerType, ResponseType DEF LoginFails
<1>6. ASSUME NEW s \in Sessions, RefuseMessage(s) PROVE TypeOK'
  BY <1>6, AnswerType, ResponseType DEF RefuseMessage
<1>7. ASSUME NEW s \in Sessions, PostOnline(s) \/ PostOffline(s) PROVE TypeOK'
  <2>1. PICK name \in Names, user \in UserIds :
           \/ DeliverOnline(s, user, MessageSent)
           \/ StoreOffline(s, user, MessageSent)
    BY <1>7, GetUserType DEF TypeOK, PostOnline, PostOffline
  <2> QED BY <1>7, <2>1, PostType DEF PostOnline, PostOffline
<1>8. ASSUME NEW s \in Sessions, PostDropped(s) \/ PostMistyped(s) PROVE TypeOK'
  BY <1>8, AnswerType, ResponseType DEF PostDropped, PostMistyped, MessageSent
<1>9. ASSUME NEW s \in Sessions, NotifyTyping(s) PROVE TypeOK'
  <2>1. PICK name \in Names, is_typing \in BOOLEAN :
           SendTypingStatus(username[s], name, is_typing)
    BY <1>9 DEF NotifyTyping
  <2>2. Typing(username[s], is_typing) \in Seq(Line)
    BY <1>9, SenderType, TypingType DEF NotifyTyping
  <2>3. SessionByUsername(name) \subseteq Sessions
    BY DEF TypeOK, RegistryTypes, SessionByUsername
  <2>4. CASE NothingSent
    <3>1. StreamTypes'
      BY <1>9, <2>4, ReadHandledType
         DEF TypeOK, StreamTypes, NotifyTyping, NothingSent
    <3>2. SessionTypes'
      BY <1>9, SessionTypesKept, ReadHandledType DEF TypeOK, StreamTypes, NotifyTyping
    <3> QED BY <1>9, <3>1, <3>2
            DEF TypeOK, DatabaseTypes, RegistryTypes, HistoryTypes, NotifyTyping,
                dbVars, registryVars, historyVars
  <2>5. ASSUME NEW r \in SessionByUsername(name),
               Send(r, Typing(username[s], is_typing))
        PROVE  TypeOK'
    BY <1>9, <2>2, <2>3, <2>5, AnswerType DEF NotifyTyping
  <2> QED BY <2>1, <2>4, <2>5 DEF SendTypingStatus
<1>10. ASSUME NEW s \in Sessions, IgnoreTyping(s) PROVE TypeOK'
  <2>1. StreamTypes'
    BY <1>10, ReadHandledType DEF TypeOK, StreamTypes, IgnoreTyping, NothingSent
  <2>2. SessionTypes'
    BY <1>10, SessionTypesKept, ReadHandledType DEF TypeOK, StreamTypes, IgnoreTyping
  <2> QED BY <1>10, <2>1, <2>2
          DEF TypeOK, DatabaseTypes, RegistryTypes, HistoryTypes, IgnoreTyping,
              dbVars, registryVars, historyVars
<1>11. ASSUME NEW s \in Sessions, Malformed(s) PROVE TypeOK'
  BY <1>11, AnswerType, ResponseType DEF Malformed
<1>12. ASSUME NEW s \in Sessions, SessionReadError(s) \/ SessionWriteError(s)
       PROVE  TypeOK'
  <2>1. Close(s) /\ unread' \in [Sessions -> Nat]
    BY <1>12 DEF TypeOK, StreamTypes, SessionReadError, ReadError, SessionWriteError,
                 WriteError
  <2>2. HistoryTypes'
    BY <1>12 DEF TypeOK, HistoryTypes, historyVars, SessionReadError, SessionWriteError
  <2> QED BY <2>1, <2>2, CloseType DEF TypeOK, StreamTypes
<1>13. ASSUME NEW s \in Sessions, SessionDestroyed(s) PROVE TypeOK'
  <2>1. DatabaseTypes' /\ RegistryTypes' /\ HistoryTypes'
    BY <1>13 DEF TypeOK, DatabaseTypes, RegistryTypes, HistoryTypes, SessionDestroyed,
                 Destroy, dbVars, registryVars
  <2>2. SessionTypes'
    BY <1>13 DEF TypeOK, SessionTypes, SessionDestroyed, Destroy
  <2>3. StreamTypes'
    BY <1>13 DEF TypeOK, StreamTypes, SessionDestroyed, Destroy
  <2> QED BY <2>1, <2>2, <2>3 DEF TypeOK
<1>14. ASSUME NEW s \in Sessions, PeerSends(s) \/ PeerReceives(s) \/ PeerLost(s)
       PROVE  TypeOK'
  <2>1. DatabaseTypes' /\ RegistryTypes' /\ HistoryTypes'
    BY <1>14 DEF TypeOK, DatabaseTypes, RegistryTypes, HistoryTypes, PeerSends, PeerWrites,
                 PeerReceives, PeerReads, PeerLost, LinkFails, dbVars, registryVars,
                 historyVars
  <2>2. SessionTypes'
    BY <1>14, SessionTypesKept
       DEF TypeOK, PeerSends, PeerWrites, PeerReceives, PeerReads, PeerLost, LinkFails
  <2>3. StreamTypes'
    <3>1. CASE PeerSends(s)
      BY <3>1 DEF TypeOK, StreamTypes, PeerSends, PeerWrites
    <3>2. CASE PeerReceives(s)
      <4>1. Tail(out[s]) \in Seq(Line)
        BY <3>2 DEF TypeOK, StreamTypes, PeerReceives, PeerReads
      <4> QED BY <3>2, <4>1 DEF TypeOK, StreamTypes, PeerReceives, PeerReads
    <3>3. CASE PeerLost(s)
      BY <3>3 DEF TypeOK, StreamTypes, PeerLost, LinkFails
    <3> QED BY <1>14, <3>1, <3>2, <3>3
  <2> QED BY <2>1, <2>2, <2>3 DEF TypeOK
<1>15. ASSUME Restart PROVE TypeOK'
  BY <1>15, VolatileLostType
     DEF TypeOK, Restart, DatabaseTypes, HistoryTypes, dbVars
<1>16. ASSUME StopInPost PROVE TypeOK'
  <2>1. PICK s \in Sessions, name \in Names :
           /\ IsSessionAuthenticated(s)
           /\ \E user \in GetUser(name) :
                 /\ StoreMessage(userId[s], user, activeSessions[user] # NoSession)
                 /\ Stored(user)
    BY <1>16 DEF StopInPost
  <2>2. PICK user \in GetUser(name) :
           /\ StoreMessage(userId[s], user, activeSessions[user] # NoSession)
           /\ Stored(user)
    BY <2>1
  <2>3. user \in UserIds /\ userId[s] \in UserIds
    BY <2>1, GetUserType, SenderType DEF TypeOK
  <2>4. DatabaseTypes' /\ NextMessageId \in MessageIds
    BY <2>2, <2>3, StoreMessageType DEF TypeOK
  <2>5. HistoryTypes'
    BY <1>16, <2>2, <2>3, <2>4, VolatileLostType
       DEF TypeOK, HistoryTypes, StopInPost, Stored
  <2> QED BY <1>16, <2>4, <2>5, VolatileLostType DEF TypeOK, StopInPost
<1>17. ASSUME StopInReplay PROVE TypeOK'
  <2>1. handed' \in [MessageIds -> 0 .. 2]
    <3>1. PICK user : \E sent \in OfflinePrefixes(user) : HandedOver(sent)
      BY <1>17 DEF StopInReplay
    <3>2. PICK sent \in OfflinePrefixes(user) : HandedOver(sent)
      BY <3>1
    <3>3. sent \in SUBSET MessageIds
      BY DEF OfflineMessages, OfflinePrefixes
    <3> QED BY <3>2, <3>3, HandedOverType DEF TypeOK
  <2>2. HistoryTypes' /\ DatabaseTypes'
    BY <1>17, <2>1, VolatileLostType
       DEF TypeOK, HistoryTypes, DatabaseTypes, StopInReplay, dbVars
  <2> QED BY <1>17, <2>2, VolatileLostType DEF TypeOK, StopInReplay
<1>18. ASSUME UNCHANGED vars PROVE TypeOK'
  <2>1. SessionTypes'
    BY <1>18, SessionTypesKept DEF TypeOK, vars
  <2> QED BY <1>18, <2>1
          DEF TypeOK, vars, DatabaseTypes, RegistryTypes, StreamTypes, HistoryTypes,
              dbVars, registryVars, streamVars, historyVars
<1> QED
  BY <1>1, <1>2, <1>3, <1>4, <1>5, <1>6, <1>7, <1>8, <1>9, <1>10, <1>11, <1>12, <1>13,
     <1>14, <1>15, <1>16, <1>17, <1>18 DEF Next, HandleRequest

\* Every reachable state is well typed: no session without a login posts or
\* sends typing notices under no name, and what is in the tables and in the
\* streams is what the code declares.
THEOREM TypeCorrect == Spec => []TypeOK
<1>1. TypeOK /\ [Next]_vars => TypeOK'
  BY TypeStep
<1> QED
  BY <1>1, TypeInit, PTL DEF Spec

-----------------------------------------------------------------------------
(* Most steps touch neither the tables nor the registry; the others are few. *)

\* Nothing but the streams changes, and no session without an object gets input.
Quiet ==
    /\ UNCHANGED <<dbVars, registryVars, phase, accountVars, historyVars>>
    /\ \A s \in Sessions : unread[s] = 0 /\ phase[s] = "free" => unread'[s] = 0

SessionCloses(s) ==
    /\ Close(s)
    /\ UNCHANGED historyVars
    /\ \A r \in Sessions : unread[r] = 0 => unread'[r] = 0

Stopped ==
    /\ VolatileLost
    /\ Restart \/ StopInPost \/ StopInReplay

LEMMA StepCases ==
    ASSUME TypeOK, [Next]_vars
    PROVE  \/ \E s \in Sessions :
                 \/ Accept(s) \/ Register(s) \/ Login(s)
                 \/ PostOnline(s) \/ PostOffline(s)
                 \/ SessionCloses(s) \/ SessionDestroyed(s)
           \/ Stopped
           \/ Quiet
<1> USE DEF TypeOK, StreamTypes
<1>1. ASSUME NEW s \in Sessions, ReadHandled(s),
             UNCHANGED <<dbVars, registryVars, accountVars, historyVars>>
      PROVE  Quiet
  BY <1>1 DEF ReadHandled, Quiet
<1>2. ASSUME NEW s \in Sessions, HandleRequest(s)
      PROVE  \/ Register(s) \/ Login(s) \/ PostOnline(s) \/ PostOffline(s)
             \/ Quiet
  BY <1>1, <1>2
     DEF HandleRequest, RegisterFails, LoginFails, RefuseMessage, PostDropped,
         PostMistyped, NotifyTyping, IgnoreTyping, Malformed
<1>3. ASSUME NEW s \in Sessions, SessionReadError(s) \/ SessionWriteError(s)
      PROVE  SessionCloses(s)
  BY <1>3 DEF SessionReadError, SessionWriteError, ReadError, WriteError, SessionCloses
<1>4. ASSUME NEW s \in Sessions, PeerSends(s) \/ PeerReceives(s) \/ PeerLost(s)
      PROVE  Quiet
  BY <1>4 DEF PeerSends, PeerWrites, PeerReceives, PeerReads, PeerLost, LinkFails, Quiet
<1>5. Restart \/ StopInPost \/ StopInReplay => Stopped
  BY DEF Restart, StopInPost, StopInReplay, Stopped
<1>6. UNCHANGED vars => Quiet
  BY DEF vars, streamVars, Quiet
<1> QED
  BY <1>2, <1>3, <1>4, <1>5, <1>6 DEF Next

-----------------------------------------------------------------------------
(* The registry and the references into the users table.                    *)

\* A session that has no object has no requests.
FreeSessionsIdle == \A s \in Sessions : phase[s] = "free" => unread[s] = 0

UsernamesUnique ==
    \A i, j \in 1 .. Len(users) : users[i].username = users[j].username => i = j

\* Sessions log in only as users that exist.
LoggedInUsersExist ==
    \A s \in Sessions : authenticated[s] => userId[s] \in 1 .. Len(users)

RegistryInv ==
    /\ TypeOK
    /\ FreeSessionsIdle
    /\ UsernamesUnique
    /\ LoggedInUsersExist
    /\ RegistryAgrees
    /\ RowsReferToUsers

\* Rows of users stay, and a new one gets a username that was not there.
LEMMA UsersKept ==
    ASSUME TypeOK, NEW s \in Sessions, Register(s)
    PROVE  /\ 1 .. Len(users) \subseteq 1 .. Len(users')
           /\ \A name \in Names : GetUser(name) \subseteq GetUser(name)'
           /\ UsernamesUnique => UsernamesUnique'
<1>1. PICK name \in Names, email \in Emails, password \in Passwords :
         RegisterUser(name, email, password)
  BY DEF Register
<1> DEFINE row == [username |-> ColumnText[name], email |-> email,
                   password_hash |-> HashOf[password]]
<1>2. /\ users' = Append(users, row)
      /\ \A i \in 1 .. Len(users) : users[i].username # row.username
  BY <1>1 DEF RegisterUser, AddUser, Conflicts, GetUser
<1>3. row \in UserRow
  BY DatabaseAssumption, UserManagerAssumption DEF UserRow
<1> HIDE DEF row
<1>4. /\ Len(users') = Len(users) + 1
      /\ \A i \in 1 .. Len(users) : users'[i] = users[i]
      /\ users'[Len(users) + 1] = row
      /\ Len(users) \in Nat
  BY <1>2, <1>3 DEF TypeOK, DatabaseTypes
<1>5. \A i \in 1 .. Len(users') : i \in 1 .. Len(users) \/ i = Len(users) + 1
  BY <1>4
<1>6. 1 .. Len(users) \subseteq 1 .. Len(users')
  BY <1>4
<1>7. ASSUME NEW n \in Names PROVE GetUser(n) \subseteq GetUser(n)'
  BY <1>4, <1>6 DEF GetUser
<1>8. UsernamesUnique => UsernamesUnique'
  BY <1>2, <1>4, <1>5 DEF UsernamesUnique
<1> QED
  BY <1>6, <1>7, <1>8

LEMMA RegistryInit == Init => RegistryInv
<1> SUFFICES ASSUME Init PROVE RegistryInv
  OBVIOUS
<1>1. FreeSessionsIdle /\ LoggedInUsersExist
  BY DEF Init, SessionInit, FreeSessionsIdle, LoggedInUsersExist
<1>2. UsernamesUnique
  BY DatabaseAssumption DEF Init, DatabaseInit, UsernamesUnique
<1>3. RegistryAgrees
  BY DEF Init, UserManagerInit, EmptyRegistry, NoUsernames, RegistryAgrees,
         IsSessionActive
<1>4. RowsReferToUsers
  BY DEF Init, DatabaseInit, RowsReferToUsers
<1> QED
  BY <1>1, <1>2, <1>3, <1>4, TypeInit DEF RegistryInv

\* A login registers an existing user, under a name that finds it.
LEMMA LoginUser ==
    ASSUME TypeOK, NEW s \in Sessions, Login(s)
    PROVE  \E name \in Names : \E user \in GetUser(name) :
              /\ user \in UserIds
              /\ LogIn(s, user, name)
              /\ SendStoredMessages(s, user, Response("login", TRUE))
BY GetUserType DEF TypeOK, Login, Authenticated

\* A replay changes no user and stores no message.
LEMMA ReplayTables ==
    ASSUME NEW s, NEW user, NEW reply, SendStoredMessages(s, user, reply)
    PROVE  /\ users' = users /\ lastMessageId' = lastMessageId
           /\ UNCHANGED messages \/ DeleteOfflineMessages(user)
BY DEF SendStoredMessages, DeleteOfflineMessages, dbVars

\* What a message post does to the tables.
LEMMA PostTables ==
    ASSUME TypeOK, NEW s \in Sessions, PostOnline(s) \/ PostOffline(s)
    PROVE  \E name \in Names : \E user \in GetUser(name), d \in BOOLEAN :
              /\ user \in UserIds
              /\ StoreMessage(userId[s], user, d)
BY GetUserType DEF TypeOK, PostOnline, PostOffline, DeliverOnline, StoreOffline

LEMMA StoredRowRefers ==
    ASSUME TypeOK, LoggedInUsersExist, RowsReferToUsers, NEW s \in Sessions,
           IsSessionAuthenticated(s), NEW name \in Names, NEW user \in GetUser(name),
           NEW d \in BOOLEAN, StoreMessage(userId[s], user, d)
    PROVE  RowsReferToUsers'
<1>1. userId[s] \in 1 .. Len(users) /\ user \in 1 .. Len(users)
  BY DEF LoggedInUsersExist, IsSessionAuthenticated, GetUser
<1>2. \A m \in MessageIds :
         messages'[m] = messages[m] \/
         messages'[m] = [sender |-> userId[s], receiver |-> user, is_delivered |-> d]
  BY DEF TypeOK, DatabaseTypes, StoreMessage
<1>3. users' = users
  BY DEF StoreMessage
<1> QED
  BY <1>1, <1>2, <1>3 DEF RowsReferToUsers

LEMMA RegistryStep == RegistryInv /\ [Next]_vars => RegistryInv'
<1> SUFFICES ASSUME RegistryInv, [Next]_vars PROVE RegistryInv'
  OBVIOUS
<1> USE DEF RegistryInv
<1>0. TypeOK /\ TypeOK'
  BY TypeStep
<1> DEFINE Rest == /\ FreeSessionsIdle /\ UsernamesUnique /\ LoggedInUsersExist
                   /\ RegistryAgrees /\ RowsReferToUsers
<1>1. ASSUME NEW s \in Sessions, Accept(s) PROVE Rest'
  <2>1. UNCHANGED <<dbVars, registryVars, accountVars, historyVars, unread>>
    BY <1>1 DEF Accept, Construct
  <2>2. \A r \in Sessions : phase'[r] = "free" => phase[r] = "free"
    BY <1>0, <1>1 DEF Accept, Construct, TypeOK, SessionTypes
  <2>3. RegistryAgrees'
    BY <2>1, <2>2, <1>0
       DEF RegistryAgrees, IsSessionActive, GetUser, dbVars, registryVars, accountVars,
           historyVars, TypeOK, RegistryTypes
  <2> QED BY <2>1, <2>2, <2>3
          DEF FreeSessionsIdle, UsernamesUnique, LoggedInUsersExist, RowsReferToUsers,
              dbVars, accountVars
<1>2. ASSUME NEW s \in Sessions, Register(s) PROVE Rest'
  <2>1. UNCHANGED <<registryVars, accountVars, historyVars, phase, messages>>
    BY <1>2 DEF Register, ReadHandled, RegisterUser, AddUser
  <2>2. FreeSessionsIdle'
    BY <1>0, <1>2 DEF Register, ReadHandled, FreeSessionsIdle, TypeOK, StreamTypes
  <2>3. LoggedInUsersExist' /\ RowsReferToUsers'
    BY <2>1, <1>0, <1>2, UsersKept DEF LoggedInUsersExist, RowsReferToUsers, accountVars
  <2>4. RegistryAgrees'
    <3>1. \A u \in UserIds : IsSessionActive(u)' <=> IsSessionActive(u)
      BY <2>1 DEF registryVars, IsSessionActive
    <3>2. \A u \in UserIds : IsSessionActive(u) =>
             u \in GetUser(userIdToUsername[u])'
      <4>1. SUFFICES ASSUME NEW u \in UserIds, IsSessionActive(u)
                     PROVE  u \in GetUser(userIdToUsername[u])'
        OBVIOUS
      <4>2. userIdToUsername[u] \in Names /\ u \in GetUser(userIdToUsername[u])
        BY <4>1, <1>0 DEF RegistryAgrees, TypeOK, RegistryTypes
      <4>3. u \in 1 .. Len(users) /\ users[u].username = ColumnText[userIdToUsername[u]]
        BY <4>2 DEF GetUser
      <4>4. PICK name \in Names : name = userIdToUsername[u]
        BY <4>2
      <4>5. u \in GetUser(name)'
        BY <4>2, <4>4, <1>0, <1>2, UsersKept
      <4> QED BY <4>4, <4>5, <2>1 DEF GetUser, registryVars
    <3> QED BY <3>1, <3>2, <2>1
            DEF RegistryAgrees, registryVars, accountVars, historyVars
  <2> QED BY <2>2, <2>3, <2>4, <1>0, <1>2, UsersKept
<1>3. ASSUME NEW s \in Sessions, Login(s) PROVE Rest'
  <2>1. PICK name \in Names : \E user \in GetUser(name) :
           /\ user \in UserIds
           /\ LogIn(s, user, name)
           /\ SendStoredMessages(s, user, Response("login", TRUE))
    BY <1>0, <1>3, LoginUser
  <2>2. PICK user \in GetUser(name) :
           /\ user \in UserIds
           /\ LogIn(s, user, name)
           /\ SendStoredMessages(s, user, Response("login", TRUE))
    BY <2>1
  <2>3. users' = users /\ (UNCHANGED messages \/ DeleteOfflineMessages(user))
    BY <2>2, ReplayTables
  <2>4. ReadHandled(s) /\ phase' = phase /\ unread[s] > 0
    BY <1>0, <1>3, ReadHandledType DEF Login, TypeOK, StreamTypes
  <2>5. FreeSessionsIdle' /\ UsernamesUnique'
    BY <1>0, <2>3, <2>4
       DEF FreeSessionsIdle, UsernamesUnique, ReadHandled, TypeOK, StreamTypes
  <2>6. LoggedInUsersExist'
    BY <1>0, <2>2, <2>3
       DEF LoggedInUsersExist, LogIn, SetAuthenticated, GetUser, TypeOK, SessionTypes
  <2>7. RowsReferToUsers'
    BY <2>3 DEF RowsReferToUsers, DeleteOfflineMessages
  <2>8. RegistryAgrees'
    <3>1. phase[s] # "free"
      BY <2>4 DEF FreeSessionsIdle
    <3>2. /\ activeSessions' = [activeSessions EXCEPT ![user] = s]
          /\ userIdToUsername' = [userIdToUsername EXCEPT ![user] = name]
          /\ authenticated' = [authenticated EXCEPT ![s] = TRUE]
          /\ loggedInAs' = [loggedInAs EXCEPT ![s] = @ \cup {user}]
      BY <2>2 DEF LogIn, AddSession, SetAuthenticated
    <3>3. ASSUME NEW u \in UserIds
          PROVE  /\ IsSessionActive(u)' <=> userIdToUsername'[u] # NoName
                 /\ IsSessionActive(u)' =>
                       /\ u \in GetUser(userIdToUsername[u])'
                       /\ phase'[activeSessions'[u]] # "free"
                       /\ authenticated'[activeSessions'[u]]
                       /\ u \in loggedInAs'[activeSessions'[u]]
      <4>1. CASE u = user
        <5>1. activeSessions'[u] = s /\ userIdToUsername'[u] = name
          BY <4>1, <3>2, <2>2, <1>0 DEF TypeOK, RegistryTypes
        <5>2. IsSessionActive(u)' /\ userIdToUsername'[u] # NoName
          BY <5>1, UserManagerAssumption DEF IsSessionActive
        <5>3. u \in GetUser(userIdToUsername[u])'
          BY <4>1, <5>1, <2>2, <2>3 DEF GetUser
        <5>4. authenticated'[s] /\ u \in loggedInAs'[s]
          BY <3>2, <4>1, <1>0 DEF TypeOK, SessionTypes, HistoryTypes
        <5> QED BY <5>1, <5>2, <5>3, <5>4, <3>1, <2>4
      <4>2. CASE u # user
        <5>1. /\ activeSessions'[u] = activeSessions[u]
              /\ userIdToUsername'[u] = userIdToUsername[u]
          BY <4>2, <3>2, <1>0 DEF TypeOK, RegistryTypes
        <5>2. IsSessionActive(u)' <=> IsSessionActive(u)
          BY <5>1 DEF IsSessionActive
        <5>3. GetUser(userIdToUsername[u])' = GetUser(userIdToUsername[u])
          BY <5>1, <2>3 DEF GetUser
        <5>4. ASSUME IsSessionActive(u)
              PROVE  /\ authenticated'[activeSessions[u]]
                     /\ u \in loggedInAs'[activeSessions[u]]
          <6>1. activeSessions[u] \in Sessions
            BY <5>4, <1>0 DEF IsSessionActive, TypeOK, RegistryTypes
          <6>2. authenticated[activeSessions[u]] /\ u \in loggedInAs[activeSessions[u]]
            BY <5>4 DEF RegistryAgrees
          <6> QED BY <6>1, <6>2, <3>2, <1>0 DEF TypeOK, SessionTypes, HistoryTypes
        <5> QED BY <5>1, <5>2, <5>3, <5>4, <2>4 DEF RegistryAgrees
      <4> QED BY <4>1, <4>2
    <3> QED BY <3>3 DEF RegistryAgrees
  <2> QED BY <2>5, <2>6, <2>7, <2>8
<1>4. ASSUME NEW s \in Sessions, PostOnline(s) \/ PostOffline(s) PROVE Rest'
  <2>1. UNCHANGED <<users, registryVars, accountVars, loggedInAs, phase>>
    BY <1>4 DEF PostOnline, PostOffline, ReadHandled, DeliverOnline, StoreOffline,
                StoreMessage
  <2>2. FreeSessionsIdle'
    BY <1>0, <1>4
       DEF PostOnline, PostOffline, ReadHandled, FreeSessionsIdle, TypeOK, StreamTypes
  <2>3. RowsReferToUsers'
    <3>1. IsSessionAuthenticated(s)
      BY <1>4 DEF PostOnline, PostOffline
    <3> QED BY <3>1, <1>0, <1>4, PostTables, StoredRowRefers
  <2>4. RegistryAgrees'
    BY <2>1 DEF RegistryAgrees, IsSessionActive, GetUser, registryVars, accountVars
  <2> QED BY <2>1, <2>2, <2>3, <2>4 DEF UsernamesUnique, LoggedInUsersExist, accountVars
<1>5. ASSUME NEW s \in Sessions, SessionCloses(s) PROVE Rest'
  <2>1. UNCHANGED <<dbVars, accountVars, historyVars>> /\ phase' = [phase EXCEPT ![s] = "closed"]
    BY <1>5 DEF SessionCloses, Close
  <2>2. \A r \in Sessions : phase'[r] = "free" => phase[r] = "free"
    BY <2>1, <1>0 DEF TypeOK, SessionTypes
  <2>3. \A u \in UserIds :
           \/ activeSessions'[u] = NoSession /\ userIdToUsername'[u] = NoName
           \/ /\ activeSessions'[u] = activeSessions[u]
              /\ userIdToUsername'[u] = userIdToUsername[u]
    BY <1>0, <1>5
       DEF SessionCloses, Close, RemoveSession, registryVars, TypeOK, RegistryTypes
  <2>4. RegistryAgrees'
    <3>1. ASSUME NEW u \in UserIds
          PROVE  /\ IsSessionActive(u)' <=> userIdToUsername'[u] # NoName
                 /\ IsSessionActive(u)' =>
                       /\ u \in GetUser(userIdToUsername[u])'
                       /\ phase'[activeSessions'[u]] # "free"
                       /\ authenticated'[activeSessions'[u]]
                       /\ u \in loggedInAs'[activeSessions'[u]]
      <4>1. CASE activeSessions'[u] = NoSession /\ userIdToUsername'[u] = NoName
        BY <4>1 DEF IsSessionActive
      <4>2. CASE /\ activeSessions'[u] = activeSessions[u]
                 /\ userIdToUsername'[u] = userIdToUsername[u]
        BY <4>2, <2>1, <2>2, <1>0
           DEF RegistryAgrees, IsSessionActive, GetUser, dbVars, accountVars, historyVars,
               TypeOK, RegistryTypes
      <4> QED BY <4>1, <4>2, <2>3
    <3> QED BY <3>1 DEF RegistryAgrees
  <2>5. FreeSessionsIdle'
    BY <1>5, <2>2 DEF FreeSessionsIdle, SessionCloses
  <2> QED BY <2>1, <2>4, <2>5
          DEF UsernamesUnique, LoggedInUsersExist, RowsReferToUsers, dbVars, accountVars
<1>6. ASSUME NEW s \in Sessions, SessionDestroyed(s) PROVE Rest'
  <2>1. /\ UNCHANGED <<dbVars, registryVars, unread, addressee, handed>>
        /\ unread[s] = 0
        /\ \A u \in UserIds : activeSessions[u] # s
    BY <1>6 DEF SessionDestroyed, Destroy
  <2>2. \A r \in Sessions : r # s =>
           /\ phase'[r] = phase[r] /\ authenticated'[r] = authenticated[r]
           /\ userId'[r] = userId[r] /\ loggedInAs'[r] = loggedInAs[r]
    BY <1>6, <1>0 DEF SessionDestroyed, Destroy, TypeOK, SessionTypes, HistoryTypes
  <2>3. authenticated'[s] = FALSE
    BY <1>6, <1>0 DEF SessionDestroyed, Destroy, TypeOK, SessionTypes
  <2>4. FreeSessionsIdle' /\ LoggedInUsersExist'
    BY <2>1, <2>2, <2>3 DEF FreeSessionsIdle, LoggedInUsersExist, dbVars
  <2>5. RegistryAgrees'
    BY <2>1, <2>2, <1>0
       DEF RegistryAgrees, IsSessionActive, GetUser, dbVars, registryVars, TypeOK,
           RegistryTypes
  <2> QED BY <2>1, <2>4, <2>5 DEF UsernamesUnique, RowsReferToUsers, dbVars
<1>7. ASSUME Stopped PROVE Rest'
  <2>1. FreeSessionsIdle' /\ LoggedInUsersExist' /\ RegistryAgrees'
    BY <1>7
       DEF Stopped, VolatileLost, FreeSessionsIdle, LoggedInUsersExist, RegistryAgrees,
           IsSessionActive, EmptyRegistry, NoUsernames
  <2>2. users' = users
    BY <1>7 DEF Stopped, Restart, StopInPost, StopInReplay, StoreMessage, dbVars
  <2>3. RowsReferToUsers'
    <3>1. CASE Restart \/ StopInReplay
      BY <3>1 DEF Restart, StopInReplay, dbVars, RowsReferToUsers
    <3>2. CASE StopInPost
      <4>1. PICK s \in Sessions, name \in Names :
               /\ IsSessionAuthenticated(s)
               /\ \E user \in GetUser(name) :
                     StoreMessage(userId[s], user, activeSessions[user] # NoSession)
        BY <3>2 DEF StopInPost
      <4> QED BY <4>1, <1>0, StoredRowRefers
    <3> QED BY <1>7, <3>1, <3>2 DEF Stopped
  <2> QED BY <2>1, <2>2, <2>3 DEF UsernamesUnique
<1>8. ASSUME Quiet PROVE Rest'
  <2>1. RegistryAgrees'
    BY <1>8
       DEF Quiet, RegistryAgrees, IsSessionActive, GetUser, dbVars, registryVars,
           accountVars, historyVars
  <2> QED BY <1>8, <2>1
          DEF Quiet, FreeSessionsIdle, UsernamesUnique, LoggedInUsersExist,
              RowsReferToUsers, dbVars, accountVars
<1>9. Rest'
  <2> HIDE DEF Rest, RegistryInv
  <2> QED BY <1>0, <1>1, <1>2, <1>3, <1>4, <1>5, <1>6, <1>7, <1>8, StepCases
<1> QED
  BY <1>0, <1>9

\* The two maps of the registry agree at all times, whatever fails and however
\* often a session logs in.
THEOREM RegistryConsistent == Spec => []RegistryAgrees
<1>1. RegistryInv => RegistryAgrees
  BY DEF RegistryInv
<1> QED
  BY <1>1, RegistryInit, RegistryStep, PTL DEF Spec

\* A typing notice to a name is sent to the session a message to that name is
\* sent to.
THEOREM TypingRouted == Spec => []TypingFollowsMessages
<1>1. RegistryInv => TypingFollowsMessages
  <2> SUFFICES ASSUME RegistryInv, NEW name \in Names
               PROVE  /\ SessionByUsername(name) \subseteq
                            {activeSessions[u] : u \in GetUser(name)}
                      /\ \A u, v \in UserIds :
                            userIdToUsername[u] = name /\ userIdToUsername[v] = name
                            => u = v
    BY DEF TypingFollowsMessages
  <2>1. ASSUME NEW u \in UserIds, userIdToUsername[u] = name
        PROVE  /\ u \in GetUser(name)
               /\ u \in 1 .. Len(users)
               /\ users[u].username = ColumnText[name]
    <3>1. u \in GetUser(userIdToUsername[u])
      BY <2>1, UserManagerAssumption DEF RegistryInv, RegistryAgrees
    <3> QED BY <2>1, <3>1 DEF GetUser
  <2> QED BY <2>1 DEF SessionByUsername, RegistryInv, UsernamesUnique
<1> QED
  BY <1>1, RegistryInit, RegistryStep, PTL DEF Spec

\* The references of the message rows hold without FOREIGN KEY enforcement.
THEOREM ReferencesHold == Spec => []RowsReferToUsers
<1>1. RegistryInv => RowsReferToUsers
  BY DEF RegistryInv
<1> QED
  BY <1>1, RegistryInit, RegistryStep, PTL DEF Spec

-----------------------------------------------------------------------------
(* What steps do to messages: store one, replay some, or nothing.           *)

\* One row is inserted for user.
StoresRow(user, is_delivered) ==
    /\ NextMessageId \in MessageIds
    /\ \E row \in MessageRow :
          /\ row.receiver = user /\ row.is_delivered = is_delivered
          /\ messages' = [messages EXCEPT ![NextMessageId] = row]
    /\ lastMessageId' = NextMessageId
    /\ addressee' = [addressee EXCEPT ![NextMessageId] = user]

StoresOnline(user) ==
    /\ IsSessionActive(user)
    /\ StoresRow(user, TRUE)
    /\ HandedOver({NextMessageId})
    /\ UNCHANGED activeSessions

StoresOffline(user) ==
    /\ ~IsSessionActive(user)
    /\ StoresRow(user, FALSE)
    /\ UNCHANGED <<handed, activeSessions>>

StopsAfterStore(user) ==
    /\ "midstop" \in Faults
    /\ StoresRow(user, IsSessionActive(user))
    /\ UNCHANGED handed
    /\ activeSessions' = EmptyRegistry

\* The rows of scan are passed to the session of user, and all of its
\* undelivered rows are deleted.
Replays(user, scan) ==
    /\ scan \subseteq OfflineMessages(user)
    /\ "scan" \notin Faults => scan = OfflineMessages(user)
    /\ HandedOver(scan)
    /\ \/ DeleteOfflineMessages(user)
       \/ scan = {} /\ UNCHANGED messages
       \/ "delete" \in Faults /\ UNCHANGED messages
    /\ UNCHANGED <<lastMessageId, addressee>>
    /\ \E s \in Sessions : activeSessions' = [activeSessions EXCEPT ![user] = s]

StopsAfterReplay(user, scan) ==
    /\ "midstop" \in Faults
    /\ scan \subseteq OfflineMessages(user)
    /\ HandedOver(scan)
    /\ UNCHANGED <<messages, lastMessageId, addressee>>
    /\ activeSessions' = EmptyRegistry

\* No message is touched, and nobody becomes online.
MessagesKept ==
    /\ UNCHANGED <<messages, lastMessageId, addressee, handed>>
    /\ \/ activeSessions' = activeSessions
       \/ \E leaving \in SUBSET UserIds :
             activeSessions' = [u \in UserIds |-> IF u \in leaving THEN NoSession
                                                  ELSE activeSessions[u]]

LEMMA StoreEffect ==
    ASSUME TypeOK, NEW s \in Sessions, IsSessionAuthenticated(s),
           NEW user \in UserIds, NEW d \in BOOLEAN,
           StoreMessage(userId[s], user, d), Stored(user)
    PROVE  StoresRow(user, d)
<1> DEFINE row == [sender |-> userId[s], receiver |-> user, is_delivered |-> d]
<1>1. row \in MessageRow
  BY SenderType DEF MessageRow
<1>2. NextMessageId \in MessageIds
  BY SenderType, StoreMessageType DEF TypeOK
<1> QED
  BY <1>1, <1>2 DEF StoresRow, StoreMessage, Stored

LEMMA MessageEffects ==
    ASSUME TypeOK, [Next]_vars
    PROVE  \/ \E user \in UserIds : \/ StoresOnline(user)
                                    \/ StoresOffline(user)
                                    \/ StopsAfterStore(user)
           \/ \E user \in UserIds, scan \in SUBSET MessageIds :
                 Replays(user, scan) \/ StopsAfterReplay(user, scan)
           \/ MessagesKept
<1>1. ASSUME NEW s \in Sessions, Accept(s) \/ Register(s) \/ SessionDestroyed(s)
      PROVE  MessagesKept
  BY <1>1 DEF Accept, Register, SessionDestroyed, Construct, RegisterUser, AddUser,
              Destroy, MessagesKept, dbVars, registryVars, historyVars
<1>2. ASSUME NEW s \in Sessions, PostOnline(s)
      PROVE  \E user \in UserIds : StoresOnline(user)
  <2>1. PICK name \in Names, user \in UserIds : DeliverOnline(s, user, MessageSent)
    BY <1>2, GetUserType DEF PostOnline, TypeOK
  <2>2. IsSessionAuthenticated(s)
    BY <1>2 DEF PostOnline
  <2>3. StoresRow(user, TRUE)
    BY <2>1, <2>2, StoreEffect DEF DeliverOnline
  <2> QED BY <1>2, <2>1, <2>3
          DEF DeliverOnline, StoresOnline, IsSessionActive, PostOnline, registryVars
<1>3. ASSUME NEW s \in Sessions, PostOffline(s)
      PROVE  \E user \in UserIds : StoresOffline(user)
  <2>1. PICK name \in Names, user \in UserIds : StoreOffline(s, user, MessageSent)
    BY <1>3, GetUserType DEF PostOffline, TypeOK
  <2>2. IsSessionAuthenticated(s)
    BY <1>3 DEF PostOffline
  <2>3. StoresRow(user, FALSE)
    BY <2>1, <2>2, StoreEffect DEF StoreOffline
  <2> QED BY <1>3, <2>1, <2>3
          DEF StoreOffline, StoresOffline, IsSessionActive, PostOffline, registryVars
<1>4. ASSUME NEW s \in Sessions, Login(s)
      PROVE  \E user \in UserIds, scan \in SUBSET MessageIds : Replays(user, scan)
  <2>1. PICK name \in Names, user \in UserIds :
           /\ LogIn(s, user, name)
           /\ SendStoredMessages(s, user, Response("login", TRUE))
    BY <1>4, LoginUser
  <2>2. PICK scan \in OfflineScans(user) :
           /\ HandedOver(scan)
           /\ \/ scan # {} /\ DeleteOfflineMessages(user)
              \/ scan = {} /\ UNCHANGED dbVars
              \/ "delete" \in Faults /\ UNCHANGED dbVars
    BY <2>1 DEF SendStoredMessages
  <2>3. scan \in SUBSET MessageIds /\ scan \subseteq OfflineMessages(user)
    BY ScanType
  <2>4. "scan" \notin Faults => scan = OfflineMessages(user)
    BY <2>2 DEF OfflineScans
  <2> QED BY <1>4, <2>1, <2>2, <2>3, <2>4
          DEF Replays, Login, LogIn, AddSession, DeleteOfflineMessages, dbVars
<1>5. ASSUME NEW s \in Sessions, SessionCloses(s) PROVE MessagesKept
  <2>1. UNCHANGED <<messages, lastMessageId, addressee, handed>>
    BY <1>5 DEF SessionCloses, Close, dbVars, historyVars
  <2>2. CASE UNCHANGED registryVars
    BY <2>1, <2>2 DEF MessagesKept, registryVars
  <2>3. CASE userId[s] \in UserIds /\ RemoveSession(userId[s])
    <3>1. activeSessions' = [u \in UserIds |-> IF u \in {userId[s]} THEN NoSession
                                               ELSE activeSessions[u]]
          \/ activeSessions' = activeSessions
      BY <2>3 DEF TypeOK, RegistryTypes, RemoveSession, registryVars
    <3>2. {userId[s]} \in SUBSET UserIds
      BY <2>3
    <3> QED BY <2>1, <3>1, <3>2 DEF MessagesKept
  <2> QED BY <1>5, <2>2, <2>3
          DEF SessionCloses, Close, RemoveSession, IsSessionActive
<1>6. ASSUME Restart PROVE MessagesKept
  <2>1. activeSessions' = [u \in UserIds |-> IF u \in UserIds THEN NoSession
                                             ELSE activeSessions[u]]
    BY <1>6 DEF Restart, VolatileLost, EmptyRegistry
  <2> QED BY <1>6, <2>1 DEF Restart, MessagesKept, dbVars
<1>7. ASSUME StopInPost PROVE \E user \in UserIds : StopsAfterStore(user)
  <2>1. PICK s \in Sessions, name \in Names :
           /\ IsSessionAuthenticated(s)
           /\ \E user \in GetUser(name) :
                 /\ StoreMessage(userId[s], user, activeSessions[user] # NoSession)
                 /\ Stored(user)
    BY <1>7 DEF StopInPost
  <2>2. PICK user \in GetUser(name) :
           /\ StoreMessage(userId[s], user, activeSessions[user] # NoSession)
           /\ Stored(user)
    BY <2>1
  <2>3. user \in UserIds
    BY GetUserType DEF TypeOK
  <2>4. IsSessionActive(user) = (activeSessions[user] # NoSession)
    BY <2>3 DEF IsSessionActive
  <2>5. StoresRow(user, IsSessionActive(user))
    BY <2>1, <2>2, <2>3, <2>4, StoreEffect
  <2> QED BY <1>7, <2>3, <2>5 DEF StopInPost, StopsAfterStore, VolatileLost
<1>8. ASSUME StopInReplay
      PROVE  \E user \in UserIds, scan \in SUBSET MessageIds : StopsAfterReplay(user, scan)
  <2>1. PICK user \in UserIds : \E scan \in OfflinePrefixes(user) : HandedOver(scan)
    BY <1>8, GetUserType DEF StopInReplay, TypeOK, Authenticated
  <2>2. PICK scan \in OfflinePrefixes(user) : HandedOver(scan)
    BY <2>1
  <2>3. scan \in SUBSET MessageIds /\ scan \subseteq OfflineMessages(user)
    BY DEF OfflineMessages, OfflinePrefixes
  <2> QED BY <1>8, <2>2, <2>3 DEF StopInReplay, StopsAfterReplay, VolatileLost, dbVars
<1>9. ASSUME Quiet PROVE MessagesKept
  BY <1>9 DEF Quiet, MessagesKept, dbVars, registryVars, historyVars
<1> QED
  BY <1>1, <1>2, <1>3, <1>4, <1>5, <1>6, <1>7, <1>8, <1>9, StepCases DEF Stopped

-----------------------------------------------------------------------------
(* Ids: AUTOINCREMENT gives out the next one, and a row keeps its receiver.  *)

IdsInv ==
    \A m \in MessageIds :
       /\ m > lastMessageId => messages[m] = NoRow /\ addressee[m] = 0 /\ handed[m] = 0
       /\ m <= lastMessageId => addressee[m] \in UserIds
       /\ messages[m] # NoRow => messages[m].receiver = addressee[m]

\* An insertion adds one row to the undelivered ones of user, or none.
LEMMA StoreWaiting ==
    ASSUME TypeOK, NEW user \in UserIds, NEW d \in BOOLEAN, StoresRow(user, d)
    PROVE  /\ NextMessageId \in MessageIds /\ NextMessageId > lastMessageId
           /\ addressee'[NextMessageId] = user
           /\ d = FALSE => NextMessageId \in OfflineMessages(user)'
           /\ \A m \in MessageIds : m # NextMessageId =>
                 /\ messages'[m] = messages[m] /\ addressee'[m] = addressee[m]
                 /\ \A u \in UserIds : m \in OfflineMessages(u)' <=> m \in OfflineMessages(u)
           /\ \A u \in UserIds : NextMessageId \in OfflineMessages(u)' => d = FALSE /\ u = user
<1>1. PICK row \in MessageRow :
         /\ row.receiver = user /\ row.is_delivered = d
         /\ messages' = [messages EXCEPT ![NextMessageId] = row]
  BY DEF StoresRow
<1>2. NextMessageId \in MessageIds /\ NextMessageId > lastMessageId
  BY DEF StoresRow, NextMessageId, TypeOK, DatabaseTypes
<1>3. messages'[NextMessageId] = row /\ row # NoRow
  BY <1>1, <1>2, DatabaseAssumption DEF TypeOK, DatabaseTypes
<1>4. ASSUME NEW m \in MessageIds, m # NextMessageId
      PROVE  messages'[m] = messages[m] /\ addressee'[m] = addressee[m]
  BY <1>1, <1>4 DEF TypeOK, DatabaseTypes, HistoryTypes, StoresRow
<1>5. addressee'[NextMessageId] = user
  BY <1>2 DEF TypeOK, HistoryTypes, StoresRow
<1> QED
  BY <1>1, <1>2, <1>3, <1>4, <1>5 DEF OfflineMessages

\* The DELETE empties the undelivered rows of user and leaves the others.
LEMMA DeleteWaiting ==
    ASSUME TypeOK, NEW user \in UserIds, DeleteOfflineMessages(user)
    PROVE  /\ OfflineMessages(user)' = {}
           /\ \A m \in MessageIds :
                 /\ messages'[m] \in {messages[m], NoRow}
                 /\ m \notin OfflineMessages(user) => messages'[m] = messages[m]
           /\ \A u \in UserIds : u # user => OfflineMessages(u)' = OfflineMessages(u)
<1>1. \A m \in MessageIds :
         messages'[m] = IF m \in OfflineMessages(user) THEN NoRow ELSE messages[m]
  BY DEF DeleteOfflineMessages
<1> QED
  BY <1>1 DEF OfflineMessages

\* What a step hands over, and how often.
LEMMA HandedEffect ==
    ASSUME TypeOK, NEW ids \in SUBSET MessageIds, HandedOver(ids)
    PROVE  \A m \in MessageIds :
              /\ m \in ids => /\ handed'[m] > 0
                              /\ handed[m] = 0 => handed'[m] = 1
              /\ m \notin ids => handed'[m] = handed[m]
              /\ handed[m] > 0 => handed'[m] > 0
BY DEF HandedOver, Once, TypeOK, HistoryTypes

LEMMA IdsStep == TypeOK /\ IdsInv /\ [Next]_vars => IdsInv'
<1> SUFFICES ASSUME TypeOK, IdsInv, [Next]_vars PROVE IdsInv'
  OBVIOUS
<1>0. TypeOK'
  BY TypeStep
<1>1. ASSUME NEW user \in UserIds, NEW d \in BOOLEAN, StoresRow(user, d),
             UNCHANGED handed \/ HandedOver({NextMessageId})
      PROVE  IdsInv'
  <2>1. /\ NextMessageId \in MessageIds /\ NextMessageId > lastMessageId
        /\ addressee'[NextMessageId] = user
        /\ \A m \in MessageIds : m # NextMessageId =>
              messages'[m] = messages[m] /\ addressee'[m] = addressee[m]
    BY <1>1, StoreWaiting
  <2>2. lastMessageId' = lastMessageId + 1 /\ NextMessageId = lastMessageId + 1
    BY <1>1 DEF StoresRow, NextMessageId
  <2>3. \A m \in MessageIds : m # NextMessageId => handed'[m] = handed[m]
    BY <1>1, <2>1, HandedEffect
  <2>4. messages'[NextMessageId].receiver = user
    BY <1>1, <2>1 DEF StoresRow, TypeOK, DatabaseTypes
  <2>5. lastMessageId \in Nat
    BY DEF TypeOK, DatabaseTypes
  <2>6. \A m \in MessageIds : m # NextMessageId =>
           /\ m > lastMessageId + 1 => m > lastMessageId
           /\ m <= lastMessageId + 1 => m <= lastMessageId
    BY <2>2, <2>5 DEF MessageIds
  <2>7. SUFFICES ASSUME NEW m \in MessageIds
                 PROVE  /\ m > lastMessageId' =>
                              messages'[m] = NoRow /\ addressee'[m] = 0 /\ handed'[m] = 0
                        /\ m <= lastMessageId' => addressee'[m] \in UserIds
                        /\ messages'[m] # NoRow => messages'[m].receiver = addressee'[m]
    BY DEF IdsInv
  <2>8. CASE m = NextMessageId
    <3>1. ~(m > lastMessageId')
      BY <2>2, <2>5, <2>8
    <3> QED BY <3>1, <2>1, <2>4, <2>8
  <2>9. CASE m # NextMessageId
    <3>1. /\ messages'[m] = messages[m] /\ addressee'[m] = addressee[m]
          /\ handed'[m] = handed[m]
      BY <2>1, <2>3, <2>9
    <3>2. /\ m > lastMessageId => messages[m] = NoRow /\ addressee[m] = 0 /\ handed[m] = 0
          /\ m <= lastMessageId => addressee[m] \in UserIds
          /\ messages[m] # NoRow => messages[m].receiver = addressee[m]
      BY DEF IdsInv
    <3>3. /\ m > lastMessageId' => m > lastMessageId
          /\ m <= lastMessageId' => m <= lastMessageId
      BY <2>2, <2>6, <2>9
    <3> QED BY <3>1, <3>2, <3>3
  <2> QED BY <2>8, <2>9
<1>2. ASSUME NEW user \in UserIds, NEW scan \in SUBSET MessageIds,
             Replays(user, scan) \/ StopsAfterReplay(user, scan)
      PROVE  IdsInv'
  <2>1. \A m \in MessageIds : messages'[m] \in {messages[m], NoRow}
    BY <1>2, DeleteWaiting DEF Replays, StopsAfterReplay
  <2>2. UNCHANGED <<lastMessageId, addressee>> /\ HandedOver(scan)
    BY <1>2 DEF Replays, StopsAfterReplay
  <2>3. \A m \in scan : messages[m] # NoRow
    BY <1>2 DEF Replays, StopsAfterReplay, OfflineMessages
  <2> QED BY <2>1, <2>2, <2>3, HandedEffect DEF IdsInv
<1>3. ASSUME MessagesKept PROVE IdsInv'
  BY <1>3 DEF MessagesKept, IdsInv
<1> QED
  BY <1>1, <1>2, <1>3, MessageEffects
     DEF StoresOnline, StoresOffline, StopsAfterStore, IsSessionActive

LEMMA IdsInit == Init => IdsInv
BY DEF Init, DatabaseInit, RouterInit, IdsInv, MessageIds

-----------------------------------------------------------------------------
(* Stored messages are not lost and not overtaken, while the SELECT of a    *)
(* replay returns every row and no handler is cut off.                      *)

ScansComplete == "scan" \notin Faults /\ "midstop" \notin Faults

\* Stronger than StoredMessagesAccounted alone: what is still in the table for
\* an online user (after a failed DELETE) has been handed over.
OnlineUsersServed ==
    \A u \in UserIds : IsSessionActive(u) =>
       \A m \in OfflineMessages(u) : handed[m] > 0

AccountInv ==
    /\ TypeOK
    /\ IdsInv
    /\ StoredMessagesAccounted
    /\ OnlineUsersServed
    /\ HandedInOrder

LEMMA AccountInit == Init => AccountInv
<1> SUFFICES ASSUME Init PROVE AccountInv
  OBVIOUS
<1>1. StoredMessagesAccounted /\ OnlineUsersServed /\ HandedInOrder
  BY DEF Init, RouterInit, UserManagerInit, EmptyRegistry, IsSessionActive,
         StoredMessagesAccounted, OnlineUsersServed, HandedInOrder
<1> QED
  BY <1>1, TypeInit, IdsInit DEF AccountInv

LEMMA AccountStep ==
    ASSUME ScansComplete
    PROVE  AccountInv /\ [Next]_vars => AccountInv'
<1> SUFFICES ASSUME AccountInv, [Next]_vars PROVE AccountInv'
  OBVIOUS
<1> USE DEF AccountInv, ScansComplete
<1>0. TypeOK' /\ IdsInv'
  BY TypeStep, IdsStep
<1> DEFINE Served == StoredMessagesAccounted /\ OnlineUsersServed /\ HandedInOrder
<1>1. ASSUME NEW user \in UserIds, StoresOnline(user) PROVE Served'
  <2>1. /\ NextMessageId \in MessageIds /\ NextMessageId > lastMessageId
        /\ addressee'[NextMessageId] = user
        /\ \A m \in MessageIds : m # NextMessageId =>
              /\ addressee'[m] = addressee[m]
              /\ \A u \in UserIds : m \in OfflineMessages(u)' <=> m \in OfflineMessages(u)
        /\ \A u \in UserIds : NextMessageId \notin OfflineMessages(u)'
    BY <1>1, StoreWaiting DEF StoresOnline
  <2>2. /\ handed'[NextMessageId] > 0
        /\ \A m \in MessageIds : m # NextMessageId => handed'[m] = handed[m]
    BY <1>1, <2>1, HandedEffect DEF StoresOnline
  <2>3. StoredMessagesAccounted'
    <3>1. \A m \in MessageIds : addressee[m] # 0 => addressee[m] \in UserIds
      BY DEF TypeOK, HistoryTypes
    <3>2. ASSUME NEW m \in MessageIds, addressee'[m] # 0, handed'[m] = 0
          PROVE  m \in OfflineMessages(addressee[m])'
      <4>1. m # NextMessageId /\ addressee'[m] = addressee[m] /\ handed[m] = 0
        BY <3>2, <2>1, <2>2
      <4>2. PICK u \in UserIds : u = addressee[m]
        BY <4>1, <3>1, <3>2
      <4>3. m \in OfflineMessages(u)'
        BY <4>1, <4>2, <2>1, <3>2 DEF StoredMessagesAccounted
      <4> QED BY <4>1, <4>2, <4>3 DEF OfflineMessages
    <3> QED BY <3>2 DEF StoredMessagesAccounted
  <2>4. OnlineUsersServed'
    BY <1>1, <2>1, <2>2
       DEF OnlineUsersServed, StoresOnline, IsSessionActive, OfflineMessages
  <2>5. HandedInOrder'
    <3>1. ASSUME NEW m \in MessageIds, addressee[m] = user PROVE handed[m] > 0
      BY <1>1, <3>1
         DEF StoresOnline, StoredMessagesAccounted, OnlineUsersServed, TypeOK, HistoryTypes,
             UserIds
    <3>2. ASSUME NEW m \in MessageIds, NEW n \in MessageIds, m < n, addressee'[m] # 0,
                 addressee'[m] = addressee'[n], handed'[n] > 0
          PROVE  handed'[m] > 0
      <4>1. CASE m = NextMessageId
        BY <4>1, <2>2
      <4>2. CASE m # NextMessageId /\ n = NextMessageId
        BY <4>2, <3>1, <3>2, <2>1, <2>2
      <4>3. CASE m # NextMessageId /\ n # NextMessageId
        BY <4>3, <3>2, <2>1, <2>2 DEF HandedInOrder
      <4> QED BY <4>1, <4>2, <4>3
    <3> QED BY <3>2 DEF HandedInOrder
  <2> QED BY <2>3, <2>4, <2>5
<1>2. ASSUME NEW user \in UserIds, StoresOffline(user) PROVE Served'
  <2>1. /\ NextMessageId \in MessageIds /\ NextMessageId > lastMessageId
        /\ addressee'[NextMessageId] = user
        /\ NextMessageId \in OfflineMessages(user)'
        /\ \A m \in MessageIds : m # NextMessageId =>
              /\ addressee'[m] = addressee[m]
              /\ \A u \in UserIds : m \in OfflineMessages(u)' <=> m \in OfflineMessages(u)
        /\ \A u \in UserIds : NextMessageId \in OfflineMessages(u)' => u = user
    BY <1>2, StoreWaiting DEF StoresOffline
  <2>2. handed' = handed /\ handed[NextMessageId] = 0
    BY <1>2, <2>1 DEF StoresOffline, IdsInv
  <2>3. StoredMessagesAccounted'
    <3>1. ASSUME NEW m \in MessageIds, addressee'[m] # 0, handed'[m] = 0
          PROVE  m \in OfflineMessages(addressee[m])'
      <4>1. CASE m = NextMessageId
        BY <4>1, <2>1 DEF OfflineMessages
      <4>2. CASE m # NextMessageId
        <5>1. PICK u \in UserIds : u = addressee[m]
          BY <4>2, <2>1, <3>1 DEF TypeOK, HistoryTypes
        <5>2. m \in OfflineMessages(u)'
          BY <4>2, <5>1, <2>1, <2>2, <3>1 DEF StoredMessagesAccounted
        <5> QED BY <4>2, <5>1, <5>2, <2>1 DEF OfflineMessages
      <4> QED BY <4>1, <4>2
    <3> QED BY <3>1 DEF StoredMessagesAccounted
  <2>4. OnlineUsersServed'
    BY <1>2, <2>1, <2>2
       DEF OnlineUsersServed, StoresOffline, IsSessionActive, OfflineMessages
  <2>5. HandedInOrder'
    <3>1. ASSUME NEW m \in MessageIds, NEW n \in MessageIds, m < n, addressee'[m] # 0,
                 addressee'[m] = addressee'[n], handed'[n] > 0
          PROVE  handed'[m] > 0
      <4>1. n # NextMessageId
        BY <3>1, <2>2
      <4>2. m # NextMessageId
        <5>1. n <= lastMessageId
          BY <3>1, <2>2 DEF IdsInv, MessageIds, TypeOK, DatabaseTypes
        <5> QED BY <5>1, <3>1, <2>1 DEF MessageIds, TypeOK, DatabaseTypes
      <4> QED BY <4>1, <4>2, <3>1, <2>1, <2>2 DEF HandedInOrder
    <3> QED BY <3>1 DEF HandedInOrder
  <2> QED BY <2>3, <2>4, <2>5
<1>3. ASSUME NEW user \in UserIds, NEW scan \in SUBSET MessageIds, Replays(user, scan)
      PROVE  Served'
  <2>1. scan = OfflineMessages(user) /\ addressee' = addressee
    BY <1>3 DEF Replays
  <2>2. \A m \in MessageIds :
           /\ m \in scan => handed'[m] > 0
           /\ m \notin scan => handed'[m] = handed[m]
           /\ handed[m] > 0 => handed'[m] > 0
    BY <1>3, HandedEffect DEF Replays
  <2>3. /\ OfflineMessages(user)' \subseteq scan
        /\ \A u \in UserIds : u # user => OfflineMessages(u)' = OfflineMessages(u)
    BY <1>3, <2>1, DeleteWaiting DEF Replays, OfflineMessages
  <2>4. StoredMessagesAccounted'
    <3>1. ASSUME NEW m \in MessageIds, addressee'[m] # 0, handed'[m] = 0
          PROVE  m \in OfflineMessages(addressee[m])'
      <4>1. handed[m] = 0 /\ m \notin scan
        BY <3>1, <2>2
      <4>2. PICK u \in UserIds : u = addressee[m]
        BY <3>1, <2>1 DEF TypeOK, HistoryTypes
      <4>3. m \in OfflineMessages(u)'
        BY <4>1, <4>2, <3>1, <2>1, <2>3 DEF StoredMessagesAccounted
      <4> QED BY <4>2, <4>3, <2>1 DEF OfflineMessages
    <3> QED BY <3>1 DEF StoredMessagesAccounted
  <2>5. OnlineUsersServed'
    <3>1. ASSUME NEW u \in UserIds, IsSessionActive(u)', NEW m \in OfflineMessages(u)'
          PROVE  handed'[m] > 0
      <4>1. m \in MessageIds
        BY <3>1 DEF OfflineMessages
      <4>2. CASE u = user
        BY <4>1, <4>2, <3>1, <2>2, <2>3
      <4>3. CASE u # user
        <5>1. IsSessionActive(u)
          BY <4>3, <3>1, <1>3 DEF Replays, IsSessionActive, TypeOK, RegistryTypes
        <5> QED BY <4>1, <4>3, <5>1, <3>1, <2>2, <2>3 DEF OnlineUsersServed
      <4> QED BY <4>2, <4>3
    <3> QED BY <3>1 DEF OnlineUsersServed
  <2>6. HandedInOrder'
    <3>1. ASSUME NEW m \in MessageIds, NEW n \in MessageIds, m < n, addressee'[m] # 0,
                 addressee'[m] = addressee'[n], handed'[n] > 0
          PROVE  handed'[m] > 0
      <4>1. CASE n \in scan
        <5>1. addressee[m] = user
          BY <4>1, <3>1, <2>1 DEF OfflineMessages, IdsInv
        <5>2. handed[m] = 0 => m \in scan
          BY <5>1, <3>1, <2>1 DEF StoredMessagesAccounted
        <5> QED BY <5>2, <2>2 DEF TypeOK, HistoryTypes
      <4>2. CASE n \notin scan
        BY <4>2, <3>1, <2>1, <2>2 DEF HandedInOrder
      <4> QED BY <4>1, <4>2
    <3> QED BY <3>1 DEF HandedInOrder
  <2> QED BY <2>4, <2>5, <2>6
<1>4. ASSUME MessagesKept PROVE Served'
  <2>1. UNCHANGED <<messages, addressee, handed>>
    BY <1>4 DEF MessagesKept
  <2>2. \A u \in UserIds : IsSessionActive(u)' => IsSessionActive(u)
    BY <1>4 DEF MessagesKept, IsSessionActive
  <2> QED BY <2>1, <2>2
          DEF StoredMessagesAccounted, OnlineUsersServed, HandedInOrder, OfflineMessages
<1> QED
  BY <1>0, <1>1, <1>2, <1>3, <1>4, MessageEffects DEF StopsAfterStore, StopsAfterReplay

\* A stored message that was not handed over is in the table, although
\* connections are lost, the process ends between handlers, a DELETE fails or an
\* INSERT does.
THEOREM NothingLost ==
    ASSUME ScansComplete
    PROVE  Spec => []StoredMessagesAccounted
<1>1. AccountInv => StoredMessagesAccounted
  BY DEF AccountInv
<1>2. AccountInv /\ [Next]_vars => AccountInv'
  BY AccountStep
<1> QED
  BY <1>1, <1>2, AccountInit, PTL DEF Spec

\* No message is overtaken by a later one for the same user.
THEOREM NothingOvertaken ==
    ASSUME ScansComplete
    PROVE  Spec => []HandedInOrder
<1>1. AccountInv => HandedInOrder
  BY DEF AccountInv
<1>2. AccountInv /\ [Next]_vars => AccountInv'
  BY AccountStep
<1> QED
  BY <1>1, <1>2, AccountInit, PTL DEF Spec

-----------------------------------------------------------------------------
(* While a replay deletes what it has sent.                                 *)

ReplaysDelete == "scan" \notin Faults /\ "delete" \notin Faults

MailboxInv == TypeOK /\ IdsInv /\ NothingWaitsForOnlineUser

LEMMA ReplayEmpties ==
    ASSUME ReplaysDelete, TypeOK, NEW user \in UserIds, NEW scan \in SUBSET MessageIds,
           Replays(user, scan)
    PROVE  /\ OfflineMessages(user)' = {}
           /\ \A u \in UserIds : u # user => OfflineMessages(u)' = OfflineMessages(u)
<1>1. scan = OfflineMessages(user)
  BY DEF Replays, ReplaysDelete
<1>2. DeleteOfflineMessages(user) \/ (scan = {} /\ UNCHANGED messages)
  BY DEF Replays, ReplaysDelete
<1> QED
  BY <1>1, <1>2, DeleteWaiting DEF OfflineMessages

LEMMA OfflineAreIds ==
    \A u \in UserIds : /\ OfflineMessages(u) \subseteq MessageIds
                       /\ OfflineMessages(u)' \subseteq MessageIds
BY DEF OfflineMessages

LEMMA MailboxStep ==
    ASSUME ReplaysDelete
    PROVE  MailboxInv /\ [Next]_vars => MailboxInv'
<1> SUFFICES ASSUME MailboxInv, [Next]_vars PROVE MailboxInv'
  OBVIOUS
<1> USE DEF MailboxInv
<1>0. TypeOK' /\ IdsInv'
  BY TypeStep, IdsStep
<1>1. ASSUME NEW user \in UserIds, StoresOnline(user)
      PROVE  NothingWaitsForOnlineUser'
  BY <1>1, OfflineAreIds, StoreWaiting
     DEF StoresOnline, IsSessionActive, NothingWaitsForOnlineUser
<1>2. ASSUME NEW user \in UserIds, StoresOffline(user)
      PROVE  NothingWaitsForOnlineUser'
  <2>1. ASSUME NEW u \in UserIds, IsSessionActive(u)', NEW m \in OfflineMessages(u)'
        PROVE  FALSE
    <3>1. IsSessionActive(u) /\ u # user
      BY <1>2, <2>1 DEF StoresOffline, IsSessionActive
    <3>2. m \in MessageIds /\ m # NextMessageId
      BY <1>2, <2>1, <3>1, OfflineAreIds, StoreWaiting DEF StoresOffline
    <3>3. m \in OfflineMessages(u)
      BY <1>2, <2>1, <3>2, StoreWaiting DEF StoresOffline
    <3> QED BY <3>1, <3>3 DEF NothingWaitsForOnlineUser
  <2> QED BY <2>1 DEF NothingWaitsForOnlineUser
<1>3. ASSUME NEW user \in UserIds, NEW scan \in SUBSET MessageIds, Replays(user, scan)
      PROVE  NothingWaitsForOnlineUser'
  <2>1. \A u \in UserIds : u # user => (IsSessionActive(u)' <=> IsSessionActive(u))
    BY <1>3 DEF Replays, IsSessionActive, TypeOK, RegistryTypes
  <2> QED BY <1>3, <2>1, ReplayEmpties DEF NothingWaitsForOnlineUser
<1>4. ASSUME activeSessions' = EmptyRegistry PROVE NothingWaitsForOnlineUser'
  BY <1>4 DEF EmptyRegistry, IsSessionActive, NothingWaitsForOnlineUser
<1>5. ASSUME MessagesKept PROVE NothingWaitsForOnlineUser'
  <2>1. \A u \in UserIds : IsSessionActive(u)' => IsSessionActive(u)
    BY <1>5 DEF MessagesKept, IsSessionActive
  <2> QED BY <1>5, <2>1 DEF MessagesKept, NothingWaitsForOnlineUser, OfflineMessages
<1> QED
  BY <1>0, <1>1, <1>2, <1>3, <1>4, <1>5, MessageEffects
     DEF StopsAfterStore, StopsAfterReplay

LEMMA MailboxInit == Init => MailboxInv
<1>1. Init => NothingWaitsForOnlineUser
  BY DEF Init, UserManagerInit, EmptyRegistry, IsSessionActive, NothingWaitsForOnlineUser
<1> QED
  BY <1>1, TypeInit, IdsInit DEF MailboxInv

\* A user with an active session has an empty mailbox, even if the process has
\* ended in the middle of a handler before.
THEOREM OnlineMailboxesEmpty ==
    ASSUME ReplaysDelete
    PROVE  Spec => []NothingWaitsForOnlineUser
<1>1. MailboxInv => NothingWaitsForOnlineUser
  BY DEF MailboxInv
<1>2. MailboxInv /\ [Next]_vars => MailboxInv'
  BY MailboxStep
<1> QED
  BY <1>1, <1>2, MailboxInit, PTL DEF Spec

\* A row that has not been handed over leaves the table only in a step that
\* hands it over.
THEOREM StoredAtLeastOnce ==
    ASSUME "scan" \notin Faults
    PROVE  Spec => OfflineAtLeastOnce
<1>1. ASSUME TypeOK, [Next]_vars, NEW m \in MessageIds,
             addressee[m] # 0, m \in OfflineMessages(addressee[m]), messages'[m] = NoRow
      PROVE  handed'[m] > 0
  <2>1. messages[m] # NoRow /\ messages'[m] # messages[m]
    BY <1>1 DEF OfflineMessages
  <2>2. ASSUME NEW user \in UserIds, NEW d \in BOOLEAN, StoresRow(user, d) PROVE FALSE
    BY <1>1, <2>1, <2>2, DatabaseAssumption DEF StoresRow, TypeOK, DatabaseTypes
  <2>3. ASSUME NEW user \in UserIds, NEW scan \in SUBSET MessageIds, Replays(user, scan)
        PROVE  handed'[m] > 0
    <3>1. scan = OfflineMessages(user) /\ HandedOver(scan)
      BY <2>3 DEF Replays
    <3>2. m \in scan
      BY <1>1, <2>1, <2>3, <3>1, DeleteWaiting DEF Replays
    <3> QED BY <1>1, <3>1, <3>2, HandedEffect
  <2> QED BY <1>1, <2>1, <2>2, <2>3, MessageEffects
          DEF StoresOnline, StoresOffline, StopsAfterStore, StopsAfterReplay, MessagesKept,
              IsSessionActive
<1>2. TypeOK /\ [Next]_vars => [RowsLeaveHandedOver]_vars
  BY <1>1 DEF RowsLeaveHandedOver
<1> QED
  BY <1>2, TypeCorrect, PTL DEF Spec, OfflineAtLeastOnce

-----------------------------------------------------------------------------
(* Exactly once: while a replay deletes what it has sent and no handler is  *)
(* cut off between the two.                                                 *)

RowsDeleted == "delete" \notin Faults /\ "midstop" \notin Faults

\* What is still in the table was not handed over.
WaitingNotHanded ==
    \A u \in UserIds : \A m \in OfflineMessages(u) : handed[m] = 0

OnceInv == TypeOK /\ IdsInv /\ WaitingNotHanded /\ HandedAtMostOnce

LEMMA OnceInit == Init => OnceInv
<1>1. Init => WaitingNotHanded /\ HandedAtMostOnce
  BY DEF Init, RouterInit, WaitingNotHanded, HandedAtMostOnce, OfflineMessages
<1> QED
  BY <1>1, TypeInit, IdsInit DEF OnceInv

LEMMA OnceStep ==
    ASSUME RowsDeleted
    PROVE  OnceInv /\ [Next]_vars => OnceInv'
<1> SUFFICES ASSUME OnceInv, [Next]_vars PROVE OnceInv'
  OBVIOUS
<1> USE DEF OnceInv
<1>0. TypeOK' /\ IdsInv'
  BY TypeStep, IdsStep
<1>1. ASSUME NEW user \in UserIds, StoresOnline(user)
      PROVE  (WaitingNotHanded /\ HandedAtMostOnce)'
  <2>1. /\ NextMessageId \in MessageIds /\ NextMessageId > lastMessageId
        /\ \A u \in UserIds : NextMessageId \notin OfflineMessages(u)'
        /\ \A m \in MessageIds : m # NextMessageId =>
              \A u \in UserIds : m \in OfflineMessages(u)' <=> m \in OfflineMessages(u)
    BY <1>1, StoreWaiting DEF StoresOnline
  <2>2. /\ handed'[NextMessageId] = 1
        /\ \A m \in MessageIds : m # NextMessageId => handed'[m] = handed[m]
    BY <1>1, <2>1, HandedEffect DEF StoresOnline, IdsInv
  <2>3. WaitingNotHanded'
    BY <2>1, <2>2, OfflineAreIds DEF WaitingNotHanded
  <2>4. HandedAtMostOnce'
    BY <2>2 DEF HandedAtMostOnce
  <2> QED BY <2>3, <2>4
<1>2. ASSUME NEW user \in UserIds, StoresOffline(user)
      PROVE  (WaitingNotHanded /\ HandedAtMostOnce)'
  <2>1. \A m \in MessageIds : m # NextMessageId =>
           \A u \in UserIds : m \in OfflineMessages(u)' <=> m \in OfflineMessages(u)
    BY <1>2, StoreWaiting DEF StoresOffline
  <2>2. handed' = handed /\ handed[NextMessageId] = 0
    BY <1>2, StoreWaiting DEF StoresOffline, IdsInv
  <2>3. WaitingNotHanded'
    BY <2>1, <2>2, OfflineAreIds DEF WaitingNotHanded
  <2> QED BY <2>2, <2>3 DEF HandedAtMostOnce
<1>3. ASSUME NEW user \in UserIds, NEW scan \in SUBSET MessageIds, Replays(user, scan)
      PROVE  (WaitingNotHanded /\ HandedAtMostOnce)'
  <2>1. \A m \in MessageIds : /\ m \in scan => handed'[m] = 1
                              /\ m \notin scan => handed'[m] = handed[m]
    BY <1>3, HandedEffect DEF Replays, WaitingNotHanded
  <2>2. scan \cap OfflineMessages(user)' = {}
    BY <1>3, DeleteWaiting DEF Replays, RowsDeleted
  <2>3. \A u \in UserIds : OfflineMessages(u)' \subseteq OfflineMessages(u)
    BY <1>3, DeleteWaiting DEF Replays, OfflineMessages
  <2>4. \A u \in UserIds : u # user => scan \cap OfflineMessages(u)' = {}
    BY <1>3, <2>3 DEF Replays, OfflineMessages
  <2>5. WaitingNotHanded'
    <3>1. ASSUME NEW u \in UserIds, NEW m \in OfflineMessages(u)' PROVE handed'[m] = 0
      <4>1. m \in MessageIds /\ m \in OfflineMessages(u) /\ m \notin scan
        BY <3>1, <2>2, <2>3, <2>4, OfflineAreIds
      <4> QED BY <4>1, <2>1 DEF WaitingNotHanded
    <3> QED BY <3>1 DEF WaitingNotHanded
  <2>6. HandedAtMostOnce'
    BY <2>1 DEF HandedAtMostOnce
  <2> QED BY <2>5, <2>6
<1>4. ASSUME MessagesKept PROVE (WaitingNotHanded /\ HandedAtMostOnce)'
  BY <1>4 DEF MessagesKept, WaitingNotHanded, HandedAtMostOnce, OfflineMessages
<1> QED
  BY <1>0, <1>1, <1>2, <1>3, <1>4, MessageEffects
     DEF StopsAfterStore, StopsAfterReplay, RowsDeleted

\* No message is passed to a session twice.
THEOREM HandedOnce ==
    ASSUME RowsDeleted
    PROVE  Spec => []HandedAtMostOnce
<1>1. OnceInv => HandedAtMostOnce
  BY DEF OnceInv
<1>2. OnceInv /\ [Next]_vars => OnceInv'
  BY OnceStep
<1> QED
  BY <1>1, <1>2, OnceInit, PTL DEF Spec

-----------------------------------------------------------------------------
(* The refinement of Mailbox.tla.                                           *)

LEMMA MailInit == Init => Mail!MailboxInit
BY DEF Init, DatabaseInit, UserManagerInit, RouterInit, EmptyRegistry, IsSessionActive,
       OfflineMessages, Mail!MailboxInit

\* With the counts of HandedAtMostOnce the cap of handed plays no part.
LEMMA MailHandOver ==
    ASSUME OnceInv, NEW ids \in SUBSET MessageIds, HandedOver(ids),
           \A m \in ids : handed[m] = 0
    PROVE  Mail!HandOver(ids)
BY DEF OnceInv, TypeOK, HistoryTypes, HandedOver, Once, Mail!HandOver

LEMMA MailStep ==
    ASSUME RowsDeleted, ReplaysDelete, OnceInv, [Next]_vars
    PROVE  [Mail!MailboxNext]_(Mail!mailboxVars)
<1> USE DEF OnceInv
<1> DEFINE here == {u \in UserIds : IsSessionActive(u)}
           mail == [u \in UserIds |-> OfflineMessages(u)]
<1>1. ASSUME NEW user \in UserIds, StoresOnline(user) PROVE Mail!PostToPresent(user)
  <2>1. /\ NextMessageId \in MessageIds /\ handed[NextMessageId] = 0
        /\ \A u \in UserIds : NextMessageId \notin OfflineMessages(u)
        /\ \A u \in UserIds : OfflineMessages(u)' = OfflineMessages(u)
    <3>1. NextMessageId \in MessageIds /\ NextMessageId > lastMessageId
      BY <1>1, StoreWaiting DEF StoresOnline
    <3>2. \A u \in UserIds : NextMessageId \notin OfflineMessages(u)
      BY <3>1 DEF IdsInv, OfflineMessages
    <3>3. \A u \in UserIds : \A m \in MessageIds :
             m \in OfflineMessages(u)' <=> m \in OfflineMessages(u)
      BY <1>1, <3>2, StoreWaiting DEF StoresOnline
    <3>4. ASSUME NEW u \in UserIds PROVE OfflineMessages(u)' = OfflineMessages(u)
      BY <3>3, OfflineAreIds
    <3> QED BY <3>1, <3>2, <3>4 DEF IdsInv
  <2>2. Mail!HandOver({NextMessageId})
    BY <1>1, <2>1, MailHandOver DEF StoresOnline
  <2>3. mail' = mail /\ here' = here /\ user \in here
    BY <1>1, <2>1 DEF StoresOnline, IsSessionActive
  <2> QED BY <1>1, <2>1, <2>2, <2>3 DEF Mail!PostToPresent, StoresOnline, StoresRow, NextMessageId
<1>2. ASSUME NEW user \in UserIds, StoresOffline(user) PROVE Mail!PostToAbsent(user)
  <2>1. /\ NextMessageId \in MessageIds
        /\ OfflineMessages(user)' = OfflineMessages(user) \cup {NextMessageId}
        /\ \A u \in UserIds : u # user => OfflineMessages(u)' = OfflineMessages(u)
    <3>1. NextMessageId \in MessageIds /\ NextMessageId > lastMessageId
      BY <1>2, StoreWaiting DEF StoresOffline
    <3>2. \A u \in UserIds : NextMessageId \notin OfflineMessages(u)
      BY <3>1 DEF IdsInv, OfflineMessages
    <3>3. \A u \in UserIds : \A m \in MessageIds :
             m \in OfflineMessages(u)' <=>
                m \in OfflineMessages(u) \/ (u = user /\ m = NextMessageId)
      BY <1>2, <3>1, <3>2, StoreWaiting DEF StoresOffline
    <3>4. OfflineMessages(user)' = OfflineMessages(user) \cup {NextMessageId}
      BY <3>1, <3>3, OfflineAreIds
    <3>5. ASSUME NEW u \in UserIds, u # user PROVE OfflineMessages(u)' = OfflineMessages(u)
      BY <3>3, <3>5, OfflineAreIds
    <3> QED BY <3>1, <3>4, <3>5
  <2>2. mail' = [mail EXCEPT ![user] = @ \cup {NextMessageId}]
    BY <2>1
  <2>3. here' = here /\ user \notin here
    BY <1>2 DEF StoresOffline, IsSessionActive
  <2> QED BY <1>2, <2>1, <2>2, <2>3 DEF Mail!PostToAbsent, StoresOffline, StoresRow, NextMessageId
<1>3. ASSUME NEW user \in UserIds, NEW scan \in SUBSET MessageIds, Replays(user, scan)
      PROVE  Mail!Arrive(user)
  <2>1. scan = OfflineMessages(user) /\ Mail!HandOver(OfflineMessages(user))
    BY <1>3, MailHandOver DEF Replays, ReplaysDelete, WaitingNotHanded
  <2>2. mail' = [mail EXCEPT ![user] = {}]
    BY <1>3, ReplayEmpties
  <2>3. here' = here \cup {user}
    BY <1>3, UserManagerAssumption DEF Replays, IsSessionActive, TypeOK, RegistryTypes
  <2> QED BY <1>3, <2>1, <2>2, <2>3 DEF Mail!Arrive, Replays
<1>4. ASSUME MessagesKept PROVE [Mail!MailboxNext]_(Mail!mailboxVars)
  <2>1. mail' = mail /\ UNCHANGED <<handed, lastMessageId>>
    BY <1>4 DEF MessagesKept, OfflineMessages
  <2>2. CASE activeSessions' = activeSessions
    BY <2>1, <2>2 DEF IsSessionActive, Mail!mailboxVars
  <2>3. ASSUME NEW leaving \in SUBSET UserIds,
               activeSessions' = [u \in UserIds |-> IF u \in leaving THEN NoSession
                                                    ELSE activeSessions[u]]
        PROVE  Mail!Depart(leaving)
    <3>1. here' = here \ leaving
      BY <2>3 DEF IsSessionActive
    <3> QED BY <2>1, <3>1 DEF Mail!Depart
  <2> QED BY <1>4, <2>2, <2>3 DEF MessagesKept, Mail!MailboxNext
<1> QED
  BY <1>1, <1>2, <1>3, <1>4, MessageEffects
     DEF StopsAfterStore, StopsAfterReplay, RowsDeleted, Mail!MailboxNext

\* The server implements the abstract mailboxes.
THEOREM MailboxImplemented ==
    ASSUME RowsDeleted, ReplaysDelete
    PROVE  Spec => ImplementsMailbox
<1>1. OnceInv /\ [Next]_vars => OnceInv'
  BY OnceStep
<1>2. OnceInv /\ [Next]_vars => [Mail!MailboxNext]_(Mail!mailboxVars)
  BY MailStep
<1> QED
  BY <1>1, <1>2, OnceInit, MailInit, PTL DEF Spec, ImplementsMailbox, Mail!MailboxSpec
=============================================================================
