----------------------------- MODULE StreamProofs -----------------------------
(***************************************************************************)
(* Proofs about the streams that the server writes: whose messages they    *)
(* carry, and in which order.                                              *)
(***************************************************************************)
EXTENDS ServerProofs

-----------------------------------------------------------------------------
(* What a step may do to the stream of a session.                           *)

PlainLine == ResponseLine \cup TypingLine

StreamKept(r) ==
    \/ out'[r] \in {out[r], << >>}
    \/ out[r] # << >> /\ out'[r] = Tail(out[r])
    \/ \E lines \in Seq(PlainLine) : out'[r] = out[r] \o lines

Increasing(listing) == \A i, j \in DOMAIN listing : i < j => listing[i] < listing[j]

\* q with messages in the middle of what is written behind it.
Extended(q, before, lines, after) == ((q \o before) \o lines) \o after

\* The messages listed are for a user that the session has logged in as, and are
\* a new one, or some that waited in the table.
HandsTo(r, user, ids, listing) ==
    /\ user \in loggedInAs'[r] /\ loggedInAs[r] \subseteq loggedInAs'[r]
    /\ listing \in Seq(ids)
    /\ "clock" \notin Faults => Increasing(listing)
    /\ HandedOver(ids)
    /\ \A m \in ids : addressee'[m] = user
    /\ ids = {NextMessageId} \/ ids \subseteq OfflineMessages(user)
    /\ \E before, after \in Seq(PlainLine), stored \in BOOLEAN :
          out'[r] = Extended(out[r], before, MessageLines(listing, stored), after)

StreamExtended(r) ==
    \E user \in UserIds, ids \in SUBSET MessageIds :
    \E listing \in Seq(ids) : HandsTo(r, user, ids, listing)

\* Responses and typing notices are plain lines.
LEMMA ResponsePlain ==
    ASSUME NEW type \in {"register", "login", "message", "error"}, NEW success \in BOOLEAN
    PROVE  Response(type, success) \in Seq(PlainLine)
<1>1. [kind |-> "response", type |-> type, success |-> success] \in PlainLine
  BY DEF PlainLine, ResponseLine
<1> QED
  BY <1>1 DEF Response, Kept

\* A typing notice is one plain line.
LEMMA TypingPlain ==
    ASSUME NEW from \in Names, NEW is_typing \in BOOLEAN
    PROVE  Typing(from, is_typing) \in Seq(PlainLine)
<1>1. [kind |-> "typing", from |-> from, is_typing |-> is_typing] \in PlainLine
  BY DEF PlainLine, TypingLine
<1> QED
  BY <1>1 DEF Typing, Kept

\* Plain lines are lines.
LEMMA PlainIsLine == PlainLine \subseteq Line
BY DEF PlainLine, Line

\* One stream is changed.
LEMMA StreamsExcept ==
    ASSUME NEW f \in [Sessions -> Seq(Line)], NEW s \in Sessions, NEW q, NEW r \in Sessions
    PROVE  [f EXCEPT ![s] = q][r] = IF r = s THEN q ELSE f[r]
OBVIOUS

\* A send of plain lines.
LEMMA SendKeeps ==
    ASSUME TypeOK, NEW s \in Sessions, NEW lines \in Seq(PlainLine), Send(s, lines),
           NEW r \in Sessions
    PROVE  StreamKept(r)
BY DEF TypeOK, StreamTypes, Send, Enqueued, StreamKept

\* A request that is only answered.
LEMMA AnswerKeeps ==
    ASSUME TypeOK, NEW s \in Sessions,
           \/ Register(s) \/ RegisterFails(s) \/ LoginFails(s) \/ RefuseMessage(s)
           \/ PostDropped(s) \/ PostMistyped(s) \/ PostOffline(s) \/ Malformed(s),
           NEW r \in Sessions
    PROVE  StreamKept(r)
<1>1. ASSUME NEW type \in {"register", "login", "message", "error"}, NEW success \in BOOLEAN,
             Send(s, Response(type, success))
      PROVE  StreamKept(r)
  BY <1>1, ResponsePlain, SendKeeps
<1>2. \E type \in {"register", "login", "message", "error"}, success \in BOOLEAN :
         Send(s, Response(type, success))
  BY DEF Register, RegisterFails, LoginFails, RefuseMessage, PostDropped, PostMistyped,
         PostOffline, StoreOffline, MessageSent, Malformed
<1> QED
  BY <1>1, <1>2

\* A typing request.
LEMMA TypingKeeps ==
    ASSUME TypeOK, NEW s \in Sessions, NotifyTyping(s) \/ IgnoreTyping(s), NEW r \in Sessions
    PROVE  StreamKept(r)
<1>1. CASE IgnoreTyping(s)
  BY <1>1 DEF IgnoreTyping, NothingSent, StreamKept
<1>2. CASE NotifyTyping(s)
  <2>1. PICK name \in Names, is_typing \in BOOLEAN : SendTypingStatus(username[s], name, is_typing)
    BY <1>2 DEF NotifyTyping
  <2>2. CASE NothingSent
    BY <2>2 DEF NothingSent, StreamKept
  <2>3. CASE \E t \in SessionByUsername(name) : Send(t, Typing(username[s], is_typing))
    <3>1. PICK t \in SessionByUsername(name) : Send(t, Typing(username[s], is_typing))
      BY <2>3
    <3>2. t \in Sessions
      BY <3>1 DEF SessionByUsername, TypeOK, RegistryTypes
    <3>3. username[s] \in Names
      BY <1>2, SenderType DEF NotifyTyping
    <3> QED
      BY <3>1, <3>2, <3>3, TypingPlain, SendKeeps
  <2> QED BY <2>1, <2>2, <2>3 DEF SendTypingStatus
<1> QED
  BY <1>1, <1>2

\* What is listed is increasing, unless the clock has been set back.
LEMMA ListingsIncrease ==
    ASSUME NEW ids \in SUBSET MessageIds, NEW listing \in Listings(ids)
    PROVE  listing \in Seq(ids) /\ ("clock" \notin Faults => Increasing(listing))
<1>1. IsFiniteSet(MessageIds)
  BY FS_Interval, DatabaseAssumption DEF MessageIds
<1>2. Cardinality(ids) \in Nat
  BY <1>1, FS_Subset, FS_CardinalityType
<1>3. listing \in [1 .. Cardinality(ids) -> ids]
  BY DEF Listings
<1>4. listing \in Seq(ids)
  BY <1>2, <1>3
<1>5. "clock" \notin Faults => Increasing(listing)
  BY <1>3 DEF Listings, Before, Increasing
<1> QED
  BY <1>4, <1>5

\* The lines of a listing in the middle of what is written.
LEMMA LinesType ==
    ASSUME NEW ids \in SUBSET MessageIds, NEW listing \in Seq(ids), NEW stored \in BOOLEAN
    PROVE  MessageLines(listing, stored) \in Seq(Line)
<1>1. listing \in Seq(MessageIds)
  BY SeqMonotonic
<1> QED
  BY <1>1, MessageLinesType

\* The ways in which a step appends to a stream, as cases of Extended.
LEMMA Concats ==
    ASSUME NEW q \in Seq(Line), NEW p \in Seq(PlainLine), NEW m \in Seq(Line)
    PROVE  /\ q \o m = Extended(q, << >>, m, << >>)
           /\ (q \o m) \o p = Extended(q, << >>, m, p)
           /\ q \o (p \o m) = Extended(q, p, m, << >>)
           /\ << >> \in Seq(PlainLine)
<1>1. p \in Seq(Line)
  BY PlainIsLine, SeqMonotonic
<1>2. q \o m \in Seq(Line) /\ q \o p \in Seq(Line) /\ (q \o p) \o m \in Seq(Line)
  BY <1>1, ConcatProperties
<1>3. /\ q \o << >> = q /\ (q \o m) \o << >> = q \o m
      /\ ((q \o p) \o m) \o << >> = (q \o p) \o m
  BY <1>2, ConcatEmptySeq
<1>4. q \o (p \o m) = (q \o p) \o m
  BY <1>1, ConcatAssociative
<1> QED
  BY <1>3, <1>4, EmptySeq DEF Extended

\* A message to a user that is online.
LEMMA PostOnlineExtends ==
    ASSUME RegistryInv, NEW s \in Sessions, PostOnline(s), NEW r \in Sessions
    PROVE  StreamKept(r) \/ StreamExtended(r)
<1>0. TypeOK
  BY DEF RegistryInv
<1>1. PICK name \in Names, user \in UserIds : DeliverOnline(s, user, MessageSent)
  BY <1>0, GetUserType DEF PostOnline, TypeOK
<1> DEFINE t == activeSessions[user]
           lines == MessageLines(<<NextMessageId>>, FALSE)
<1>2. t \in Sessions /\ user \in loggedInAs[t]
  BY <1>0, <1>1 DEF RegistryInv, RegistryAgrees, TypeOK, RegistryTypes, DeliverOnline,
     IsSessionActive
<1>3. StoresRow(user, TRUE)
  BY <1>0, <1>1, StoreEffect DEF PostOnline, DeliverOnline
<1>4. NextMessageId \in MessageIds /\ addressee'[NextMessageId] = user
  BY <1>0, <1>3, StoreWaiting
<1>5. lines \in Seq(Line)
  <2>1. {NextMessageId} \in SUBSET MessageIds /\ <<NextMessageId>> \in Seq({NextMessageId})
    BY <1>4
  <2> QED BY <2>1, LinesType
<1>6. MessageSent \in Seq(PlainLine)
  BY ResponsePlain DEF MessageSent
<1>7. out' = Enqueued(Enqueued(out, t, lines), s, MessageSent) /\ HandedOver({NextMessageId})
  BY <1>1 DEF DeliverOnline, SendThenSend
<1>8. out \in [Sessions -> Seq(Line)] /\ loggedInAs' = loggedInAs
  BY <1>0 DEF TypeOK, StreamTypes, PostOnline
<1> HIDE DEF t, lines
<1>9. CASE r # t
  <2>1. Enqueued(out, t, lines)[r] = out[r]
    BY <1>8, <1>9 DEF Enqueued
  <2>2. out'[r] = out[r] \/ out'[r] = out[r] \o MessageSent
    BY <1>7, <1>8, <2>1 DEF Enqueued
  <2> QED BY <1>6, <2>2 DEF StreamKept
<1>10. CASE r = t
  <2>1. out'[r] = out[r] \/ out'[r] = out[r] \o lines \/ out'[r] = (out[r] \o lines) \o MessageSent
    BY <1>7, <1>8, <1>10 DEF Enqueued
  <2>2. CASE out'[r] = out[r]
    BY <2>2 DEF StreamKept
  <2>3. CASE out'[r] = out[r] \o lines \/ out'[r] = (out[r] \o lines) \o MessageSent
    <3>1. \E before, after \in Seq(PlainLine) : out'[r] = Extended(out[r], before, lines, after)
      <4>1. out[r] \in Seq(Line)
        BY <1>8
      <4>2. /\ out[r] \o lines = Extended(out[r], << >>, lines, << >>)
            /\ (out[r] \o lines) \o MessageSent = Extended(out[r], << >>, lines, MessageSent)
        BY <1>5, <1>6, <4>1, Concats
      <4>3. << >> \in Seq(PlainLine)
        BY EmptySeq
      <4> QED BY <1>6, <2>3, <4>2, <4>3
    <3>2. \E before, after \in Seq(PlainLine), stored \in BOOLEAN :
             out'[r] = Extended(out[r], before, MessageLines(<<NextMessageId>>, stored), after)
      BY <3>1 DEF lines
    <3>3. <<NextMessageId>> \in Seq({NextMessageId}) /\ Increasing(<<NextMessageId>>)
      BY DEF Increasing
    <3>4. HandsTo(r, user, {NextMessageId}, <<NextMessageId>>)
      BY <1>2, <1>4, <1>7, <1>8, <1>10, <3>2, <3>3 DEF HandsTo
    <3>5. {NextMessageId} \in SUBSET MessageIds
      BY <1>4
    <3> QED BY <3>3, <3>4, <3>5 DEF StreamExtended
  <2> QED BY <2>1, <2>2, <2>3
<1> QED
  BY <1>9, <1>10

\* A login with its replay.
LEMMA LoginExtends ==
    ASSUME TypeOK, IdsInv, NEW s \in Sessions, Login(s), NEW r \in Sessions
    PROVE  StreamKept(r) \/ StreamExtended(r)
<1>1. PICK name \in Names, user \in UserIds :
         /\ LogIn(s, user, name)
         /\ SendStoredMessages(s, user, Response("login", TRUE))
  BY LoginUser
<1>2. PICK scan \in OfflineScans(user) : \E listing \in Listings(scan) :
         /\ Send(s, Response("login", TRUE) \o MessageLines(listing, TRUE))
         /\ HandedOver(scan)
  BY <1>1 DEF SendStoredMessages
<1>3. PICK listing \in Listings(scan) :
         /\ Send(s, Response("login", TRUE) \o MessageLines(listing, TRUE))
         /\ HandedOver(scan)
  BY <1>2
<1>4. scan \in SUBSET MessageIds /\ scan \subseteq OfflineMessages(user)
  BY ScanType
<1>5. listing \in Seq(scan) /\ ("clock" \notin Faults => Increasing(listing))
  BY <1>4, ListingsIncrease
<1>6. MessageLines(listing, TRUE) \in Seq(Line) /\ Response("login", TRUE) \in Seq(PlainLine)
  BY <1>4, <1>5, LinesType, ResponsePlain
<1>7. out \in [Sessions -> Seq(Line)] /\ loggedInAs \in [Sessions -> SUBSET UserIds]
  BY DEF TypeOK, StreamTypes, HistoryTypes
<1> DEFINE lines == Response("login", TRUE) \o MessageLines(listing, TRUE)
<1>8. out'[r] = out[r] \/ (r = s /\ out'[r] = out[r] \o lines)
  <2>1. out' = Enqueued(out, s, lines)
    BY <1>3 DEF Send
  <2>2. \/ Enqueued(out, s, lines)[r] = out[r]
        \/ Enqueued(out, s, lines) = [out EXCEPT ![s] = out[s] \o lines]
    BY DEF Enqueued
  <2> HIDE DEF lines
  <2>3. [out EXCEPT ![s] = out[s] \o lines][r] = IF r = s THEN out[s] \o lines ELSE out[r]
    BY <1>7, StreamsExcept
  <2> QED BY <2>1, <2>2, <2>3
<1>9. CASE out'[r] = out[r]
  BY <1>9 DEF StreamKept
<1>10. CASE r = s /\ out'[r] = out[r] \o lines
  <2>1. \E before, after \in Seq(PlainLine), stored \in BOOLEAN :
           out'[r] = Extended(out[r], before, MessageLines(listing, stored), after)
    <3>1. out[r] \in Seq(Line)
      BY <1>7
    <3>2. out'[r] = Extended(out[r], Response("login", TRUE), MessageLines(listing, TRUE), << >>)
      BY <1>6, <1>10, <3>1, Concats
    <3> QED BY <1>6, <3>2, EmptySeq
  <2>2. user \in loggedInAs'[r] /\ loggedInAs[r] \subseteq loggedInAs'[r]
    BY <1>1, <1>7, <1>10 DEF LogIn
  <2>3. \A m \in scan : addressee'[m] = user
    BY <1>4 DEF IdsInv, OfflineMessages, Login
  <2>4. HandsTo(r, user, scan, listing)
    BY <1>3, <1>4, <1>5, <2>1, <2>2, <2>3 DEF HandsTo
  <2> QED BY <1>4, <1>5, <2>4 DEF StreamExtended
<1> QED
  BY <1>8, <1>9, <1>10

\* Every step keeps a stream, or extends it with messages.
LEMMA StreamSteps ==
    ASSUME RegistryInv, IdsInv, [Next]_vars, NEW r \in Sessions
    PROVE  StreamKept(r) \/ StreamExtended(r)
<1>0. TypeOK
  BY DEF RegistryInv
<1>1. CASE UNCHANGED vars
  BY <1>1 DEF vars, streamVars, StreamKept
<1>2. ASSUME NEW s \in Sessions, HandleRequest(s) PROVE StreamKept(r) \/ StreamExtended(r)
  BY <1>0, <1>2, AnswerKeeps, TypingKeeps, PostOnlineExtends, LoginExtends DEF HandleRequest
<1>3. ASSUME NEW s \in Sessions,
             \/ Accept(s) \/ SessionReadError(s) \/ SessionWriteError(s) \/ SessionDestroyed(s)
             \/ PeerSends(s)
      PROVE  StreamKept(r)
  BY <1>3 DEF Accept, Construct, SessionReadError, SessionWriteError, SessionDestroyed, ReadError,
     WriteError, Close, Destroy, PeerSends, PeerWrites, StreamKept
<1>4. ASSUME NEW s \in Sessions, PeerReceives(s) \/ PeerLost(s) PROVE StreamKept(r)
  <2>1. \/ out'[r] = out[r]
        \/ r = s /\ out'[r] = << >>
        \/ r = s /\ out[r] # << >> /\ out'[r] = Tail(out[r])
    <3>1. out \in [Sessions -> Seq(Line)]
      BY <1>0 DEF TypeOK, StreamTypes
    <3>2. /\ PeerReceives(s) => out[s] # << >> /\ out' = [out EXCEPT ![s] = Tail(@)]
          /\ PeerLost(s) => out' = [out EXCEPT ![s] = << >>]
      BY DEF PeerReceives, PeerReads, PeerLost, LinkFails
    <3>3. /\ [out EXCEPT ![s] = Tail(out[s])][r] = IF r = s THEN Tail(out[s]) ELSE out[r]
          /\ [out EXCEPT ![s] = << >>][r] = IF r = s THEN << >> ELSE out[r]
      BY <3>1, StreamsExcept
    <3> QED BY <1>4, <3>2, <3>3
  <2> QED BY <2>1 DEF StreamKept
<1>5. CASE Restart \/ StopInPost \/ StopInReplay
  BY <1>5 DEF Restart, StopInPost, StopInReplay, VolatileLost, StreamKept
<1> QED
  BY <1>1, <1>2, <1>3, <1>4, <1>5 DEF Next

-----------------------------------------------------------------------------
(* Lines are unread only where a live connection is.                        *)

StreamsOpen ==
    \A s \in Sessions :
       /\ out[s] # << >> => phase[s] = "open" /\ link[s] = "up"
       /\ writeFailed[s] => phase[s] = "open" /\ link[s] = "down"

\* A send leaves the other streams alone, and marks no other write.
LEMMA SendOpen ==
    ASSUME TypeOK, StreamsOpen, NEW s \in Sessions, NEW lines, Send(s, lines),
           phase' = phase, link' = link
    PROVE  StreamsOpen'
<1>1. ASSUME NEW r \in Sessions
      PROVE  /\ out'[r] = out[r] \/ (phase[r] = "open" /\ link[r] = "up")
             /\ writeFailed'[r] = writeFailed[r] \/ (phase[r] = "open" /\ link[r] = "down")
  BY DEF TypeOK, StreamTypes, Send, Enqueued, Doomed
<1> QED
  BY <1>1 DEF StreamsOpen

\* A handler that writes to two sessions writes only to open ones.
LEMMA SendThenSendOpen ==
    ASSUME TypeOK, StreamsOpen, NEW t \in Sessions, NEW s \in Sessions, NEW first, NEW second,
           SendThenSend(t, first, s, second), phase' = phase, link' = link
    PROVE  StreamsOpen'
<1>1. ASSUME NEW r \in Sessions
      PROVE  /\ out'[r] = out[r] \/ (phase[r] = "open" /\ link[r] = "up")
             /\ writeFailed'[r] = writeFailed[r] \/ (phase[r] = "open" /\ link[r] = "down")
  BY DEF TypeOK, StreamTypes, SendThenSend, Enqueued, Doomed
<1> QED
  BY <1>1 DEF StreamsOpen

\* Every step keeps StreamsOpen.
LEMMA OpenStep ==
    ASSUME TypeOK, StreamsOpen, [Next]_vars
    PROVE  StreamsOpen'
<1>1. CASE UNCHANGED vars
  BY <1>1 DEF vars, streamVars, StreamsOpen
<1>2. ASSUME NEW s \in Sessions, HandleRequest(s) PROVE StreamsOpen'
  <2>1. phase' = phase /\ link' = link
    BY <1>2 DEF HandleRequest, Register, RegisterFails, Login, LoginFails, RefuseMessage,
       PostOnline, PostOffline, PostDropped, PostMistyped, NotifyTyping, IgnoreTyping, Malformed,
       ReadHandled
  <2>2. CASE \E lines : Send(s, lines)
    BY <2>1, <2>2, SendOpen
  <2>3. CASE PostOnline(s)
    <3>1. PICK user \in UserIds : DeliverOnline(s, user, MessageSent)
      BY <2>3, GetUserType DEF PostOnline, TypeOK
    <3>2. activeSessions[user] \in Sessions
      BY <3>1 DEF TypeOK, RegistryTypes, DeliverOnline
    <3> QED BY <2>1, <3>1, <3>2, SendThenSendOpen DEF DeliverOnline
  <2>4. CASE NothingSent
    BY <2>1, <2>4 DEF NothingSent, StreamsOpen
  <2>5. CASE NotifyTyping(s)
    <3>1. ASSUME NEW name, NEW t \in SessionByUsername(name) PROVE t \in Sessions
      BY DEF SessionByUsername, TypeOK, RegistryTypes
    <3> QED BY <2>1, <2>4, <2>5, <3>1, SendOpen DEF NotifyTyping, SendTypingStatus
  <2>6. CASE Login(s)
    <3>1. \E lines : Send(s, lines)
      BY <2>6, LoginUser DEF SendStoredMessages
    <3> QED BY <2>2, <3>1
  <2> QED
    BY <1>2, <2>2, <2>3, <2>4, <2>5, <2>6 DEF HandleRequest, Register, RegisterFails, LoginFails,
       RefuseMessage, PostOffline, StoreOffline, PostDropped, PostMistyped, IgnoreTyping, Malformed
<1>3. ASSUME NEW s \in Sessions, Accept(s) PROVE StreamsOpen'
  BY <1>3 DEF TypeOK, SessionTypes, StreamTypes, Accept, Construct, StreamsOpen
<1>4. ASSUME NEW s \in Sessions, SessionReadError(s) \/ SessionWriteError(s) PROVE StreamsOpen'
  <2>1. Close(s) /\ link[s] = "down"
    BY <1>4 DEF SessionReadError, SessionWriteError, ReadError, WriteError, StreamsOpen
  <2> QED BY <2>1 DEF TypeOK, SessionTypes, StreamTypes, Close, StreamsOpen
<1>5. ASSUME NEW s \in Sessions, SessionDestroyed(s) PROVE StreamsOpen'
  BY <1>5 DEF TypeOK, SessionTypes, StreamTypes, SessionDestroyed, Destroy, StreamsOpen
<1>6. ASSUME NEW s \in Sessions, PeerSends(s) PROVE StreamsOpen'
  BY <1>6 DEF PeerSends, PeerWrites, StreamsOpen
<1>7. ASSUME NEW s \in Sessions, PeerReceives(s) PROVE StreamsOpen'
  <2>1. ASSUME NEW r \in Sessions, out'[r] # << >> PROVE out[r] # << >>
    <3>1. out' = [out EXCEPT ![s] = Tail(out[s])] /\ out[s] # << >>
      BY <1>7 DEF PeerReceives, PeerReads
    <3>2. [out EXCEPT ![s] = Tail(out[s])][r] = IF r = s THEN Tail(out[s]) ELSE out[r]
      BY StreamsExcept DEF TypeOK, StreamTypes
    <3> QED BY <2>1, <3>1, <3>2
  <2> QED BY <1>7, <2>1 DEF PeerReceives, PeerReads, StreamsOpen
<1>8. ASSUME NEW s \in Sessions, PeerLost(s) PROVE StreamsOpen'
  BY <1>8 DEF TypeOK, StreamTypes, PeerLost, LinkFails, StreamsOpen
<1>9. CASE Restart \/ StopInPost \/ StopInReplay
  BY <1>9 DEF Restart, StopInPost, StopInReplay, VolatileLost, StreamsOpen
<1> QED
  BY <1>1, <1>2, <1>3, <1>4, <1>5, <1>6, <1>7, <1>8, <1>9 DEF Next

-----------------------------------------------------------------------------
(* The messages in a stream are for a user that the session has logged in as. *)

LinesFor(r) ==
    {line \in Line : line.kind = "message" =>
                        /\ line.id \in MessageIds
                        /\ addressee[line.id] \in loggedInAs[r]}

StreamsFor == \A r \in Sessions : out[r] \in Seq(LinesFor(r))

AddressInv == RegistryInv /\ IdsInv /\ StreamsOpen /\ StreamsFor

\* The addressee of a message never changes.
LEMMA AddresseeKept ==
    ASSUME TypeOK, IdsInv, [Next]_vars, NEW m \in MessageIds, addressee[m] # 0
    PROVE  addressee'[m] = addressee[m]
<1>1. ASSUME NEW user \in UserIds, NEW d \in BOOLEAN, StoresRow(user, d)
      PROVE  addressee'[m] = addressee[m]
  BY <1>1, StoreWaiting DEF IdsInv
<1>2. ASSUME NEW user \in UserIds,
             StoresOnline(user) \/ StoresOffline(user) \/ StopsAfterStore(user)
      PROVE  addressee'[m] = addressee[m]
  BY <1>1, <1>2 DEF StoresOnline, StoresOffline, StopsAfterStore, IsSessionActive
<1> QED
  BY <1>2, MessageEffects DEF Replays, StopsAfterReplay, MessagesKept

\* A session with unread lines forgets no login.
LEMMA LoginsKept ==
    ASSUME TypeOK, StreamsOpen, [Next]_vars, NEW r \in Sessions, out'[r] # << >>
    PROVE  loggedInAs[r] \subseteq loggedInAs'[r]
<1>1. ASSUME NEW s \in Sessions, Login(s) PROVE loggedInAs[r] \subseteq loggedInAs'[r]
  BY <1>1, LoginUser DEF LogIn, TypeOK, HistoryTypes
<1>2. ASSUME NEW s \in Sessions, SessionDestroyed(s) PROVE loggedInAs[r] \subseteq loggedInAs'[r]
  BY <1>2 DEF SessionDestroyed, Destroy, StreamsOpen, TypeOK, HistoryTypes
<1>3. ASSUME Stopped PROVE FALSE
  BY <1>3 DEF Stopped, VolatileLost
<1>4. ASSUME NEW s \in Sessions,
             \/ Accept(s) \/ Register(s) \/ PostOnline(s) \/ PostOffline(s) \/ SessionCloses(s)
      PROVE  loggedInAs' = loggedInAs
  BY <1>4 DEF Accept, Register, PostOnline, PostOffline, SessionCloses, historyVars
<1>5. Quiet => loggedInAs' = loggedInAs
  BY DEF Quiet, historyVars
<1> QED
  BY <1>1, <1>2, <1>3, <1>4, <1>5, StepCases

\* Lines of a set are kept, and what is written behind them is of another.
LEMMA StreamElements ==
    ASSUME NEW r \in Sessions, NEW S, S \subseteq Line, NEW S2, S \subseteq S2,
           S2 \subseteq Line, PlainLine \subseteq S2,
           out[r] \in Seq(S),
           \/ StreamKept(r)
           \/ \E before, after \in Seq(PlainLine), lines \in Seq(S2) :
                 out'[r] = Extended(out[r], before, lines, after)
    PROVE  out'[r] \in Seq(S2)
<1>1. out[r] \in Seq(S2)
  BY SeqMonotonic
<1>2. ASSUME NEW lines \in Seq(PlainLine) PROVE lines \in Seq(S2)
  BY <1>2, SeqMonotonic
<1>3. CASE StreamKept(r)
  <2>1. CASE out'[r] \in {out[r], << >>}
    BY <1>1, <2>1, EmptySeq
  <2>2. CASE out[r] # << >> /\ out'[r] = Tail(out[r])
    BY <1>1, <2>2, HeadTailProperties
  <2>3. ASSUME NEW lines \in Seq(PlainLine), out'[r] = out[r] \o lines
        PROVE  out'[r] \in Seq(S2)
    BY <1>1, <1>2, <2>3, ConcatProperties
  <2> QED BY <1>3, <2>1, <2>2, <2>3 DEF StreamKept
<1>4. ASSUME NEW before \in Seq(PlainLine), NEW after \in Seq(PlainLine), NEW lines \in Seq(S2),
             out'[r] = Extended(out[r], before, lines, after)
      PROVE  out'[r] \in Seq(S2)
  <2>1. before \in Seq(S2) /\ after \in Seq(S2)
    BY <1>2
  <2>2. out[r] \o before \in Seq(S2)
    BY <1>1, <2>1, ConcatProperties
  <2>3. (out[r] \o before) \o lines \in Seq(S2)
    BY <2>2, ConcatProperties
  <2> QED BY <1>4, <2>1, <2>3, ConcatProperties DEF Extended
<1> QED
  BY <1>3, <1>4

\* The lines of messages with a property have it.
LEMMA MessageElements ==
    ASSUME NEW ids \in SUBSET MessageIds, NEW listing \in Seq(ids), NEW stored \in BOOLEAN,
           NEW S, \A m \in ids : [kind |-> "message", id |-> m, stored |-> stored] \in S
    PROVE  MessageLines(listing, stored) \in Seq(S)
<1> DEFINE line(i) == [kind |-> "message", id |-> listing[i], stored |-> stored]
<1>1. Len(listing) \in Nat /\ DOMAIN listing = 1 .. Len(listing)
         /\ \A i \in 1 .. Len(listing) : listing[i] \in ids
  BY LenProperties, ElementOfSeq
<1>2. \A i \in 1 .. Len(listing) : line(i) \in S
  BY <1>1
<1>3. [i \in 1 .. Len(listing) |-> line(i)] \in Seq(S)
  <2> HIDE DEF line
  <2> QED BY <1>1, <1>2
<1>4. << >> \in Seq(S)
  BY EmptySeq
<1> QED
  BY <1>1, <1>3, <1>4 DEF MessageLines, Kept

\* Every step keeps AddressInv.
LEMMA AddressStep ==
    ASSUME AddressInv, [Next]_vars
    PROVE  AddressInv'
<1>0. TypeOK /\ RegistryInv' /\ IdsInv' /\ StreamsOpen'
  BY RegistryStep, IdsStep, OpenStep DEF AddressInv, RegistryInv
<1>1. ASSUME NEW r \in Sessions PROVE out'[r] \in Seq(LinesFor(r)')
  <2>1. CASE out'[r] = << >>
    BY <2>1, EmptySeq
  <2>2. CASE out'[r] # << >>
    <3>1. loggedInAs[r] \subseteq loggedInAs'[r] /\ loggedInAs[r] \subseteq UserIds
      BY <1>0, <2>2, LoginsKept DEF AddressInv, TypeOK, HistoryTypes
    <3>2. LinesFor(r) \subseteq LinesFor(r)'
      BY <1>0, <3>1, AddresseeKept DEF AddressInv, LinesFor, UserIds
    <3>3. /\ LinesFor(r) \subseteq Line /\ LinesFor(r)' \subseteq Line
          /\ PlainLine \subseteq LinesFor(r)'
      BY DEF LinesFor, PlainLine, Line, ResponseLine, TypingLine
    <3>4. out[r] \in Seq(LinesFor(r))
      BY DEF AddressInv, StreamsFor
    <3>5. CASE StreamKept(r)
      BY <3>2, <3>3, <3>4, <3>5, StreamElements
    <3>6. CASE StreamExtended(r)
      <4>1. PICK user \in UserIds, ids \in SUBSET MessageIds : \E listing \in Seq(ids) :
               HandsTo(r, user, ids, listing)
        BY <3>6 DEF StreamExtended
      <4>2. PICK listing \in Seq(ids) : HandsTo(r, user, ids, listing)
        BY <4>1
      <4>3. PICK before \in Seq(PlainLine), after \in Seq(PlainLine), stored \in BOOLEAN :
               out'[r] = Extended(out[r], before, MessageLines(listing, stored), after)
        BY <4>2 DEF HandsTo
      <4>4. \A m \in ids : [kind |-> "message", id |-> m, stored |-> stored] \in LinesFor(r)'
        BY <4>2 DEF HandsTo, LinesFor, Line, MessageLine
      <4>5. MessageLines(listing, stored) \in Seq(LinesFor(r)')
        BY <4>4, MessageElements
      <4> QED BY <3>2, <3>3, <3>4, <4>3, <4>5, StreamElements
    <3> QED BY <1>0, <3>5, <3>6, StreamSteps DEF AddressInv
  <2> QED BY <2>1, <2>2
<1> QED
  BY <1>0, <1>1 DEF AddressInv, StreamsFor

\* AddressInv holds at the start, when no stream has a line.
LEMMA AddressInit == Init => AddressInv
<1> SUFFICES ASSUME Init PROVE AddressInv
  OBVIOUS
<1>1. \A r \in Sessions : out[r] = << >> /\ writeFailed[r] = FALSE
  BY DEF Init, SessionInit
<1>2. StreamsOpen /\ StreamsFor
  BY <1>1, EmptySeq DEF StreamsOpen, StreamsFor
<1> QED
  BY <1>2, RegistryInit, IdsInit DEF AddressInv

\* A client receives only messages for users that its connection has logged in
\* as, whatever fails.
THEOREM OnlyAddresseesReceive == Spec => []StreamsReachAddressees
<1>1. AddressInv => StreamsReachAddressees
  <2> SUFFICES ASSUME AddressInv, NEW s \in Sessions, NEW i \in DOMAIN out[s],
                      out[s][i].kind = "message"
               PROVE  addressee[out[s][i].id] \in loggedInAs[s]
    BY DEF StreamsReachAddressees
  <2>1. out[s] \in Seq(LinesFor(s))
    BY DEF AddressInv, StreamsFor
  <2>2. out[s][i] \in LinesFor(s)
    BY <2>1, ElementOfSeq, LenProperties
  <2> QED BY <2>2 DEF LinesFor
<1>2. AddressInv /\ [Next]_vars => AddressInv'
  BY AddressStep
<1> QED
  BY <1>1, <1>2, AddressInit, PTL DEF Spec

-----------------------------------------------------------------------------
(* Messages are in order in the streams, while replays return and delete     *)
(* every row, no handler is cut off and the clock is not set back.          *)

InOrder == ReplaysDelete /\ "midstop" \notin Faults /\ "clock" \notin Faults

Ordered(q, to) ==
    \A i, j \in DOMAIN q :
       /\ i < j
       /\ q[i].kind = "message" /\ q[j].kind = "message"
       /\ to[q[i].id] = to[q[j].id]
       => q[i].id < q[j].id

\* What waits for a user is newer than what was handed over to it.
WaitingNewer ==
    \A u \in UserIds : \A m \in OfflineMessages(u), n \in MessageIds :
       addressee[n] = u /\ handed[n] > 0 => n < m

HandedLines ==
    {line \in Line : line.kind = "message" => line.id \in MessageIds /\ handed[line.id] > 0}

StreamsHanded == \A r \in Sessions : out[r] \in Seq(HandedLines)

OrderInv == AddressInv /\ MailboxInv /\ WaitingNewer /\ StreamsHanded /\ StreamInOrder

\* A part of an ordered sequence, and two in a row.
LEMMA OrderedTail ==
    ASSUME NEW q \in Seq(Line), q # << >>, NEW to, Ordered(q, to)
    PROVE  Ordered(Tail(q), to)
<1>1. /\ Len(q) \in Nat /\ DOMAIN q = 1 .. Len(q)
      /\ DOMAIN Tail(q) = 1 .. Len(q) - 1
      /\ \A i \in 1 .. Len(q) - 1 : Tail(q)[i] = q[i + 1]
  BY HeadTailProperties, LenProperties
<1> SUFFICES ASSUME NEW i \in 1 .. Len(q) - 1, NEW j \in 1 .. Len(q) - 1, i < j,
                    Tail(q)[i].kind = "message", Tail(q)[j].kind = "message",
                    to[Tail(q)[i].id] = to[Tail(q)[j].id]
             PROVE  Tail(q)[i].id < Tail(q)[j].id
  BY <1>1 DEF Ordered
<1>2. i + 1 \in 1 .. Len(q) /\ j + 1 \in 1 .. Len(q) /\ i + 1 < j + 1
  BY <1>1
<1>3. Tail(q)[i] = q[i + 1] /\ Tail(q)[j] = q[j + 1]
  BY <1>1
<1> QED
  BY <1>1, <1>2, <1>3 DEF Ordered

\* Two ordered streams make an ordered one if nothing in the second is older for its addressee.
LEMMA OrderedConcat ==
    ASSUME NEW p \in Seq(Line), NEW q \in Seq(Line), NEW to, Ordered(p, to), Ordered(q, to),
           \A i \in 1 .. Len(p), j \in 1 .. Len(q) :
              /\ p[i].kind = "message" /\ q[j].kind = "message"
              /\ to[p[i].id] = to[q[j].id]
              => p[i].id < q[j].id
    PROVE  Ordered(p \o q, to)
<1> DEFINE pq == p \o q
<1>1. /\ Len(p) \in Nat /\ Len(q) \in Nat
      /\ DOMAIN p = 1 .. Len(p) /\ DOMAIN q = 1 .. Len(q)
      /\ DOMAIN pq = 1 .. Len(p) + Len(q)
      /\ \A i \in 1 .. Len(p) + Len(q) :
            pq[i] = IF i <= Len(p) THEN p[i] ELSE q[i - Len(p)]
  BY ConcatProperties, LenProperties
<1> HIDE DEF pq
<1>2. SUFFICES ASSUME NEW i \in 1 .. Len(p) + Len(q), NEW j \in 1 .. Len(p) + Len(q), i < j,
                      pq[i].kind = "message", pq[j].kind = "message", to[pq[i].id] = to[pq[j].id]
               PROVE  pq[i].id < pq[j].id
  BY <1>1 DEF Ordered, pq
<1>3. CASE j <= Len(p)
  <2>1. i \in 1 .. Len(p) /\ j \in 1 .. Len(p) /\ pq[i] = p[i] /\ pq[j] = p[j]
    BY <1>1, <1>2, <1>3
  <2> QED BY <1>1, <1>2, <2>1 DEF Ordered
<1>4. CASE i <= Len(p) /\ j > Len(p)
  <2>1. i \in 1 .. Len(p) /\ j - Len(p) \in 1 .. Len(q) /\ pq[i] = p[i] /\ pq[j] = q[j - Len(p)]
    BY <1>1, <1>4
  <2> QED BY <1>2, <2>1
<1>5. CASE i > Len(p)
  <2>1. /\ i - Len(p) \in 1 .. Len(q) /\ j - Len(p) \in 1 .. Len(q) /\ i - Len(p) < j - Len(p)
        /\ pq[i] = q[i - Len(p)] /\ pq[j] = q[j - Len(p)]
    BY <1>1, <1>2, <1>5
  <2> QED BY <1>1, <1>2, <2>1 DEF Ordered
<1> QED
  BY <1>1, <1>3, <1>4, <1>5

\* Plain lines do not matter.
LEMMA OrderedPlain ==
    ASSUME NEW p \in Seq(Line), NEW q \in Seq(PlainLine), NEW to, Ordered(p, to)
    PROVE  Ordered(p \o q, to) /\ p \o q \in Seq(Line)
<1>1. q \in Seq(Line)
  BY PlainIsLine, SeqMonotonic
<1>2. DOMAIN q = 1 .. Len(q) /\ \A j \in 1 .. Len(q) : q[j].kind # "message"
  <2>1. DOMAIN q = 1 .. Len(q) /\ \A j \in 1 .. Len(q) : q[j] \in PlainLine
    BY LenProperties, ElementOfSeq
  <2>2. \A line \in PlainLine : line.kind # "message"
    BY DEF PlainLine, ResponseLine, TypingLine
  <2> QED BY <2>1, <2>2
<1>3. Ordered(q, to)
  BY <1>2 DEF Ordered
<1>4. Ordered(p \o q, to)
  BY <1>1, <1>2, <1>3, OrderedConcat
<1> QED
  BY <1>1, <1>4, ConcatProperties

\* Messages behind a stream whose messages are older.
LEMMA OrderedMessages ==
    ASSUME NEW p \in Seq(Line), NEW to, Ordered(p, to),
           NEW ids \in SUBSET MessageIds, NEW listing \in Seq(ids), NEW stored \in BOOLEAN,
           Increasing(listing),
           \A i \in 1 .. Len(p), m \in ids :
              p[i].kind = "message" /\ to[p[i].id] = to[m] => p[i].id < m
    PROVE  /\ Ordered(p \o MessageLines(listing, stored), to)
           /\ p \o MessageLines(listing, stored) \in Seq(Line)
<1> DEFINE q == MessageLines(listing, stored)
<1>1. q \in Seq(Line)
  BY LinesType
<1>2. DOMAIN listing = 1 .. Len(listing) /\ Len(listing) \in Nat
         /\ \A j \in 1 .. Len(listing) : listing[j] \in ids
  BY LenProperties, ElementOfSeq
<1>3. \A j \in DOMAIN q : j \in DOMAIN listing /\ q[j].id = listing[j]
  BY <1>2 DEF MessageLines, Kept
<1>4. DOMAIN q = 1 .. Len(q)
  BY <1>1, LenProperties
<1> HIDE DEF q
<1>5. Ordered(q, to)
  BY <1>3 DEF Ordered, Increasing
<1>6. \A i \in 1 .. Len(p), j \in 1 .. Len(q) :
         p[i].kind = "message" /\ to[p[i].id] = to[q[j].id] => p[i].id < q[j].id
  BY <1>2, <1>3, <1>4
<1>7. Ordered(p \o q, to)
  BY <1>1, <1>5, <1>6, OrderedConcat
<1> QED
  BY <1>1, <1>7, ConcatProperties DEF q

\* What was handed over stays so.
LEMMA HandedKept ==
    ASSUME TypeOK, IdsInv, [Next]_vars, NEW m \in MessageIds, handed[m] > 0
    PROVE  /\ handed'[m] > 0
           /\ m <= lastMessageId /\ addressee[m] \in UserIds /\ addressee'[m] = addressee[m]
<1>1. m <= lastMessageId /\ addressee[m] \in UserIds /\ addressee[m] # 0
  BY DEF IdsInv, TypeOK, DatabaseTypes, MessageIds, UserIds
<1>2. addressee'[m] = addressee[m]
  BY <1>1, AddresseeKept
<1>3. handed'[m] > 0
  <2>1. ASSUME NEW user \in UserIds, StoresOnline(user) PROVE handed'[m] > 0
    <3>1. {NextMessageId} \in SUBSET MessageIds
      BY <2>1 DEF StoresOnline, StoresRow
    <3> QED BY <2>1, <3>1, HandedEffect DEF StoresOnline
  <2> QED
    BY <2>1, HandedEffect, MessageEffects DEF StoresOffline, StopsAfterStore, Replays,
       StopsAfterReplay, MessagesKept
<1> QED
  BY <1>1, <1>2, <1>3

\* The waiting messages stay the newer ones.
LEMMA WaitingStep ==
    ASSUME InOrder, MailboxInv, WaitingNewer, [Next]_vars
    PROVE  WaitingNewer'
<1>0. TypeOK /\ IdsInv /\ NothingWaitsForOnlineUser
  BY DEF MailboxInv
<1>1. ASSUME NEW user \in UserIds, StoresOnline(user) PROVE WaitingNewer'
  <2>1. /\ NextMessageId \in MessageIds /\ addressee'[NextMessageId] = user
        /\ \A u \in UserIds : NextMessageId \notin OfflineMessages(u)'
        /\ \A m \in MessageIds : m # NextMessageId =>
              /\ addressee'[m] = addressee[m]
              /\ \A u \in UserIds : m \in OfflineMessages(u)' <=> m \in OfflineMessages(u)
    BY <1>0, <1>1, StoreWaiting DEF StoresOnline
  <2>2. \A m \in MessageIds : m # NextMessageId => handed'[m] = handed[m]
    <3>1. {NextMessageId} \in SUBSET MessageIds
      BY <2>1
    <3> QED BY <1>0, <1>1, <3>1, HandedEffect DEF StoresOnline
  <2>3. SUFFICES ASSUME NEW u \in UserIds, NEW m \in OfflineMessages(u)', NEW n \in MessageIds,
                        addressee'[n] = u, handed'[n] > 0
                 PROVE  n < m
    BY DEF WaitingNewer
  <2>4. m \in MessageIds /\ m \in OfflineMessages(u)
    BY <2>1, <2>3, OfflineAreIds
  <2>5. u # user
    BY <1>0, <1>1, <2>4 DEF NothingWaitsForOnlineUser, StoresOnline
  <2>6. n # NextMessageId
    BY <2>1, <2>3, <2>5
  <2> QED BY <2>1, <2>2, <2>3, <2>4, <2>6 DEF WaitingNewer
<1>2. ASSUME NEW user \in UserIds, StoresOffline(user) PROVE WaitingNewer'
  <2>1. /\ NextMessageId \in MessageIds /\ NextMessageId > lastMessageId
        /\ \A m \in MessageIds : m # NextMessageId =>
              /\ addressee'[m] = addressee[m]
              /\ \A u \in UserIds : m \in OfflineMessages(u)' <=> m \in OfflineMessages(u)
    BY <1>0, <1>2, StoreWaiting DEF StoresOffline
  <2>2. SUFFICES ASSUME NEW u \in UserIds, NEW m \in OfflineMessages(u)', NEW n \in MessageIds,
                        addressee'[n] = u, handed'[n] > 0
                 PROVE  n < m
    BY DEF WaitingNewer
  <2>3. handed[n] > 0 /\ m \in MessageIds
    BY <1>2, <2>2, OfflineAreIds DEF StoresOffline
  <2>4. n <= lastMessageId /\ addressee'[n] = addressee[n]
    BY <1>0, <2>3, HandedKept
  <2>5. CASE m = NextMessageId
    BY <1>0, <2>1, <2>4, <2>5 DEF TypeOK, DatabaseTypes, MessageIds, NextMessageId
  <2>6. CASE m # NextMessageId
    BY <2>1, <2>2, <2>3, <2>4, <2>6 DEF WaitingNewer
  <2> QED BY <2>5, <2>6
<1>3. ASSUME NEW user \in UserIds, NEW scan \in SUBSET MessageIds, Replays(user, scan)
      PROVE  WaitingNewer'
  <2>1. /\ OfflineMessages(user)' = {}
        /\ \A u \in UserIds : u # user => OfflineMessages(u)' = OfflineMessages(u)
    BY <1>0, <1>3, ReplayEmpties DEF InOrder
  <2>2. SUFFICES ASSUME NEW u \in UserIds, NEW m \in OfflineMessages(u)', NEW n \in MessageIds,
                        addressee'[n] = u, handed'[n] > 0
                 PROVE  n < m
    BY DEF WaitingNewer
  <2>3. u # user /\ m \in OfflineMessages(u) /\ addressee[n] = u
    BY <1>3, <2>1, <2>2 DEF Replays
  <2>4. n \notin scan
    BY <1>0, <1>3, <2>3 DEF Replays, OfflineMessages, IdsInv
  <2>5. handed[n] > 0
    BY <1>0, <1>3, <2>2, <2>4, HandedEffect DEF Replays
  <2> QED BY <2>3, <2>5 DEF WaitingNewer
<1>4. ASSUME MessagesKept PROVE WaitingNewer'
  BY <1>4 DEF MessagesKept, WaitingNewer, OfflineMessages
<1> QED
  BY <1>0, <1>1, <1>2, <1>3, <1>4, MessageEffects
     DEF InOrder, StopsAfterStore, StopsAfterReplay

\* Every message in a stream was handed over.
LEMMA HandedStep ==
    ASSUME OrderInv, [Next]_vars
    PROVE  StreamsHanded'
<1>0. TypeOK /\ IdsInv
  BY DEF OrderInv, MailboxInv
<1>1. HandedLines \subseteq HandedLines'
  BY <1>0, HandedKept DEF HandedLines
<1>2. /\ HandedLines \subseteq Line /\ HandedLines' \subseteq Line
      /\ PlainLine \subseteq HandedLines'
  BY DEF HandedLines, PlainLine, Line, ResponseLine, TypingLine
<1>3. ASSUME NEW r \in Sessions PROVE out'[r] \in Seq(HandedLines')
  <2>1. out[r] \in Seq(HandedLines)
    BY DEF OrderInv, StreamsHanded
  <2>2. CASE StreamKept(r)
    BY <1>1, <1>2, <2>1, <2>2, StreamElements
  <2>3. CASE StreamExtended(r)
    <3>1. PICK user \in UserIds, ids \in SUBSET MessageIds : \E listing \in Seq(ids) :
             HandsTo(r, user, ids, listing)
      BY <2>3 DEF StreamExtended
    <3>2. PICK listing \in Seq(ids) : HandsTo(r, user, ids, listing)
      BY <3>1
    <3>3. PICK before \in Seq(PlainLine), after \in Seq(PlainLine), stored \in BOOLEAN :
             out'[r] = Extended(out[r], before, MessageLines(listing, stored), after)
      BY <3>2 DEF HandsTo
    <3>4. \A m \in ids : handed'[m] > 0
      BY <1>0, <3>2, HandedEffect DEF HandsTo
    <3>5. \A m \in ids : [kind |-> "message", id |-> m, stored |-> stored] \in HandedLines'
      BY <3>4 DEF HandedLines, Line, MessageLine
    <3>6. MessageLines(listing, stored) \in Seq(HandedLines')
      BY <3>5, MessageElements
    <3> QED BY <1>1, <1>2, <2>1, <3>3, <3>6, StreamElements
  <2> QED BY <1>0, <2>2, <2>3, StreamSteps DEF OrderInv, AddressInv
<1> QED
  BY <1>3 DEF StreamsHanded

\* Each stream stays in order.
LEMMA InOrderStep ==
    ASSUME InOrder, OrderInv, [Next]_vars
    PROVE  StreamInOrder'
<1>0. TypeOK /\ IdsInv /\ RegistryInv /\ WaitingNewer
  BY DEF OrderInv, MailboxInv, AddressInv
<1>1. ASSUME NEW r \in Sessions PROVE Ordered(out'[r], addressee')
  <2>1. out[r] \in Seq(HandedLines) /\ out[r] \in Seq(Line)
    BY <1>0 DEF OrderInv, StreamsHanded, TypeOK, StreamTypes
  <2>2. DOMAIN out[r] = 1 .. Len(out[r])
           /\ \A i \in 1 .. Len(out[r]) : out[r][i] \in HandedLines
    BY <2>1, LenProperties, ElementOfSeq
  <2>3. \A i \in DOMAIN out[r] : out[r][i].kind = "message" =>
           addressee'[out[r][i].id] = addressee[out[r][i].id]
    BY <1>0, <2>2, HandedKept DEF HandedLines
  <2>4. Ordered(out[r], addressee')
    BY <2>3 DEF OrderInv, StreamInOrder, Ordered
  <2>5. CASE StreamKept(r)
    <3>1. Ordered(<< >>, addressee')
      BY DEF Ordered
    <3>2. ASSUME NEW lines \in Seq(PlainLine) PROVE Ordered(out[r] \o lines, addressee')
      BY <2>1, <2>4, OrderedPlain
    <3>3. out[r] # << >> => Ordered(Tail(out[r]), addressee')
      BY <2>1, <2>4, OrderedTail
    <3> QED BY <2>4, <2>5, <3>1, <3>2, <3>3 DEF StreamKept
  <2>6. CASE StreamExtended(r)
    <3>1. PICK user \in UserIds, ids \in SUBSET MessageIds : \E listing \in Seq(ids) :
             HandsTo(r, user, ids, listing)
      BY <2>6 DEF StreamExtended
    <3>2. PICK listing \in Seq(ids) : HandsTo(r, user, ids, listing)
      BY <3>1
    <3>3. PICK before \in Seq(PlainLine), after \in Seq(PlainLine), stored \in BOOLEAN :
             out'[r] = Extended(out[r], before, MessageLines(listing, stored), after)
      BY <3>2 DEF HandsTo
    <3> DEFINE p == out[r] \o before
    <3>4. Ordered(p, addressee') /\ p \in Seq(Line)
      BY <2>1, <2>4, OrderedPlain
    <3>5. p \in Seq(HandedLines)
      <4>1. PlainLine \subseteq HandedLines
        BY DEF HandedLines, PlainLine, Line, ResponseLine, TypingLine
      <4>2. before \in Seq(HandedLines)
        BY <4>1, SeqMonotonic
      <4> QED BY <2>1, <4>2, ConcatProperties
    <3> HIDE DEF p
    <3>6. \A i \in 1 .. Len(p) : p[i] \in HandedLines
      BY <3>5, ElementOfSeq
    <3>7. ASSUME NEW line \in HandedLines, NEW m \in ids, line.kind = "message",
                 addressee'[line.id] = addressee'[m]
          PROVE  line.id < m
      <4>1. line.id \in MessageIds /\ handed[line.id] > 0
        BY <3>7 DEF HandedLines
      <4>2. line.id <= lastMessageId /\ addressee[line.id] = addressee'[line.id]
        BY <1>0, <4>1, HandedKept
      <4>3. addressee'[m] = user
        BY <3>2 DEF HandsTo
      <4>4. CASE ids = {NextMessageId}
        BY <1>0, <4>1, <4>2, <4>4 DEF NextMessageId, TypeOK, DatabaseTypes, MessageIds
      <4>5. CASE ids \subseteq OfflineMessages(user)
        BY <1>0, <3>7, <4>1, <4>2, <4>3, <4>5 DEF WaitingNewer
      <4> QED BY <3>2, <4>4, <4>5 DEF HandsTo
    <3>8. Increasing(listing)
      BY <3>2 DEF HandsTo, InOrder
    <3>9. /\ Ordered(p \o MessageLines(listing, stored), addressee')
          /\ p \o MessageLines(listing, stored) \in Seq(Line)
      BY <3>4, <3>6, <3>7, <3>8, OrderedMessages
    <3>10. Ordered((p \o MessageLines(listing, stored)) \o after, addressee')
      BY <3>9, OrderedPlain
    <3> QED BY <3>3, <3>10 DEF p, Extended
  <2> QED BY <1>0, <2>5, <2>6, StreamSteps
<1> QED
  BY <1>1 DEF StreamInOrder, Ordered

\* The messages for one user are in the stream to its client in the order in
\* which they were stored.
THEOREM StreamsKeepOrder ==
    ASSUME InOrder
    PROVE  Spec => []StreamInOrder
<1>1. Init => OrderInv
  <2> SUFFICES ASSUME Init PROVE OrderInv
    OBVIOUS
  <2>1. WaitingNewer
    BY DEF Init, DatabaseInit, WaitingNewer, OfflineMessages
  <2>2. StreamsHanded /\ StreamInOrder
    BY EmptySeq DEF Init, SessionInit, StreamsHanded, StreamInOrder
  <2> QED BY <2>1, <2>2, AddressInit, MailboxInit DEF OrderInv
<1>2. ASSUME OrderInv, [Next]_vars PROVE OrderInv'
  <2>1. AddressInv' /\ MailboxInv'
    BY <1>2, AddressStep, MailboxStep DEF OrderInv, InOrder
  <2>2. WaitingNewer'
    BY <1>2, WaitingStep DEF OrderInv
  <2> QED BY <1>2, <2>1, <2>2, HandedStep, InOrderStep DEF OrderInv
<1>3. OrderInv => StreamInOrder
  BY DEF OrderInv
<1> QED
  BY <1>1, <1>2, <1>3, PTL DEF Spec

=============================================================================
