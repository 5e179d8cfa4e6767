------------------------------- MODULE Router -------------------------------
(***************************************************************************)
(* server/router.cpp: what a message or a typing notice does to the tables *)
(* and to the receiver's stream, and the replay of stored messages.        *)
(*                                                                         *)
(* Three history variables record what the tables forget; no action of the *)
(* server reads them.                                                      *)
(*   addressee[m]   the receiver of message m, 0 if m was never stored     *)
(*   handed[m]      how often m was passed to Session::send (capped at 2)  *)
(*   loggedInAs[s]  the users session s has logged in as                   *)
(***************************************************************************)
EXTENDS Session

VARIABLES addressee, handed, loggedInAs

historyVars == <<addressee, handed, loggedInAs>>

RouterInit ==
    /\ addressee = [m \in MessageIds |-> 0]
    /\ handed = [m \in MessageIds |-> 0]
    /\ loggedInAs = [s \in Sessions |-> {}]

Once(n) == IF n < 2 THEN n + 1 ELSE 2

HandedOver(ids) ==
    handed' = [m \in MessageIds |-> IF m \in ids THEN Once(handed[m]) ELSE handed[m]]

Stored(receiver) == addressee' = [addressee EXCEPT ![NextMessageId] = receiver]

-----------------------------------------------------------------------------
\* Slip: the message is sent to the session it came from.
DeliverOnlineSlip(s, user, reply) ==
    /\ activeSessions[user] # NoSession
    /\ StoreMessage(userId[s], user, TRUE)
    /\ Send(s, MessageLines(<<NextMessageId>>, FALSE) \o reply)
    /\ Stored(user)
    /\ HandedOver({NextMessageId})

\* deliverMessage to a user with an active session r: the row is written as
\* delivered, then the message is sent to r.  reply is the response that the
\* calling handler sends afterwards to its own session s.
DeliverOnline(s, user, reply) ==
    LET r == activeSessions[user] IN
    /\ r # NoSession
    /\ StoreMessage(userId[s], user, TRUE)
    /\ SendThenSend(r, MessageLines(<<NextMessageId>>, FALSE), s, reply)
    /\ Stored(user)
    /\ HandedOver({NextMessageId})

\* Slip: is_delivered is passed as true here, too.
StoreOfflineSlip(s, user, reply) ==
    /\ activeSessions[user] = NoSession
    /\ StoreMessage(userId[s], user, TRUE)
    /\ Send(s, reply)
    /\ Stored(user)
    /\ UNCHANGED handed

\* deliverMessage to a user without an active session.
StoreOffline(s, user, reply) ==
    /\ activeSessions[user] = NoSession
    /\ StoreMessage(userId[s], user, FALSE)
    /\ Send(s, reply)
    /\ Stored(user)
    /\ UNCHANGED handed

\* deliverMessage gives up: no such user, or storeMessage failed.  It only logs,
\* so the handler goes on as if it had succeeded.
Dropped(name) ==
    \/ GetUser(name) = {}
    \/ Faults \cap {"select", "store"} # {}

\* Slip: the rows are not deleted.
SendWithoutDeleteSlip(s, user, reply) ==
    \E scan \in OfflineScans(user) : \E listing \in Listings(scan) :
        /\ Send(s, reply \o MessageLines(listing, TRUE))
        /\ HandedOver(scan)
        /\ UNCHANGED dbVars

\* Slip: the loop over the rows starts at the second one.
SendFromSecondSlip(s, user, reply) ==
    LET sent == {m \in OfflineMessages(user) : \E k \in OfflineMessages(user) : k < m}
    IN \E listing \in Listings(sent) :
          /\ Send(s, reply \o MessageLines(listing, TRUE))
          /\ HandedOver(sent)
          /\ DeleteOfflineMessages(user)

\* sendStoredMessages after the response to the login: every row the SELECT
\* returned is sent, then all undelivered rows of the user are deleted.
SendStoredMessages(s, user, reply) ==
    \E scan \in OfflineScans(user) : \E listing \in Listings(scan) :
        /\ Send(s, reply \o MessageLines(listing, TRUE))
        /\ HandedOver(scan)
        /\ \/ scan # {} /\ DeleteOfflineMessages(user)
           \/ scan = {} /\ UNCHANGED dbVars
           \/ "delete" \in Faults /\ UNCHANGED dbVars

\* sendTypingStatus to the session found by username, if there is one.
SendTypingStatus(from, name, is_typing) ==
    \/ \E r \in SessionByUsername(name) : Send(r, Typing(from, is_typing))
    \/ SessionByUsername(name) = {} /\ NothingSent
=============================================================================
