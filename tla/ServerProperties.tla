-------------------------- MODULE ServerProperties --------------------------
(***************************************************************************)
(* What the server guarantees, as properties of MessengerServer.  Where a  *)
(* guarantee depends on a call that never fails, it says so by the set of  *)
(* Faults under which it is claimed.                                       *)
(***************************************************************************)
EXTENDS MessengerServer

DatabaseTypes ==
    /\ users \in Seq(UserRow)
    /\ Len(users) <= MaxUsers
    /\ messages \in [MessageIds -> MessageRow \cup {NoRow}]
    /\ lastMessageId \in 0 .. MaxMessages

RegistryTypes ==
    /\ activeSessions \in [UserIds -> Sessions \cup {NoSession}]
    /\ userIdToUsername \in [UserIds -> Names \cup {NoName}]

SessionTypes ==
    /\ phase \in [Sessions -> {"free", "open", "closed"}]
    /\ authenticated \in [Sessions -> BOOLEAN]
    /\ userId \in [Sessions -> UserIds \cup {NoUserId}]
    /\ username \in [Sessions -> Names \cup {NoName}]
    /\ \A s \in Sessions : authenticated[s] => username[s] \in Names

StreamTypes ==
    /\ link \in [Sessions -> {"none", "up", "down"}]
    /\ unread \in [Sessions -> Nat]
    /\ writeFailed \in [Sessions -> BOOLEAN]
    /\ out \in [Sessions -> Seq(Line)]

HistoryTypes ==
    /\ addressee \in [MessageIds -> UserIds \cup {0}]
    /\ handed \in [MessageIds -> 0 .. 2]
    /\ loggedInAs \in [Sessions -> SUBSET UserIds]

\* Every variable has its type.  An authenticated session has a username: it is
\* what a typing notice is sent from.
TypeOK ==
    /\ DatabaseTypes
    /\ RegistryTypes
    /\ SessionTypes
    /\ StreamTypes
    /\ HistoryTypes

-----------------------------------------------------------------------------
(* The registry: active_sessions_ and user_id_to_username_ are two maps,    *)
(* changed by addSession and removeSession from handlers of many sessions.  *)

\* The two maps have the same keys; a registered user exists under the name the
\* registry holds, and its session is alive and has logged in as that user.
RegistryAgrees ==
    \A u \in UserIds :
       /\ IsSessionActive(u) <=> userIdToUsername[u] # NoName
       /\ IsSessionActive(u) =>
             /\ u \in GetUser(userIdToUsername[u])
             /\ phase[activeSessions[u]] # "free"
             /\ authenticated[activeSessions[u]]
             /\ u \in loggedInAs[activeSessions[u]]

\* getSessionByUsername (typing notices) never finds another session than
\* getUser followed by getSession (messages) does, and never more than one.
TypingFollowsMessages ==
    \A name \in Names :
       /\ SessionByUsername(name) \subseteq {activeSessions[u] : u \in GetUser(name)}
       /\ \A u, v \in UserIds :
             userIdToUsername[u] = name /\ userIdToUsername[v] = name => u = v

-----------------------------------------------------------------------------
(* Storing and forwarding: routeMessage decides between the table and the   *)
(* stream by the registry, sendStoredMessages empties the table on login.   *)

\* A user with an active session has no message waiting in the table: else a
\* later message would overtake it and it would stay until the next login.
NothingWaitsForOnlineUser ==
    \A u \in UserIds : IsSessionActive(u) => OfflineMessages(u) = {}

\* A stored message that was never passed to a session is still in the table,
\* undelivered and for its addressee, whatever connections and restarts do.
StoredMessagesAccounted ==
    \A m \in MessageIds :
       addressee[m] # 0 /\ handed[m] = 0 => m \in OfflineMessages(addressee[m])

\* No message is passed to a session twice.
HandedAtMostOnce == \A m \in MessageIds : handed[m] <= 1

\* The messages for a user are passed to its sessions in the order in which
\* they were stored.
HandedInOrder ==
    \A m, n \in MessageIds :
       /\ m < n
       /\ addressee[m] # 0 /\ addressee[m] = addressee[n]
       /\ handed[n] > 0
       => handed[m] > 0

\* In the stream to a client the messages for one user are in that order too.
StreamInOrder ==
    \A s \in Sessions : \A i, j \in DOMAIN out[s] :
       /\ i < j
       /\ out[s][i].kind = "message" /\ out[s][j].kind = "message"
       /\ addressee[out[s][i].id] = addressee[out[s][j].id]
       => out[s][i].id < out[s][j].id

\* A client receives only messages for users its connection has logged in as.
StreamsReachAddressees ==
    \A s \in Sessions : \A i \in DOMAIN out[s] :
       out[s][i].kind = "message" => addressee[out[s][i].id] \in loggedInAs[s]

\* Every message row refers to existing users.  The FOREIGN KEY clauses do not
\* enforce it: no PRAGMA foreign_keys turns them on.
RowsReferToUsers ==
    \A m \in MessageIds :
       messages[m] # NoRow =>
          {messages[m].sender, messages[m].receiver} \subseteq 1 .. Len(users)

\* A row that is undelivered before the step and gone after it belongs to a
\* message that has been passed to a session.
RowsLeaveHandedOver ==
    \A m \in MessageIds :
       /\ addressee[m] # 0 /\ m \in OfflineMessages(addressee[m])
       /\ messages'[m] = NoRow
       => handed'[m] > 0

\* An undelivered row leaves the table only when its message has been passed
\* to a session, even if the process ends in the middle of a replay or the
\* DELETE fails: at-least-once for stored messages.
OfflineAtLeastOnce == [][RowsLeaveHandedOver]_vars

-----------------------------------------------------------------------------
\* A session whose connection is lost is closed in the end, whatever requests
\* are still queued.
LostSessionsClose ==
    \A s \in Sessions : link[s] = "down" ~> phase[s] # "open"

-----------------------------------------------------------------------------
(* The server as an implementation of the mailboxes: a user is present while *)
(* it has an active session, and what waits is its undelivered rows.         *)
Mail == INSTANCE Mailbox WITH
    Users     <- UserIds,
    Messages  <- MessageIds,
    present   <- {u \in UserIds : IsSessionActive(u)},
    waiting   <- [u \in UserIds |-> OfflineMessages(u)],
    handovers <- handed,
    posted    <- lastMessageId

\* Every step of the server is a step of the mailboxes or leaves them alone.
ImplementsMailbox == Mail!MailboxSpec
=============================================================================
