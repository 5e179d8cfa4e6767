--------------------------- MODULE MessengerServer ---------------------------
(***************************************************************************)
(* The server process: server/server.cpp accepts connections, and           *)
(* server/json_parser.cpp turns each request line into calls of UserManager *)
(* and Router.  One thread runs the io_context, so a handler is one step;   *)
(* peers, the network and the end of the process come between handlers, and *)
(* with the fault "midstop" the process may also end inside one.            *)
(*                                                                         *)
(* A request is any line a client can send: its fields are chosen when the  *)
(* line is handled.                                                        *)
(***************************************************************************)
EXTENDS Router

vars == <<dbVars, registryVars, phase, accountVars, streamVars, historyVars>>

Init ==
    /\ DatabaseInit
    /\ UserManagerInit
    /\ SessionInit
    /\ RouterInit

-----------------------------------------------------------------------------
\* do_accept: a connection is given a session.
Accept(s) ==
    /\ Construct(s)
    /\ UNCHANGED <<dbVars, registryVars, historyVars>>

\* handleRegister, with each outcome of registerUser.
Register(s) ==
    /\ ReadHandled(s)
    /\ \E name \in Names, email \in Emails, password \in Passwords :
          RegisterUser(name, email, password)
    /\ Send(s, Response("register", TRUE))
    /\ UNCHANGED <<registryVars, accountVars, historyVars>>

RegisterFails(s) ==
    /\ ReadHandled(s)
    /\ \E name \in Names, email \in Emails : RegistrationFails(name, email)
    /\ Send(s, Response("register", FALSE))
    /\ UNCHANGED <<dbVars, registryVars, accountVars, historyVars>>

\* Slip: the registry is given the name the session had before.
LogInSlip(s, user, name) ==
    /\ SetAuthenticated(s, user, name)
    /\ AddSession(user, username[s], s)
    /\ loggedInAs' = [loggedInAs EXCEPT ![s] = @ \cup {user}]

\* handleLogin, with each outcome of authenticateUser.  A session that is
\* logged in already, or closed, is treated like any other.
LogIn(s, user, name) ==
    /\ SetAuthenticated(s, user, name)
    /\ AddSession(user, name, s)
    /\ loggedInAs' = [loggedInAs EXCEPT ![s] = @ \cup {user}]

Login(s) ==
    /\ ReadHandled(s)
    /\ \E name \in Names, password \in Passwords :
       \E user \in Authenticated(name, password) :
          /\ LogIn(s, user, name)
          /\ SendStoredMessages(s, user, Response("login", TRUE))
    /\ UNCHANGED addressee

LoginFails(s) ==
    /\ ReadHandled(s)
    /\ \/ \E name \in Names, password \in Passwords : Authenticated(name, password) = {}
       \/ "select" \in Faults
    /\ Send(s, Response("login", FALSE))
    /\ UNCHANGED <<dbVars, registryVars, accountVars, historyVars>>

-----------------------------------------------------------------------------
\* Slip: the check is left out.
IsSessionAuthenticatedSlip(s) == TRUE

IsSessionAuthenticated(s) == authenticated[s] /\ IsSessionActive(userId[s])

\* handleMessage from a session that is not authenticated.
RefuseMessage(s) ==
    /\ ReadHandled(s)
    /\ ~IsSessionAuthenticated(s)
    /\ Send(s, Response("message", FALSE))
    /\ UNCHANGED <<dbVars, registryVars, accountVars, historyVars>>

\* handleMessage otherwise: deliverMessage to an online or an offline user, or
\* routeMessage gives up; the response is the same.
MessageSent == Response("message", TRUE)

PostOnline(s) ==
    /\ ReadHandled(s)
    /\ IsSessionAuthenticated(s)
    /\ \E name \in Names : \E user \in GetUser(name) : DeliverOnline(s, user, MessageSent)
    /\ UNCHANGED <<registryVars, accountVars, loggedInAs>>

PostOffline(s) ==
    /\ ReadHandled(s)
    /\ IsSessionAuthenticated(s)
    /\ \E name \in Names : \E user \in GetUser(name) : StoreOffline(s, user, MessageSent)
    /\ UNCHANGED <<registryVars, accountVars, loggedInAs>>

PostDropped(s) ==
    /\ ReadHandled(s)
    /\ IsSessionAuthenticated(s)
    /\ \E name \in Names : Dropped(name)
    /\ Send(s, MessageSent)
    /\ UNCHANGED <<dbVars, registryVars, accountVars, historyVars>>

\* "to" or "content" is not a string: the exception is caught in routeMessage or
\* deliverMessage, and the response is again the same.
PostMistyped(s) ==
    /\ ReadHandled(s)
    /\ IsSessionAuthenticated(s)
    /\ Send(s, MessageSent)
    /\ UNCHANGED <<dbVars, registryVars, accountVars, historyVars>>

\* handleTyping, and the typing requests it ignores.
NotifyTyping(s) ==
    /\ ReadHandled(s)
    /\ IsSessionAuthenticated(s)
    /\ \E name \in Names, is_typing \in BOOLEAN :
          SendTypingStatus(username[s], name, is_typing)
    /\ UNCHANGED <<dbVars, registryVars, accountVars, historyVars>>

IgnoreTyping(s) ==
    /\ ReadHandled(s)
    /\ NothingSent
    /\ UNCHANGED <<dbVars, registryVars, accountVars, historyVars>>

\* A line that is no JSON object or has no known type, a request with a field
\* missing, or a register or login request with a field that is not a string.
Malformed(s) ==
    /\ ReadHandled(s)
    /\ \E type \in {"error", "register", "login", "message"} :
          Send(s, Response(type, FALSE))
    /\ UNCHANGED <<dbVars, registryVars, accountVars, historyVars>>

-----------------------------------------------------------------------------
SessionReadError(s)  == ReadError(s)  /\ UNCHANGED historyVars
SessionWriteError(s) == WriteError(s) /\ UNCHANGED historyVars

SessionDestroyed(s) ==
    /\ Destroy(s)
    /\ loggedInAs' = [loggedInAs EXCEPT ![s] = {}]
    /\ UNCHANGED <<addressee, handed>>

\* The clients and the network.
PeerSends(s)    == PeerWrites(s) /\ UNCHANGED historyVars
PeerReceives(s) == PeerReads(s)  /\ UNCHANGED historyVars
PeerLost(s)     == LinkFails(s)  /\ UNCHANGED historyVars

-----------------------------------------------------------------------------
\* The process ends and is started again: all but the tables is gone.
VolatileLost ==
    /\ activeSessions' = EmptyRegistry
    /\ userIdToUsername' = NoUsernames
    /\ phase' = [s \in Sessions |-> "free"]
    /\ authenticated' = [s \in Sessions |-> FALSE]
    /\ userId' = [s \in Sessions |-> NoUserId]
    /\ username' = [s \in Sessions |-> NoName]
    /\ link' = [s \in Sessions |-> "none"]
    /\ unread' = [s \in Sessions |-> 0]
    /\ writeFailed' = [s \in Sessions |-> FALSE]
    /\ out' = [s \in Sessions |-> << >>]
    /\ loggedInAs' = [s \in Sessions |-> {}]

\* Between two handlers: it is killed, or do_accept's handler throws because
\* the peer of the new connection has left (remote_endpoint), which ends run().
Restart ==
    /\ "stop" \in Faults
    /\ VolatileLost
    /\ UNCHANGED <<dbVars, addressee, handed>>

\* In deliverMessage, between storeMessage and send.
StopInPost ==
    /\ "midstop" \in Faults
    /\ \E s \in Sessions, name \in Names :
          /\ unread[s] > 0 /\ IsSessionAuthenticated(s)
          /\ \E user \in GetUser(name) :
                /\ StoreMessage(userId[s], user, activeSessions[user] # NoSession)
                /\ Stored(user)
    /\ VolatileLost
    /\ UNCHANGED handed

\* Slip: the rows are deleted before the first one is sent.
StopInReplaySlip ==
    /\ "midstop" \in Faults
    /\ \E s \in Sessions, name \in Names, password \in Passwords :
          /\ unread[s] > 0
          /\ \E user \in Authenticated(name, password) : \E sent \in OfflinePrefixes(user) :
                /\ HandedOver(sent)
                /\ DeleteOfflineMessages(user)
    /\ VolatileLost
    /\ UNCHANGED addressee

\* In sendStoredMessages, after some of the rows were sent and before they are
\* deleted.
StopInReplay ==
    /\ "midstop" \in Faults
    /\ \E s \in Sessions, name \in Names, password \in Passwords :
          /\ unread[s] > 0
          /\ \E user \in Authenticated(name, password) : \E sent \in OfflinePrefixes(user) :
                HandedOver(sent)
    /\ VolatileLost
    /\ UNCHANGED <<dbVars, addressee>>

-----------------------------------------------------------------------------
\* The handler of a read that completed with data.
HandleRequest(s) ==
    \/ Register(s) \/ RegisterFails(s)
    \/ Login(s) \/ LoginFails(s)
    \/ RefuseMessage(s) \/ PostOnline(s) \/ PostOffline(s) \/ PostDropped(s)
    \/ PostMistyped(s)
    \/ NotifyTyping(s) \/ IgnoreTyping(s)
    \/ Malformed(s)

Next ==
    \/ \E s \in Sessions :
          \/ Accept(s)
          \/ HandleRequest(s)
          \/ SessionReadError(s) \/ SessionWriteError(s) \/ SessionDestroyed(s)
          \/ PeerSends(s) \/ PeerReceives(s) \/ PeerLost(s)
    \/ Restart
    \/ StopInPost
    \/ StopInReplay

Spec == Init /\ [][Next]_vars

\* io_context.run() calls every queued handler in the end; the kernel reports
\* the end of a connection to a pending read.  Clients and write errors are
\* under no obligation.
FairSpec ==
    /\ Spec
    /\ \A s \in Sessions :
          /\ WF_vars(HandleRequest(s))
          /\ WF_vars(SessionReadError(s))
          /\ WF_vars(SessionDestroyed(s))

=============================================================================
