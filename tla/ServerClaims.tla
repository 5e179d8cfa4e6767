----------------------------- MODULE ServerClaims -----------------------------
(***************************************************************************)
(* What comments and messages of the server say of it, and what it does not *)
(* do.  Each is checked by a run that shows a counterexample.               *)
(***************************************************************************)
EXTENDS ServerProperties

\* session.cpp:52, above the call of removeSessionFromManager in close(): "we
\* remove the session from UserManager if the user was authenticated".  Closing
\* a session would leave the registrations of other sessions alone.
ClosingRemovesOwnSession ==
    [][\A s \in Sessions : phase[s] = "open" /\ phase'[s] = "closed" =>
          \A u \in UserIds :
             activeSessions[u] # s => activeSessions'[u] = activeSessions[u]]_vars

\* router.cpp:152, above deleteOfflineMessages: "we delete the delivered
\* messages".  A row that goes would at least be in a client's stream.
DeletedMessagesWereDelivered ==
    [][\A m \in MessageIds :
          messages[m] # NoRow /\ messages'[m] = NoRow =>
             \E s \in Sessions : \E i \in DOMAIN out'[s] :
                out'[s][i].kind = "message" /\ out'[s][i].id = m]_vars
=============================================================================
