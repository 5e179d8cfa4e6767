-------------------------- MODULE ClientProperties --------------------------
(***************************************************************************)
(* What a client guarantees: whatever the server and the network do, or as *)
(* long as every answer arrives within the two seconds that performLogin    *)
(* waits for it (~late).                                                    *)
(***************************************************************************)
EXTENDS ClientUI

MainPlaces ==
    {"loop", "listen", "login menu", "login", "login sent", "register", "waiting", "main menu",
     "start chat", "leaving", "shutdown", "joining", "joining cleanup", "ended", "terminated"}

ChatPlaces == {"none", "looping", "reading", "text", "sending", "stopping", "joining", "ended"}

\* Every variable has its type.  The callbacks are set while the receiver
\* listens, and the socket is read only while it is connected.
ClientTypeOK ==
    /\ connected \in BOOLEAN /\ receiving \in BOOLEAN
    /\ callbacks \in BOOLEAN /\ listening \in BOOLEAN
    /\ listening => callbacks
    /\ receiving => connected
    /\ link \in {"none", "up", "lost", "closed"}
    /\ requests \in Seq(Request) /\ {lines, buffered} \subseteq Seq(Answer)
    /\ sent \in Nat
    /\ serverUser \in Names \cup {NoName}
    /\ state \in ClientState
    /\ {currentUsername, chatTarget, entered, shownTarget} \subseteq Names \cup {NoName}
    /\ io \in {"waiting", "logged in", "registered", "stopped"}
    /\ main \in MainPlaces /\ chat \in ChatPlaces
    /\ inChat \in BOOLEAN /\ chatRunning \in BOOLEAN
    /\ cleanupRunning \in BOOLEAN /\ cleanup \in {"none", "running", "ended"}
    /\ late \in BOOLEAN

-----------------------------------------------------------------------------
(* Whatever the timing.                                                     *)

\* The client writes a message only over a connection whose login the server
\* has accepted, although the state is set from another thread.
MessagesAfterLogin ==
    \A i \in DOMAIN requests : requests[i].type = "message" => serverUser # NoName

-----------------------------------------------------------------------------
(* While answers arrive in time.                                            *)

\* The menus and the chat thread never read the terminal at the same time.
OneReader ==
    main \in {"login menu", "main menu"} /\ chat = "reading" => late

\* In the menu and in a chat, current_username_ names the user that the server
\* has logged in: it is stored before the answer is known.
NamedAsLoggedIn ==
    state \in {"Menu", "Chatting"} /\ main # "login sent" => currentUsername = serverUser \/ late

\* What is typed in a chat goes to the partner that the screen shows: the two
\* names are kept by ClientStateMachine and ClientUI.
PartnerShown ==
    chat # "none" /\ state = "Chatting" /\ inChat => chatTarget = shownTarget \/ late

-----------------------------------------------------------------------------
(* Progress.                                                                *)

\* Once the server has accepted a login, the wait in performLogin is followed by
\* the main menu, unless the connection is lost first or an error, such as a
\* line that does not parse, has ended the listening.
LoginLeadsToMenu ==
    serverUser # NoName /\ main = "waiting"
       ~> main = "main menu" \/ link # "up" \/ ~listening \/ late

\* A program that is left comes to an end: no join waits for ever.
LeavingEnds == main = "leaving" ~> ~Alive

\* The loss of the connection is noticed by the io thread.
LossNoticed == link = "lost" ~> ~connected \/ ~Alive
=============================================================================
