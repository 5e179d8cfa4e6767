------------------------------ MODULE ClientUI ------------------------------
(***************************************************************************)
(* client/client_ui.cpp and client/client.cpp: the threads of a client.     *)
(*   main     the menu loop of run(), then the end of the program            *)
(*   chat     chat_thread_, which runs handleChatInput line after line       *)
(*   cleanup  typing_cleanup_thread_                                         *)
(* The io thread is in ClientStateMachine; what the chat thread and the      *)
(* timers do about typing notices, and what the cleanup thread does, is in   *)
(* Typing.                                                                   *)
(***************************************************************************)
EXTENDS ClientStateMachine

VARIABLES
    main,            \* where the main thread is
    entered,         \* the name entered at a prompt
    inChat,          \* in_chat_mode_
    chatRunning,     \* chat_thread_running_
    shownTarget,     \* current_chat_target_
    chat,            \* where the chat thread is
    cleanupRunning,  \* typing_cleanup_running_
    cleanup,         \* the cleanup thread: none, running or ended
    late             \* history: an answer was still under way when a login's
                     \* 2 s were over

chatVars == <<inChat, chatRunning, shownTarget, chat>>
cleanupVars == <<cleanupRunning, cleanup>>
uiVars == <<main, entered, chatVars, cleanupVars, late>>
clientVars == <<connectionVars, machineVars, io, uiVars>>

ClientInit ==
    /\ ConnectionInit
    /\ MachineInit
    /\ main = "loop"
    /\ entered = NoName
    /\ inChat = FALSE /\ chatRunning = FALSE /\ shownTarget = NoName
    /\ chat = "none"
    /\ cleanupRunning = FALSE /\ cleanup = "none"
    /\ late = FALSE

Alive == main \notin {"ended", "terminated"}

-----------------------------------------------------------------------------
(* The main thread: handleUserInput reads the state, the prompts wait for   *)
(* the user, and the state machine's guards read the state again.           *)

GoTo(place) == main' = place /\ UNCHANGED <<chatVars, cleanupVars, late>>

ConnectToServer ==
    /\ main = "loop" /\ state = "Disconnected"
    /\ TryConnect
    /\ GoTo("listen")
    /\ UNCHANGED <<io, entered>>

CannotConnect ==
    /\ main = "loop" /\ state = "Disconnected" /\ "connect" \in Failures
    /\ GoTo("leaving")
    /\ UNCHANGED <<connectionVars, machineVars, io, entered>>

Listen ==
    /\ main = "listen"
    /\ StartListening
    /\ GoTo("loop")
    /\ UNCHANGED <<io, entered>>

ShowMenu ==
    /\ main = "loop"
    /\ \/ state = "AwaitingLogin" /\ GoTo("login menu")
       \/ state = "Menu"          /\ GoTo("main menu")
    /\ UNCHANGED <<connectionVars, machineVars, io, entered>>

\* Slip: the chat is opened under the user's own name.
EnterChatSlip ==
    /\ main = "loop" /\ state = "Chatting" /\ ~inChat
    /\ inChat' = TRUE /\ chatRunning' = TRUE /\ shownTarget' = currentUsername
    /\ IF chat = "none" THEN chat' = "looping" ELSE UNCHANGED chat
    /\ UNCHANGED <<connectionVars, machineVars, io, main, entered, cleanupVars, late>>

\* enterChatMode: a new chat thread, unless chat_thread_running_ is set, and a
\* new cleanup thread, unless typing_cleanup_running_ is.  Assigning a thread
\* over one that can be joined ends the process.
EnterChat ==
    /\ main = "loop" /\ state = "Chatting" /\ ~inChat
    /\ inChat' = TRUE /\ chatRunning' = TRUE /\ shownTarget' = chatTarget
    /\ IF chatRunning \/ chat # "none" THEN UNCHANGED chat ELSE chat' = "looping"
    /\ main' = IF ~chatRunning /\ chat # "none" THEN "terminated" ELSE main
    /\ cleanupRunning' = TRUE
    /\ cleanup' = IF cleanupRunning THEN cleanup ELSE "running"
    /\ UNCHANGED <<connectionVars, machineVars, io, entered, late>>

\* loginUser and registerUser after their guard: send, then store the name.
SendLogin ==
    /\ main = "login"
    /\ Send([type |-> "login", name |-> entered])
    /\ GoTo("login sent")
    /\ UNCHANGED <<machineVars, io, entered>>

\* Slip: only the first name entered is stored.
StoreNameSlip ==
    /\ main = "login sent"
    /\ currentUsername' = IF currentUsername = NoName THEN entered ELSE currentUsername
    /\ GoTo("waiting")
    /\ UNCHANGED <<connectionVars, state, chatTarget, io, entered>>

StoreName ==
    /\ main = "login sent"
    /\ currentUsername' = entered
    /\ GoTo("waiting")
    /\ UNCHANGED <<connectionVars, state, chatTarget, io, entered>>

SendRegister ==
    /\ main = "register"
    /\ Send([type |-> "register", name |-> NoName])
    /\ GoTo("waiting")
    /\ UNCHANGED <<machineVars, io, entered>>

AllAnswered ==
    requests = << >> /\ lines = << >> /\ buffered = << >> /\ io = "waiting"

\* Slip: performLogin does not wait.
WaitOverSlip ==
    /\ main = "waiting"
    /\ GoTo("loop")
    /\ UNCHANGED <<connectionVars, machineVars, io, entered>>

\* The 2 s of performLogin and performRegistration are over.
WaitOver ==
    /\ main = "waiting"
    /\ main' = "loop"
    /\ late' = (late \/ ~AllAnswered)
    /\ UNCHANGED <<connectionVars, machineVars, io, entered, chatVars, cleanupVars>>

BeginChat ==
    /\ main = "start chat"
    /\ StartChat(entered)
    /\ GoTo("loop")
    /\ UNCHANGED <<connectionVars, io, entered>>

-----------------------------------------------------------------------------
(* What the user enters at a prompt of the main thread.                     *)

\* A choice that leads back to the loop, or out of it.
ChooseOther ==
    /\ \/ main \in {"login menu", "main menu"} /\ GoTo("loop")
       \/ main = "login menu" /\ GoTo("leaving")
    /\ UNCHANGED <<connectionVars, machineVars, io, entered>>

\* performLogin, performRegistration; where the state forbids it they only wait.
ChooseLogin ==
    /\ main = "login menu" /\ sent < MaxRequests
    /\ \/ /\ entered' \in Names
          /\ GoTo(IF state = "AwaitingLogin" THEN "login" ELSE "waiting")
       \/ /\ GoTo(IF state = "AwaitingLogin" THEN "register" ELSE "waiting")
          /\ UNCHANGED entered
    /\ UNCHANGED <<connectionVars, machineVars, io>>

ChooseChat ==
    /\ main = "main menu"
    /\ entered' \in Names
    /\ GoTo(IF state = "Menu" THEN "start chat" ELSE "loop")
    /\ UNCHANGED <<connectionVars, machineVars, io>>

ChooseLogout ==
    /\ main = "main menu"
    /\ Logout
    /\ GoTo("leaving")
    /\ UNCHANGED <<io, entered>>

-----------------------------------------------------------------------------
(* The end of main(): the io thread is joined, then ~ClientUI shuts down.   *)

StopIo ==
    /\ main = "leaving" /\ io = "waiting" /\ buffered = << >>
    /\ io' = "stopped"
    /\ GoTo("shutdown")
    /\ UNCHANGED <<connectionVars, machineVars, entered>>

\* Slip: the flag is not cleared.
StopChatThreadSlip ==
    /\ main = "shutdown"
    /\ GoTo("joining")
    /\ UNCHANGED <<connectionVars, machineVars, io, entered>>

StopChatThread ==
    /\ main = "shutdown"
    /\ chatRunning' = FALSE
    /\ main' = "joining"
    /\ UNCHANGED <<connectionVars, machineVars, io, entered, inChat, shownTarget, chat, cleanupVars,
                   late>>

ChatThreadJoined ==
    /\ main = "joining" /\ chat \in {"none", "ended"}
    /\ cleanupRunning' = FALSE
    /\ main' = "joining cleanup"
    /\ UNCHANGED <<connectionVars, machineVars, io, entered, chatVars, cleanup, late>>

CleanupThreadJoined ==
    /\ main = "joining cleanup" /\ cleanup \in {"none", "ended"}
    /\ Logout
    /\ GoTo("ended")
    /\ UNCHANGED <<io, entered>>

-----------------------------------------------------------------------------
(* The chat thread and the cleanup thread.                                  *)

LoopGoesOn == chatRunning /\ inChat

\* A step of the chat thread to place.
ChatAt(place) ==
    /\ Alive
    /\ chat' = place
    /\ UNCHANGED <<machineVars, io, main, entered, chatRunning, shownTarget, cleanupVars, late>>

NextLine ==
    /\ chat = "looping"
    /\ ChatAt(IF LoopGoesOn THEN "reading" ELSE "ended")
    /\ UNCHANGED <<connectionVars, inChat>>

\* The line ends with Enter, or because a flag was cleared; there is text in it
\* or not.  (Bound: no text once MaxRequests requests were sent.)
EndLine ==
    /\ chat = "reading"
    /\ \/ ChatAt("looping")
       \/ sent < MaxRequests /\ ChatAt("text")
    /\ UNCHANGED <<connectionVars, inChat>>

Enter   == LoopGoesOn /\ EndLine
LineCut == ~LoopGoesOn /\ EndLine

\* The text goes to sendMessage, whose guard reads the state; the io thread or
\* the main thread may change it before the message is written.
SubmitLine ==
    /\ chat = "text"
    /\ ChatAt(IF state = "Chatting" THEN "sending" ELSE "looping")
    /\ UNCHANGED <<connectionVars, inChat>>

WriteMessage ==
    /\ chat = "sending"
    /\ SendMessage
    /\ ChatAt("looping")
    /\ UNCHANGED inChat

\* The text is "/exit": exitChatMode clears in_chat_mode_ ...
ExitChatMode ==
    /\ chat = "text" /\ inChat
    /\ inChat' = FALSE
    /\ ChatAt("stopping")
    /\ UNCHANGED connectionVars

\* ... stopChatThread clears chat_thread_running_ ...
StopsItself ==
    /\ chat = "stopping" /\ Alive
    /\ chatRunning' = FALSE
    /\ chat' = "joining"
    /\ UNCHANGED <<connectionVars, machineVars, io, main, entered, inChat, shownTarget, cleanupVars,
                   late>>

\* ... and joins the chat thread, on the chat thread: join() throws, nothing
\* catches it, and the process is terminated.
JoinsItself ==
    /\ chat = "joining" /\ Alive
    /\ main' = "terminated"
    /\ UNCHANGED <<connectionVars, machineVars, io, entered, chatVars, cleanupVars, late>>

\* sendTypingStatus on the chat thread or a timer; a notice that is written has
\* no answer, one that is not is an error for the receiver.  Nothing is asked of
\* the flags and the state: a line that is cut off and a timer that wakes up
\* still write, and the tests may be long past when they do.
NoticeFails ==
    /\ chat # "none" /\ Alive
    /\ SendFails
    /\ UNCHANGED <<connected, receiving, callbacks, wireVars, machineVars, io, uiVars>>

CleanupEnds ==
    /\ cleanup = "running" /\ ~(cleanupRunning /\ inChat) /\ Alive
    /\ cleanup' = "ended"
    /\ UNCHANGED <<connectionVars, machineVars, io, main, entered, chatVars, cleanupRunning, late>>

-----------------------------------------------------------------------------
MainStep ==
    \/ ConnectToServer \/ CannotConnect \/ Listen
    \/ ShowMenu \/ EnterChat
    \/ SendLogin \/ StoreName \/ SendRegister \/ WaitOver \/ BeginChat
    \/ StopIo \/ StopChatThread \/ ChatThreadJoined \/ CleanupThreadJoined

IoStep ==
    /\ Alive
    /\ \/ LinesRead
       \/ LoginAnswered \/ RegisterAnswered \/ SecondTransition
       \/ MessageAnswered \/ GarbledLine \/ ConnectionFails
    /\ UNCHANGED uiVars

ChatStep ==
    NextLine \/ LineCut \/ SubmitLine \/ WriteMessage \/ StopsItself \/ JoinsItself

UserStep ==
    \/ ChooseOther \/ ChooseLogin \/ ChooseChat \/ ChooseLogout
    \/ Enter \/ ExitChatMode

Environment ==
    /\ Alive
    /\ ServerAnswers \/ LinkLost
    /\ UNCHANGED <<machineVars, io, uiVars>>

ClientNext ==
    \/ MainStep \/ IoStep \/ ChatStep \/ CleanupEnds \/ UserStep
    \/ NoticeFails
    \/ Environment

ClientSpec == ClientInit /\ [][ClientNext]_clientVars

\* Every thread runs on; neither the user nor the server is under obligation.
FairClientSpec ==
    /\ ClientSpec
    /\ WF_clientVars(MainStep)
    /\ WF_clientVars(IoStep)
    /\ WF_clientVars(ChatStep)
    /\ WF_clientVars(CleanupEnds)
=============================================================================
