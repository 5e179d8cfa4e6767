------------------------- MODULE ClientStateMachine -------------------------
(***************************************************************************)
(* client/client_state_machine.cpp and client/message_receiver.cpp: the     *)
(* state a client is in, what the UI's threads do to it, and what the io    *)
(* thread does to it when an answer arrives.  Nothing locks current_state_. *)
(***************************************************************************)
EXTENDS ClientConnection

VARIABLES
    state,             \* current_state_
    currentUsername,   \* current_username_
    chatTarget,        \* chat_target_, NoName when empty
    io                 \* the io thread: in handleServerResponse between two
                       \* transitions, or waiting for a completion

machineVars == <<state, currentUsername, chatTarget>>

ClientState ==
    {"Disconnected", "Connected", "AwaitingLogin", "Registered", "LoggedIn", "Menu", "Chatting"}

MachineInit ==
    /\ state = "Disconnected"
    /\ currentUsername = NoName
    /\ chatTarget = NoName
    /\ io = "waiting"

-----------------------------------------------------------------------------
(* On the main thread and the chat thread.                                  *)

\* tryConnect up to startReceiving; then startListening sets the callbacks.
TryConnect ==
    /\ Connect
    /\ state' = "Connected"
    /\ UNCHANGED <<currentUsername, chatTarget>>

StartListening ==
    /\ listening' = TRUE /\ callbacks' = TRUE
    /\ state' = "AwaitingLogin"
    /\ UNCHANGED <<connected, receiving, wireVars, currentUsername, chatTarget>>

StartChat(target) ==
    /\ chatTarget' = target
    /\ state' = "Chatting"
    /\ UNCHANGED currentUsername

\* sendMessage after its guard, which is an earlier step (see SubmitLine).
SendMessage == Send([type |-> "message", name |-> chatTarget])

\* Slip: stopListening clears the callbacks and keeps listening_.
LogoutSlip ==
    /\ currentUsername' = NoName
    /\ chatTarget' = NoName
    /\ state' = "Disconnected"
    /\ callbacks' = (callbacks /\ ~listening)
    /\ UNCHANGED listening
    /\ Disconnect

\* logout: stopListening clears the callbacks only if listening_ still holds.
Logout ==
    /\ currentUsername' = NoName
    /\ chatTarget' = NoName
    /\ state' = "Disconnected"
    /\ listening' = FALSE
    /\ callbacks' = (callbacks /\ ~listening)
    /\ Disconnect

-----------------------------------------------------------------------------
(* On the io thread: handleIncomingMessage, called by the read handler.      *)

\* The read handler begins.
LinesRead ==
    /\ io = "waiting"
    /\ \E k \in 1..Len(lines) : ReadLines(k)
    /\ UNCHANGED <<listening, machineVars, io>>

\* Slip: a failed login is taken for a successful one.
LoginAnsweredSlip ==
    /\ io = "waiting" /\ TakeLine /\ UNCHANGED listening
    /\ Head(buffered).type = "login"
    /\ state' = "LoggedIn" /\ io' = "logged in"
    /\ UNCHANGED <<currentUsername, chatTarget>>

\* A successful login_response makes two transitions, whatever the state is.
LoginAnswered ==
    /\ io = "waiting" /\ TakeLine /\ UNCHANGED listening
    /\ Head(buffered).type = "login"
    /\ IF Head(buffered).success /\ callbacks
       THEN state' = "LoggedIn" /\ io' = "logged in"
       ELSE UNCHANGED <<state, io>>
    /\ UNCHANGED <<currentUsername, chatTarget>>

\* So does a successful register_response.
RegisterAnswered ==
    /\ io = "waiting" /\ TakeLine /\ UNCHANGED listening
    /\ Head(buffered).type = "register"
    /\ IF Head(buffered).success /\ callbacks
       THEN state' = "Registered" /\ io' = "registered"
       ELSE UNCHANGED <<state, io>>
    /\ UNCHANGED <<currentUsername, chatTarget>>

\* Slip: the client stays in LoggedIn.
SecondTransitionSlip ==
    /\ \/ io = "logged in"  /\ UNCHANGED state
       \/ io = "registered" /\ state' = "AwaitingLogin"
    /\ io' = "waiting"
    /\ UNCHANGED <<connectionVars, currentUsername, chatTarget>>

SecondTransition ==
    /\ \/ io = "logged in"  /\ state' = "Menu"
       \/ io = "registered" /\ state' = "AwaitingLogin"
    /\ io' = "waiting"
    /\ UNCHANGED <<connectionVars, currentUsername, chatTarget>>

\* A message_response is only displayed.
MessageAnswered ==
    /\ io = "waiting" /\ TakeLine /\ UNCHANGED listening
    /\ Head(buffered).type = "message"
    /\ UNCHANGED <<machineVars, io>>

\* A line that does not parse.
GarbledLine ==
    /\ io = "waiting" /\ TakeLine /\ HandleError
    /\ Head(buffered).type = "garbled"
    /\ UNCHANGED <<machineVars, io>>

\* Slip: the error is not reported, and connected_ keeps its value.
ConnectionFailsSlip ==
    /\ io = "waiting"
    /\ link = "lost" /\ lines = << >> /\ buffered = << >> /\ receiving
    /\ receiving' = FALSE
    /\ UNCHANGED <<connected, listening, callbacks, wireVars, machineVars, io>>

\* handleConnectionLost has no caller: the state stays what it is.
ConnectionFails ==
    /\ io = "waiting" /\ ReadFails
    /\ UNCHANGED <<machineVars, io>>
=============================================================================
