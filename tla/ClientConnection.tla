-------------------------- MODULE ClientConnection --------------------------
(***************************************************************************)
(* client/client_connection.cpp: the connection of one client, and the      *)
(* server at its other end (server/json_parser.cpp) as far as a client can  *)
(* see it: MessengerServer has it in full.                                  *)
(*                                                                         *)
(* The io thread reads, while the main thread, the chat thread and the      *)
(* typing timers write.  A line is one unit here; Wire has its bytes.       *)
(***************************************************************************)
EXTENDS Integers, Sequences

CONSTANTS
    Names, NoName,
    Failures,        \* what may go wrong: see ConnectionAssumption
    MaxRequests      \* bound: requests with an answer that a client sends

ASSUME ConnectionAssumption ==
    /\ NoName \notin Names
    /\ Failures \subseteq {"connect", "link", "send", "garbled"}
    /\ MaxRequests \in Nat

VARIABLES
    connected, receiving,   \* ClientConnection::connected_, receiving_
    callbacks,              \* message_callback_ and error_callback_ are set
    listening,              \* MessageReceiver::listening_
    link,                   \* the TCP connection
    requests, lines,        \* what is under way to the server and from it
    buffered,               \* complete lines in message_buffer_
    sent,                   \* requests sent so far
    serverUser              \* the user the server's session is logged in as

wireVars == <<link, requests, lines, buffered, sent, serverUser>>
connectionVars == <<connected, receiving, callbacks, listening, wireVars>>

Request == [type : {"login", "register", "message"}, name : Names \cup {NoName}]
Answer  == [type : {"login", "register", "message", "garbled"}, success : BOOLEAN]

ConnectionInit ==
    /\ connected = FALSE /\ receiving = FALSE
    /\ callbacks = FALSE /\ listening = FALSE
    /\ link = "none"
    /\ requests = << >> /\ lines = << >> /\ buffered = << >>
    /\ sent = 0
    /\ serverUser = NoName

-----------------------------------------------------------------------------
\* handle_error: the receiver's error callback clears listening_.
HandleError == listening' = (listening /\ ~callbacks)

\* send does not write: no connection, an error, or text that dump() refuses.
SendFails ==
    /\ ~connected \/ link # "up" \/ "send" \in Failures
    /\ HandleError

\* A write after the loss of the connection may succeed; its bytes are gone.
Send(request) ==
    \/ /\ connected
       /\ requests' = IF link = "up" THEN Append(requests, request) ELSE requests
       /\ sent' = sent + 1
       /\ UNCHANGED <<connected, receiving, callbacks, listening, link, lines, buffered, serverUser>>
    \/ /\ SendFails
       /\ sent' = sent + 1
       /\ UNCHANGED <<connected, receiving, callbacks, link, requests, lines, buffered, serverUser>>

\* connect and startReceiving.
Connect ==
    /\ connected' = TRUE /\ receiving' = TRUE
    /\ link' = "up"
    /\ UNCHANGED <<callbacks, listening, requests, lines, buffered, sent, serverUser>>

Disconnect ==
    IF connected
    THEN /\ connected' = FALSE /\ receiving' = FALSE
         /\ link' = "closed"
         /\ lines' = << >>
         /\ UNCHANGED <<requests, buffered, sent, serverUser>>
    ELSE UNCHANGED <<connected, receiving, wireVars>>

\* The read fails once everything that arrived has been read.
ReadFails ==
    /\ link = "lost" /\ lines = << >> /\ buffered = << >> /\ connected
    /\ IF receiving THEN HandleError ELSE UNCHANGED listening
    /\ connected' = FALSE /\ receiving' = FALSE
    /\ UNCHANGED <<callbacks, wireVars>>

\* The read handler appends what has arrived to message_buffer_ ...
ReadLines(k) ==
    /\ receiving /\ buffered = << >> /\ lines # << >>
    /\ buffered' = SubSeq(lines, 1, k)
    /\ lines' = SubSeq(lines, k + 1, Len(lines))
    /\ UNCHANGED <<connected, receiving, callbacks, link, requests, sent, serverUser>>

\* ... and takes the complete lines out of it, even if disconnect() came between.
TakeLine ==
    /\ buffered # << >>
    /\ buffered' = Tail(buffered)
    /\ UNCHANGED <<connected, receiving, callbacks, link, requests, lines, sent, serverUser>>

-----------------------------------------------------------------------------
\* The server answers requests in order, each with one line: a login or a
\* registration either way, a message with success only for a user logged in.
ServerAnswers ==
    /\ link = "up" /\ requests # << >>
    /\ requests' = Tail(requests)
    /\ LET request == Head(requests) IN
       \E success \in BOOLEAN :
          /\ request.type = "message" /\ success => serverUser # NoName
          /\ serverUser' = IF request.type = "login" /\ success THEN request.name
                           ELSE serverUser
          /\ \E type \in {request.type} \cup ({"garbled"} \cap Failures) :
                lines' = Append(lines, [type |-> type, success |-> success])
    /\ UNCHANGED <<connected, receiving, callbacks, listening, link, buffered, sent>>

\* The connection is lost, with or without the lines that have arrived.
LinkLost ==
    /\ "link" \in Failures
    /\ link = "up"
    /\ link' = "lost"
    /\ requests' = << >>
    /\ lines' \in {lines, << >>}
    /\ UNCHANGED <<connected, receiving, callbacks, listening, buffered, sent, serverUser>>
=============================================================================
