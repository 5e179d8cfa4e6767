------------------------------ MODULE Session ------------------------------
(***************************************************************************)
(* server/session.cpp: one TCP connection of the server, and the peer and  *)
(* network at its other end.                                               *)
(*                                                                         *)
(* phase[s] is "free" before the constructor and after the destructor,     *)
(* "open" while closing_ is false, "closed" once close() has run.  link[s]  *)
(* is what the network really does: it may be "down" long before the       *)
(* server sees an error.  unread[s]: the requests the peer has sent and the *)
(* session has not handled.  writeFailed[s]: a write was started on a dead *)
(* link, so its completion handler may carry an error.                     *)
(* out[s]: the lines written to s that the peer has not read.              *)
(*                                                                         *)
(* Observed names the kinds of lines that out keeps; lines of other kinds   *)
(* are treated as read by the peer at once.                                *)
(***************************************************************************)
EXTENDS UserManager

CONSTANTS Observed, MaxOut, MaxIn

LineKinds == {"response", "message", "typing"}

ASSUME SessionAssumption == Observed \subseteq LineKinds /\ {MaxOut, MaxIn} \subseteq Nat

VARIABLES phase, authenticated, userId, username,
          link, unread, writeFailed, out

accountVars == <<authenticated, userId, username>>
streamVars  == <<link, unread, writeFailed, out>>

NoUserId == -1

ResponseLine == [kind : {"response"},
                 type : {"register", "login", "message", "error"},
                 success : BOOLEAN]
MessageLine  == [kind : {"message"}, id : MessageIds, stored : BOOLEAN]
TypingLine   == [kind : {"typing"}, from : Names, is_typing : BOOLEAN]
Line         == ResponseLine \cup MessageLine \cup TypingLine

\* What out keeps of a sequence of lines of one kind.
Kept(kind, lines) == IF kind \in Observed THEN lines ELSE << >>

Response(type, success) ==
    Kept("response", <<[kind |-> "response", type |-> type, success |-> success]>>)

\* Chat messages, in the order in which send() is called for them.
MessageLines(listing, stored) ==
    Kept("message", [i \in DOMAIN listing |->
                        [kind |-> "message", id |-> listing[i], stored |-> stored]])

Typing(from, is_typing) ==
    Kept("typing", <<[kind |-> "typing", from |-> from, is_typing |-> is_typing]>>)

SessionInit ==
    /\ phase = [s \in Sessions |-> "free"]
    /\ authenticated = [s \in Sessions |-> FALSE]
    /\ userId = [s \in Sessions |-> NoUserId]
    /\ username = [s \in Sessions |-> NoName]
    /\ link = [s \in Sessions |-> "none"]
    /\ unread = [s \in Sessions |-> 0]
    /\ writeFailed = [s \in Sessions |-> FALSE]
    /\ out = [s \in Sessions |-> << >>]

-----------------------------------------------------------------------------
\* The constructor and start(): the session's first read is pending.
Construct(s) ==
    /\ phase[s] = "free"
    /\ phase' = [phase EXCEPT ![s] = "open"]
    /\ link' = [link EXCEPT ![s] = "up"]
    /\ UNCHANGED <<accountVars, unread, writeFailed, out>>

\* send(): lines on a live link reach the peer's stream, lines on a dead link
\* are lost, and a write on a closed socket completes with an error that
\* close() ignores.
Enqueued(o, s, lines) ==
    IF phase[s] = "open" /\ link[s] = "up" THEN [o EXCEPT ![s] = @ \o lines] ELSE o

Doomed(w, s) ==
    IF phase[s] = "open" /\ link[s] = "down" THEN [w EXCEPT ![s] = TRUE] ELSE w

Send(s, lines) ==
    /\ out' = Enqueued(out, s, lines)
    /\ writeFailed' = Doomed(writeFailed, s)

\* A send to r followed by a send to s, in one handler.
SendThenSend(r, linesToR, s, linesToS) ==
    /\ out' = Enqueued(Enqueued(out, r, linesToR), s, linesToS)
    /\ writeFailed' = Doomed(Doomed(writeFailed, r), s)

NothingSent == UNCHANGED <<out, writeFailed>>

SetAuthenticated(s, user, name) ==
    /\ authenticated' = [authenticated EXCEPT ![s] = TRUE]
    /\ userId' = [userId EXCEPT ![s] = user]
    /\ username' = [username EXCEPT ![s] = name]

\* close() on a session that is not closing yet.
Close(s) ==
    /\ phase[s] = "open"
    /\ phase' = [phase EXCEPT ![s] = "closed"]
    /\ writeFailed' = [writeFailed EXCEPT ![s] = FALSE]
    /\ IF authenticated[s] THEN RemoveSession(userId[s]) ELSE UNCHANGED registryVars
    /\ UNCHANGED <<dbVars, accountVars, link, out>>

\* Slip: only sessions that have logged in are closed.
ReadErrorSlip(s) ==
    /\ link[s] = "down" /\ unread[s] = 0 /\ authenticated[s]
    /\ Close(s)
    /\ UNCHANGED unread

\* The read handler of do_read with an error: the socket has no data left.
ReadError(s) ==
    /\ link[s] = "down" /\ unread[s] = 0
    /\ Close(s)
    /\ UNCHANGED unread

\* The write handler of send with an error.  A read that completed before
\* close() keeps its handler in the queue, with the requests it has read; what
\* is still in the socket is lost.
WriteError(s) ==
    /\ writeFailed[s]
    /\ Close(s)
    /\ \E n \in 0 .. unread[s] : unread' = [unread EXCEPT ![s] = n]

\* The read handler of do_read takes the next request off the buffer.  Once the
\* buffer is empty it calls do_read again; on a closed session that last read
\* fails and its handler calls close() in vain.
ReadHandled(s) ==
    /\ unread[s] > 0
    /\ unread' = [unread EXCEPT ![s] = @ - 1]
    /\ UNCHANGED <<phase, link>>

\* The last shared_ptr is gone: no handler is queued and the registry does not
\* hold the session.
Destroy(s) ==
    /\ phase[s] = "closed"
    /\ unread[s] = 0
    /\ \A u \in UserIds : activeSessions[u] # s
    /\ phase' = [phase EXCEPT ![s] = "free"]
    /\ authenticated' = [authenticated EXCEPT ![s] = FALSE]
    /\ userId' = [userId EXCEPT ![s] = NoUserId]
    /\ username' = [username EXCEPT ![s] = NoName]
    /\ link' = [link EXCEPT ![s] = "none"]
    /\ UNCHANGED <<dbVars, registryVars, unread, writeFailed, out>>

-----------------------------------------------------------------------------
\* The peer sends a request.  MaxIn bounds the requests on their way to one
\* session, MaxOut the lines a peer leaves unread.
PeerWrites(s) ==
    /\ phase[s] = "open" /\ link[s] = "up"
    /\ unread[s] < MaxIn
    /\ \A r \in Sessions : Len(out[r]) < MaxOut
    /\ unread' = [unread EXCEPT ![s] = @ + 1]
    /\ UNCHANGED <<dbVars, registryVars, phase, accountVars, link, writeFailed, out>>

\* The peer reads the next line.
PeerReads(s) ==
    /\ out[s] # << >>
    /\ out' = [out EXCEPT ![s] = Tail(@)]
    /\ UNCHANGED <<dbVars, registryVars, phase, accountVars, link, unread, writeFailed>>

\* The peer leaves or the network fails: what the peer has not read is lost,
\* and requests that have not reached the server may be.
LinkFails(s) ==
    /\ link[s] = "up"
    /\ link' = [link EXCEPT ![s] = "down"]
    /\ out' = [out EXCEPT ![s] = << >>]
    /\ \E n \in 0 .. unread[s] : unread' = [unread EXCEPT ![s] = n]
    /\ UNCHANGED <<dbVars, registryVars, phase, accountVars, writeFailed>>
=============================================================================
