-------------------------- MODULE TypingProperties --------------------------
(***************************************************************************)
(* What the partner sees of the typing notices.                             *)
(***************************************************************************)
EXTENDS Typing

\* Every variable has its type; the timer of a line does not outlast the line
\* but as a detached one; only a receiver that is in the chat, or has been,
\* shows a status.
TypingTypeOK ==
    /\ chatting \in BOOLEAN
    /\ chat \in {"looping", "testing", "reading", "notice", "key done", "line", "ended"}
    /\ {isTyping, idle, linked, status, user, old, outrun, raced} \subseteq BOOLEAN
    /\ timer \in {"none", "watching", "notice"} /\ detached \in {"none", "watching", "notice"}
    /\ timer # "none" => InLine
    /\ notices \in Seq(BOOLEAN) /\ Len(notices) <= MaxNotices
    /\ screen \in {"menu", "chat", "gone"}
    /\ io \in {"waiting", "showing", "naming", "timing", "clearing", "clearing user"}
    /\ cleanup \in {"asleep", "clearing", "clearing user"}
    /\ screen # "chat" => io = "waiting" /\ cleanup = "asleep"
    /\ screen = "menu" => ~status /\ ~user

Quiet == notices = << >> /\ io = "waiting"

\* Between two lines of the sender, when every notice has been handled and no
\* timer is about to write one, the partner's screen shows no status: the last
\* notice of a line takes back the ones before it (client_ui.cpp:369), unless a
\* timer has outrun a key's notice or the two threads that clear a status met.
NoStatusBetweenLines ==
    chat \in {"looping", "ended"} /\ detached # "notice" /\ linked /\ Quiet
       => ~status \/ outrun \/ raced \/ screen = "gone"

\* A status is not shown for ever: whatever was lost or outrun, the cleanup
\* thread removes it once no notice comes any more (client_ui.cpp:543), unless
\* it met the io thread in the middle of a change.
StatusGoesAway == <>[]Quiet => []<>(~status \/ raced \/ screen = "gone")

-----------------------------------------------------------------------------
(* A claim of the code that does not hold.                                  *)

\* A status older than three seconds is cleared (client_ui.cpp:544).
OldStatusCleared == <>[]Quiet => []<>(~status \/ screen = "gone")
=============================================================================
