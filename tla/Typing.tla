------------------------------- MODULE Typing -------------------------------
(***************************************************************************)
(* The notice that a user is typing, from the chat thread of one client to  *)
(* the screen of the partner (client/client_ui.cpp).                       *)
(*   chat      chat_thread_ of the sender, in handleChatInput               *)
(*   timer     typing_timer of the current line                             *)
(*   detached  a timer of an earlier line, detached, which refers to locals *)
(*             that are gone: perhaps to those of the current line, which   *)
(*             have the same place on the stack (more than one such timer   *)
(*             would do what one does)                                      *)
(*   io        the io thread of the receiver, in displayTypingStatus        *)
(*   cleanup   typing_cleanup_thread_ of the receiver                       *)
(* The server passes notices on in order (NotifyTyping in MessengerServer). *)
(***************************************************************************)
EXTENDS Integers, Sequences

CONSTANT MaxNotices   \* bound: notices on their way; a writer waits

ASSUME TypingAssumption == MaxNotices \in Nat \ {0}

VARIABLES
    chatting,      \* the sender's chat_thread_running_ and in_chat_mode_
    chat,
    isTyping,      \* is_typing of the current line
    idle,          \* a second has passed since last_keypress
    timer, detached,
    notices,       \* on their way to the receiver
    linked,        \* the connections of both are up
    screen,        \* the receiver: in a menu, in the chat, or gone
    status,        \* current_typing_status_ is not empty
    user,          \* current_typing_user_ is the partner
    old,           \* three seconds have passed since last_typing_time_
    io, cleanup,
    outrun,        \* history: see Reset
    raced          \* history: see TakeNotice and CleanupSeesOld

senderVars == <<chatting, chat, isTyping, idle, timer, detached, outrun>>
receiverVars == <<screen, status, user, old, io, cleanup, raced>>
typingVars == <<senderVars, notices, linked, receiverVars>>

TypingInit ==
    /\ chatting = TRUE /\ chat = "looping"
    /\ isTyping = FALSE /\ idle = FALSE
    /\ timer = "none" /\ detached = "none"
    /\ notices = << >> /\ linked = TRUE
    /\ screen = "menu"
    /\ status = FALSE /\ user = FALSE /\ old = FALSE
    /\ io = "waiting" /\ cleanup = "asleep"
    /\ outrun = FALSE /\ raced = FALSE

-----------------------------------------------------------------------------
(* The sender.                                                              *)

\* sendTypingStatus: a write over a lost connection fails, or its bytes are
\* gone.  A notice that typing is over takes back every earlier one.
SendTypingStatus(on) ==
    /\ Len(notices) < MaxNotices
    /\ notices' = IF linked THEN Append(notices, on) ELSE notices
    /\ outrun' = (outrun /\ (on \/ chat = "notice"))
    /\ UNCHANGED <<linked, receiverVars>>

Silent == UNCHANGED <<outrun, notices, linked, receiverVars>>

\* The chat thread is between the begin of a line and its end.
InLine == chat \in {"testing", "reading", "notice", "key done"}

\* handleChatInput begins: new locals and a new timer.
NextLine ==
    /\ chat = "looping"
    /\ IF chatting
       THEN chat' = "testing" /\ isTyping' = FALSE /\ idle' = FALSE /\ timer' = "watching"
       ELSE chat' = "ended" /\ UNCHANGED <<isTyping, idle, timer>>
    /\ UNCHANGED <<chatting, detached>> /\ Silent

\* The flags are tested before each wait for a key; they may be cleared in it.
TestFlags ==
    /\ chat = "testing" /\ chatting
    /\ chat' = "reading"
    /\ UNCHANGED <<chatting, isTyping, idle, timer, detached>> /\ Silent

NoKey ==
    /\ chat = "reading"
    /\ chat' = "testing"
    /\ UNCHANGED <<chatting, isTyping, idle, timer, detached>> /\ Silent

\* A printable key: is_typing is set ...
Key ==
    /\ chat = "reading"
    /\ isTyping' = TRUE
    /\ chat' = IF isTyping THEN "key done" ELSE "notice"
    /\ UNCHANGED <<chatting, idle, timer, detached>> /\ Silent

\* ... a notice is written if it was not set ...
WriteNotice ==
    /\ chat = "notice"
    /\ SendTypingStatus(TRUE)
    /\ chat' = "key done"
    /\ UNCHANGED <<chatting, isTyping, idle, timer, detached>>

\* ... and last_keypress is set.
KeyDone ==
    /\ chat = "key done"
    /\ idle' = FALSE
    /\ chat' = "testing"
    /\ UNCHANGED <<chatting, isTyping, timer, detached>> /\ Silent

Backspace ==
    /\ chat = "reading"
    /\ idle' = FALSE
    /\ chat' = "testing"
    /\ UNCHANGED <<chatting, isTyping, timer, detached>> /\ Silent

LineOver == chat = "reading" \/ (chat = "testing" /\ ~chatting)

\* Slip: the timer is still the current line's.
EndLineSlip ==
    /\ LineOver
    /\ chat' = "line"
    /\ UNCHANGED <<chatting, isTyping, idle, timer, detached>> /\ Silent

\* Enter, or a flag that was cleared, ends the line, and the timer is detached.
EndLine ==
    /\ LineOver
    /\ chat' = "line"
    /\ timer' = "none"
    /\ detached' = IF timer = "notice" \/ detached = "none" THEN timer ELSE detached
    /\ UNCHANGED <<chatting, isTyping, idle>> /\ Silent

\* Slip: the line ends without a notice.
ResetTypingSlip ==
    /\ chat = "line"
    /\ chat' = "looping"
    /\ UNCHANGED <<chatting, isTyping, idle, timer, detached>> /\ Silent

ResetTyping ==
    /\ chat = "line"
    /\ IF isTyping THEN SendTypingStatus(FALSE) ELSE Silent
    /\ chat' = "looping"
    /\ UNCHANGED <<chatting, isTyping, idle, timer, detached>>

\* A timer sees the pause and clears is_typing.  If the key that set it has not
\* written its notice yet, the timer outruns it: nothing takes that notice back.
Reset ==
    /\ isTyping' = FALSE
    /\ outrun' = (outrun \/ chat = "notice")
    /\ UNCHANGED <<chatting, chat, idle, notices, linked, receiverVars>>

\* A timer tests the flags before it sleeps: they may be cleared by now.
TimerResets ==
    /\ timer = "watching" /\ isTyping /\ idle
    /\ timer' = "notice"
    /\ Reset
    /\ UNCHANGED detached

TimerWrites ==
    /\ timer = "notice"
    /\ SendTypingStatus(FALSE)
    /\ timer' = "watching"
    /\ UNCHANGED <<chatting, chat, isTyping, idle, detached>>

TimerEnds ==
    /\ timer = "watching" /\ ~chatting
    /\ timer' = "none"
    /\ UNCHANGED <<chatting, chat, isTyping, idle, detached>> /\ Silent

\* A detached timer reads what is now at the place of the locals; what it clears
\* may be the current is_typing, or nothing of the current line.
DetachedResets ==
    /\ detached = "watching"
    /\ detached' = "notice"
    /\ \/ Reset
       \/ UNCHANGED <<chatting, chat, isTyping, idle>> /\ Silent
    /\ UNCHANGED timer

DetachedWrites ==
    /\ detached = "notice"
    /\ SendTypingStatus(FALSE)
    /\ detached' = "watching"
    /\ UNCHANGED <<chatting, chat, isTyping, idle, timer>>

TimersEnd ==
    /\ ~chatting /\ detached = "watching"
    /\ detached' = "none"
    /\ UNCHANGED <<chatting, chat, isTyping, idle, timer>> /\ Silent

SecondPasses ==
    /\ InLine /\ ~idle
    /\ idle' = TRUE
    /\ UNCHANGED <<chatting, chat, isTyping, timer, detached>> /\ Silent

ChatEnds ==
    /\ chatting /\ chatting' = FALSE
    /\ UNCHANGED <<chat, isTyping, idle, timer, detached>> /\ Silent

-----------------------------------------------------------------------------
(* The receiver.  The two strings and the time are shared without a lock.   *)

\* A step of one of the receiver's threads; only these two change raced.
ReceiverOnly == UNCHANGED <<senderVars, linked>>

\* handleTypingStatus and the callback: out of a chat a notice is ignored; in
\* it, displayTypingStatus begins.  A notice for which it begins while the
\* cleanup thread sleeps ends what came of an earlier race.
TakeNotice ==
    /\ io = "waiting" /\ notices # << >>
    /\ notices' = Tail(notices)
    /\ IF screen # "chat" THEN UNCHANGED <<io, raced>>
       ELSE IF Head(notices) THEN io' = "showing" /\ raced' = (cleanup # "asleep")
       ELSE /\ io' = IF status /\ user THEN "clearing" ELSE "waiting"
            /\ raced' = (raced \/ (status /\ user /\ cleanup # "asleep"))
    /\ UNCHANGED <<screen, status, user, old, cleanup>> /\ ReceiverOnly

SetStatus ==
    /\ io = "showing" /\ io' = "naming"
    /\ status' = TRUE
    /\ UNCHANGED <<screen, user, old, cleanup, raced, notices>> /\ ReceiverOnly

\* Slip: the user is not stored.
SetUserSlip ==
    /\ io = "naming" /\ io' = "timing"
    /\ UNCHANGED <<screen, status, user, old, cleanup, raced, notices>> /\ ReceiverOnly

SetUser ==
    /\ io = "naming" /\ io' = "timing"
    /\ user' = TRUE
    /\ UNCHANGED <<screen, status, old, cleanup, raced, notices>> /\ ReceiverOnly

SetTime ==
    /\ io = "timing" /\ io' = "waiting"
    /\ old' = FALSE
    /\ UNCHANGED <<screen, status, user, cleanup, raced, notices>> /\ ReceiverOnly

ClearStatus ==
    /\ io = "clearing" /\ io' = "clearing user"
    /\ status' = FALSE
    /\ UNCHANGED <<screen, user, old, cleanup, raced, notices>> /\ ReceiverOnly

ClearUser ==
    /\ io = "clearing user" /\ io' = "waiting"
    /\ user' = FALSE
    /\ UNCHANGED <<screen, status, old, cleanup, raced, notices>> /\ ReceiverOnly

\* clearTypingStatusAfterDelay finds a status that is old.
CleanupSeesOld ==
    /\ screen = "chat" /\ cleanup = "asleep"
    /\ status /\ user /\ old
    /\ cleanup' = "clearing"
    /\ raced' = (raced \/ io # "waiting")
    /\ UNCHANGED <<screen, status, user, old, io, notices>> /\ ReceiverOnly

CleanupClearsStatus ==
    /\ cleanup = "clearing" /\ cleanup' = "clearing user"
    /\ status' = FALSE
    /\ UNCHANGED <<screen, user, old, io, raced, notices>> /\ ReceiverOnly

CleanupClearsUser ==
    /\ cleanup = "clearing user" /\ cleanup' = "asleep"
    /\ user' = FALSE
    /\ UNCHANGED <<screen, status, old, io, raced, notices>> /\ ReceiverOnly

\* last_typing_time_ becomes three seconds old.
TimePasses ==
    /\ status /\ ~old
    /\ old' = TRUE
    /\ UNCHANGED <<screen, status, user, io, cleanup, raced, notices>> /\ ReceiverOnly

ReceiverEnters ==
    /\ screen = "menu" /\ screen' = "chat"
    /\ UNCHANGED <<status, user, old, io, cleanup, raced, notices>> /\ ReceiverOnly

\* The program ends: the io thread was joined before, the cleanup thread is now.
ReceiverLeaves ==
    /\ screen # "gone" /\ io = "waiting" /\ cleanup = "asleep"
    /\ screen' = "gone"
    /\ UNCHANGED <<status, user, old, io, cleanup, raced, notices>> /\ ReceiverOnly

\* A connection is lost, with some of the notices on their way.
LinkLost ==
    /\ linked /\ linked' = FALSE
    /\ \E k \in 0..Len(notices) : notices' = SubSeq(notices, 1, k)
    /\ UNCHANGED <<senderVars, receiverVars>>

-----------------------------------------------------------------------------
ChatStep ==
    \/ NextLine \/ TestFlags \/ NoKey \/ WriteNotice \/ KeyDone
    \/ (EndLine /\ chat = "testing") \/ ResetTyping
TimerStep == TimerResets \/ TimerWrites \/ TimerEnds
DetachedStep == DetachedResets \/ DetachedWrites \/ TimersEnd
IoStep ==
    TakeNotice \/ SetStatus \/ SetUser \/ SetTime \/ ClearStatus \/ ClearUser
CleanupStep == CleanupSeesOld \/ CleanupClearsStatus \/ CleanupClearsUser
UserStep == Key \/ Backspace \/ EndLine \/ ChatEnds \/ ReceiverEnters \/ ReceiverLeaves

TypingNext ==
    \/ ChatStep \/ TimerStep \/ DetachedStep \/ SecondPasses
    \/ IoStep \/ CleanupStep \/ TimePasses
    \/ UserStep \/ LinkLost

TypingSpec == TypingInit /\ [][TypingNext]_typingVars

\* Every thread runs on and time passes; nothing is assumed of the users.
FairTypingSpec ==
    /\ TypingSpec
    /\ WF_typingVars(ChatStep) /\ WF_typingVars(TimerStep) /\ WF_typingVars(DetachedStep)
    /\ WF_typingVars(SecondPasses)
    /\ WF_typingVars(IoStep) /\ WF_typingVars(CleanupStep) /\ WF_typingVars(TimePasses)
=============================================================================
