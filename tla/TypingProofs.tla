---------------------------- MODULE TypingProofs ----------------------------
(***************************************************************************)
(* Proofs about the typing notices: the types, and that the partner's       *)
(* screen shows no status between two lines.                                *)
(***************************************************************************)
EXTENDS TypingProperties, SequenceTheorems, TLAPS

-----------------------------------------------------------------------------
(* The inductive invariant.                                                 *)

\* Somebody is going to write that the user has stopped typing.
TakenBack ==
    \/ timer = "notice" \/ detached = "notice"
    \/ isTyping /\ (InLine \/ chat = "line")

\* A key that has not written its notice has left is_typing set, unless a timer
\* was faster.
KeyNotOutrun == chat = "notice" => isTyping \/ outrun

\* The youngest notice on its way will be taken back, if it has to be.
NoticesTakenBack ==
    linked /\ ~outrun /\ notices # << >> /\ notices[Len(notices)] = TRUE => TakenBack

\* A status is shown, or about to be, by what the io thread took last.
Showing == io \in {"showing", "naming", "timing"} \/ (io = "waiting" /\ status)

\* So will the status, once every notice has been taken.
StatusTakenBack ==
    linked /\ notices = << >> /\ Showing => TakenBack \/ outrun \/ raced \/ screen = "gone"

\* Unless they met, one of the two threads of the receiver is at rest, and what
\* the other one relies on has not been changed.
ThreadsInStep ==
    ~raced =>
       /\ io = "waiting" \/ cleanup = "asleep"
       /\ io = "waiting" /\ cleanup = "asleep" => (status <=> user)
       /\ io \in {"naming", "timing"} => status
       /\ io = "timing" => user
       /\ io = "clearing user" => ~status
       /\ cleanup = "clearing" => status /\ user
       /\ cleanup = "clearing user" => ~status

TypingInv ==
    TypingTypeOK /\ KeyNotOutrun /\ NoticesTakenBack /\ StatusTakenBack /\ ThreadsInStep

-----------------------------------------------------------------------------
(* Types.                                                                   *)

SenderTypes ==
    /\ chatting \in BOOLEAN /\ isTyping \in BOOLEAN /\ idle \in BOOLEAN /\ outrun \in BOOLEAN
    /\ chat \in {"looping", "testing", "reading", "notice", "key done", "line", "ended"}
    /\ timer \in {"none", "watching", "notice"} /\ detached \in {"none", "watching", "notice"}
    /\ timer # "none" => InLine

NoticeTypes ==
    /\ linked \in BOOLEAN
    /\ notices \in Seq(BOOLEAN) /\ Len(notices) <= MaxNotices

ReceiverTypes ==
    /\ status \in BOOLEAN /\ user \in BOOLEAN /\ old \in BOOLEAN /\ raced \in BOOLEAN
    /\ screen \in {"menu", "chat", "gone"}
    /\ io \in {"waiting", "showing", "naming", "timing", "clearing", "clearing user"}
    /\ cleanup \in {"asleep", "clearing", "clearing user"}
    /\ screen # "chat" => io = "waiting" /\ cleanup = "asleep"
    /\ screen = "menu" => ~status /\ ~user

\* The three parts are the type invariant.
LEMMA TypeParts == TypingTypeOK <=> SenderTypes /\ NoticeTypes /\ ReceiverTypes
BY DEF TypingTypeOK, SenderTypes, NoticeTypes, ReceiverTypes

\* The notices on their way are kept, one is written or lost, one is taken, or
\* the last ones are lost with the connection.
NoticesStep ==
    \/ UNCHANGED <<notices, linked>>
    \/ \E on \in BOOLEAN :
          /\ Len(notices) < MaxNotices
          /\ notices' = Append(notices, on) /\ linked' = linked
    \/ notices # << >> /\ notices' = Tail(notices) /\ linked' = linked
    \/ linked' = FALSE /\ \E k \in 0 .. Len(notices) : notices' = SubSeq(notices, 1, k)

\* What such a step makes of a sequence.
LEMMA SeqStep ==
    ASSUME NEW S, NEW q \in Seq(S)
    PROVE  /\ Len(q) \in Nat
           /\ \A e \in S : Append(q, e) \in Seq(S) /\ Len(Append(q, e)) = Len(q) + 1
           /\ q # << >> => Tail(q) \in Seq(S) /\ Len(Tail(q)) = Len(q) - 1
           /\ \A k \in 0 .. Len(q) : SubSeq(q, 1, k) \in Seq(S) /\ Len(SubSeq(q, 1, k)) = k
OBVIOUS

\* The bound on the notices holds since a writer waits for room.
LEMMA NoticesStepType == NoticeTypes /\ NoticesStep => NoticeTypes'
<1> SUFFICES ASSUME NoticeTypes, NoticesStep PROVE NoticeTypes'
  OBVIOUS
<1>1. linked' \in BOOLEAN
  BY DEF NoticeTypes, NoticesStep
<1>2. notices' \in Seq(BOOLEAN) /\ Len(notices') <= MaxNotices
  BY SeqStep, TypingAssumption DEF NoticeTypes, NoticesStep
<1> QED BY <1>1, <1>2 DEF NoticeTypes

\* A call of sendTypingStatus writes one notice, or none.
LEMMA Sends ==
    ASSUME NEW on \in BOOLEAN, NoticeTypes, SendTypingStatus(on)
    PROVE  NoticesStep
BY DEF SendTypingStatus, NoticesStep, NoticeTypes

\* Each step keeps the three parts: first those of the sender ...
LEMMA SenderTypesStep ==
    ASSUME SenderTypes, [TypingNext]_typingVars
    PROVE  SenderTypes'
<1> USE DEF SenderTypes, senderVars, InLine
<1>1. CASE UNCHANGED typingVars
  BY <1>1 DEF typingVars
<1>2. CASE NextLine BY <1>2 DEF NextLine, Silent
<1>3. CASE WriteNotice BY <1>3 DEF WriteNotice, SendTypingStatus
<1>4. CASE KeyDone BY <1>4 DEF KeyDone, Silent
<1>5. CASE EndLine BY <1>5 DEF EndLine, LineOver, Silent
<1>6. CASE ResetTyping BY <1>6 DEF ResetTyping, SendTypingStatus, Silent
<1>7. CASE TimerResets BY <1>7 DEF TimerResets, Reset
<1>8. CASE TimerWrites BY <1>8 DEF TimerWrites, SendTypingStatus
<1>9. CASE DetachedResets BY <1>9 DEF DetachedResets, Reset, Silent
<1>10. CASE DetachedWrites BY <1>10 DEF DetachedWrites, SendTypingStatus
<1>11. CASE TimersEnd BY <1>11 DEF TimersEnd, Silent
<1>12. CASE SecondPasses BY <1>12 DEF SecondPasses, Silent
<1>13. CASE Key BY <1>13 DEF Key, Silent
<1>14. CASE Backspace BY <1>14 DEF Backspace, Silent
<1>15. CASE ChatEnds BY <1>15 DEF ChatEnds, Silent
<1>16. CASE UNCHANGED senderVars
  BY <1>16
<1>17. CASE TestFlags \/ NoKey BY <1>17 DEF TestFlags, NoKey, Silent
<1>18. CASE TimerEnds BY <1>18 DEF TimerEnds, Silent
<1>19. IoStep \/ CleanupStep \/ TimePasses \/ ReceiverEnters \/ ReceiverLeaves \/ LinkLost
         => UNCHANGED senderVars
  BY DEF IoStep, TakeNotice, SetStatus, SetUser, SetTime, ClearStatus, ClearUser, CleanupStep,
     CleanupSeesOld, CleanupClearsStatus, CleanupClearsUser, TimePasses, ReceiverEnters,
     ReceiverLeaves, LinkLost, ReceiverOnly
<1> QED
  BY <1>1, <1>2, <1>3, <1>4, <1>5, <1>6, <1>7, <1>8, <1>9, <1>10, <1>11, <1>12, <1>13, <1>14,
     <1>15, <1>16, <1>17, <1>18, <1>19
  DEF TypingNext, ChatStep, TimerStep, DetachedStep, UserStep

\* ... then those of the receiver ...
LEMMA ReceiverTypesStep ==
    ASSUME ReceiverTypes, [TypingNext]_typingVars
    PROVE  ReceiverTypes'
<1> USE DEF ReceiverTypes, receiverVars
<1>1. CASE TakeNotice BY <1>1 DEF TakeNotice
<1>2. CASE SetStatus BY <1>2 DEF SetStatus
<1>3. CASE SetUser BY <1>3 DEF SetUser
<1>4. CASE SetTime BY <1>4 DEF SetTime
<1>5. CASE ClearStatus BY <1>5 DEF ClearStatus
<1>6. CASE ClearUser BY <1>6 DEF ClearUser
<1>7. CASE CleanupSeesOld BY <1>7 DEF CleanupSeesOld
<1>8. CASE CleanupClearsStatus BY <1>8 DEF CleanupClearsStatus
<1>9. CASE CleanupClearsUser BY <1>9 DEF CleanupClearsUser
<1>10. CASE TimePasses BY <1>10 DEF TimePasses
<1>11. CASE ReceiverEnters BY <1>11 DEF ReceiverEnters
<1>12. CASE ReceiverLeaves BY <1>12 DEF ReceiverLeaves
<1>13. CASE UNCHANGED receiverVars
  BY <1>13
<1>14. ChatStep \/ TimerStep \/ DetachedStep \/ SecondPasses \/ Key \/ Backspace \/ EndLine
          \/ ChatEnds \/ LinkLost \/ UNCHANGED typingVars
         => UNCHANGED receiverVars
  BY DEF ChatStep, NextLine, TestFlags, NoKey, WriteNotice, KeyDone, EndLine, ResetTyping,
     TimerStep, TimerResets, TimerWrites, TimerEnds, DetachedStep, DetachedResets,
     DetachedWrites, TimersEnd, SecondPasses, Key, Backspace, ChatEnds, LinkLost, Silent,
     SendTypingStatus, Reset, typingVars
<1> QED
  BY <1>1, <1>2, <1>3, <1>4, <1>5, <1>6, <1>7, <1>8, <1>9, <1>10, <1>11, <1>12, <1>13, <1>14
  DEF TypingNext, IoStep, CleanupStep, UserStep

\* ... and those of the notices between them.
LEMMA NoticeTypesStep ==
    ASSUME NoticeTypes, [TypingNext]_typingVars
    PROVE  NoticeTypes'
<1>1. ASSUME NEW on \in BOOLEAN, SendTypingStatus(on) PROVE NoticesStep
  BY <1>1, Sends
<1>2. CASE WriteNotice BY <1>1, <1>2, NoticesStepType DEF WriteNotice
<1>3. CASE ResetTyping
  BY <1>1, <1>3, NoticesStepType DEF ResetTyping, Silent, NoticesStep
<1>4. CASE TimerWrites BY <1>1, <1>4, NoticesStepType DEF TimerWrites
<1>5. CASE DetachedWrites BY <1>1, <1>5, NoticesStepType DEF DetachedWrites
<1>6. CASE TakeNotice
  BY <1>6, NoticesStepType DEF TakeNotice, ReceiverOnly, NoticesStep
<1>7. CASE LinkLost
  BY <1>7, NoticesStepType DEF LinkLost, NoticesStep
<1>8. CASE UNCHANGED <<notices, linked>>
  BY <1>8, NoticesStepType DEF NoticesStep
<1>9. NextLine \/ TestFlags \/ NoKey \/ KeyDone \/ EndLine \/ TimerResets \/ TimerEnds
         \/ DetachedResets \/ TimersEnd \/ SecondPasses \/ Key \/ Backspace \/ ChatEnds
         => UNCHANGED <<notices, linked>>
  BY DEF NextLine, TestFlags, NoKey, KeyDone, EndLine, TimerResets, TimerEnds, DetachedResets,
     TimersEnd, SecondPasses, Key, Backspace, ChatEnds, Silent, Reset
<1>10. SetStatus \/ SetUser \/ SetTime \/ ClearStatus \/ ClearUser \/ CleanupStep \/ TimePasses
          \/ ReceiverEnters \/ ReceiverLeaves \/ UNCHANGED typingVars
         => UNCHANGED <<notices, linked>>
  BY DEF SetStatus, SetUser, SetTime, ClearStatus, ClearUser, CleanupStep, CleanupSeesOld,
     CleanupClearsStatus, CleanupClearsUser, TimePasses, ReceiverEnters, ReceiverLeaves,
     ReceiverOnly, typingVars
<1> QED
  BY <1>2, <1>3, <1>4, <1>5, <1>6, <1>7, <1>8, <1>9, <1>10
  DEF TypingNext, ChatStep, TimerStep, DetachedStep, IoStep, UserStep

\* The types hold at the start.
LEMMA TypingTypeInit == TypingInit => TypingTypeOK
<1> SUFFICES ASSUME TypingInit PROVE TypingTypeOK
  OBVIOUS
<1>1. SenderTypes /\ ReceiverTypes
  BY DEF TypingInit, SenderTypes, ReceiverTypes
<1>2. NoticeTypes
  BY TypingAssumption, EmptySeq DEF TypingInit, NoticeTypes
<1> QED BY <1>1, <1>2, TypeParts

\* Every step keeps the types.
LEMMA TypingTypeStep ==
    ASSUME TypingTypeOK, [TypingNext]_typingVars
    PROVE  TypingTypeOK'
<1>1. SenderTypes /\ NoticeTypes /\ ReceiverTypes
  BY TypeParts
<1>2. SenderTypes' /\ NoticeTypes' /\ ReceiverTypes'
  BY <1>1, SenderTypesStep, NoticeTypesStep, ReceiverTypesStep
<1> QED BY <1>2 DEF TypingTypeOK, SenderTypes, NoticeTypes, ReceiverTypes

-----------------------------------------------------------------------------
(* What the steps do, seen from the notices.                                *)

\* A step of the sender that writes nothing.
SenderSilent ==
    /\ UNCHANGED <<notices, linked, receiverVars>>
    /\ outrun => outrun'
    /\ TakenBack => TakenBack' \/ outrun'
    /\ KeyNotOutrun'

\* A notice that the user is typing is written by who will take it back, or was
\* outrun.
SaysTyping == SendTypingStatus(TRUE) /\ (TakenBack' \/ outrun') /\ KeyNotOutrun'

\* A notice that typing is over.
SaysStopped == SendTypingStatus(FALSE) /\ KeyNotOutrun'

\* The sender does nothing else.
LEMMA SenderSteps ==
    ASSUME SenderTypes, KeyNotOutrun,
           ChatStep \/ TimerStep \/ DetachedStep \/ SecondPasses \/ Key \/ Backspace \/ EndLine
              \/ ChatEnds
    PROVE  SenderSilent \/ SaysTyping \/ SaysStopped
<1> USE DEF SenderTypes, KeyNotOutrun, TakenBack, SenderSilent, Silent, InLine
<1>1. CASE TestFlags \/ NoKey BY <1>1 DEF TestFlags, NoKey
<1>2. CASE NextLine BY <1>2 DEF NextLine
<1>3. CASE WriteNotice BY <1>3 DEF WriteNotice, SendTypingStatus, SaysTyping
<1>4. CASE KeyDone BY <1>4 DEF KeyDone
<1>5. CASE EndLine BY <1>5 DEF EndLine, LineOver
<1>6. CASE ResetTyping
  <2>1. CASE isTyping
    BY <1>6, <2>1 DEF ResetTyping, SaysStopped
  <2>2. CASE ~isTyping
    BY <1>6, <2>2 DEF ResetTyping
  <2> QED BY <2>1, <2>2
<1>7. CASE TimerResets BY <1>7 DEF TimerResets, Reset
<1>8. CASE TimerWrites BY <1>8 DEF TimerWrites, SendTypingStatus, SaysStopped
<1>9. CASE DetachedResets
  <2>1. CASE Reset
    BY <1>9, <2>1 DEF DetachedResets, Reset
  <2>2. CASE UNCHANGED <<chatting, chat, isTyping, idle>> /\ Silent
    BY <1>9, <2>2 DEF DetachedResets
  <2> QED BY <1>9, <2>1, <2>2 DEF DetachedResets
<1>10. CASE DetachedWrites
  <2>1. SendTypingStatus(FALSE)
    BY <1>10 DEF DetachedWrites
  <2>2. KeyNotOutrun'
    BY <1>10 DEF DetachedWrites, SendTypingStatus
  <2> QED BY <2>1, <2>2 DEF SaysStopped
<1>11. CASE TimersEnd BY <1>11 DEF TimersEnd
<1>12. CASE SecondPasses BY <1>12 DEF SecondPasses
<1>13. CASE Key BY <1>13 DEF Key
<1>14. CASE Backspace BY <1>14 DEF Backspace
<1>15. CASE ChatEnds BY <1>15 DEF ChatEnds
<1>16. CASE TimerEnds BY <1>16 DEF TimerEnds
<1> QED
  BY <1>1, <1>2, <1>3, <1>4, <1>5, <1>6, <1>7, <1>8, <1>9, <1>10, <1>11, <1>12, <1>13, <1>14,
     <1>15, <1>16
  DEF ChatStep, TimerStep, DetachedStep

\* A notice that was written is the last one.
LEMMA NoticeWritten ==
    ASSUME NEW q \in Seq(BOOLEAN), NEW on \in BOOLEAN
    PROVE  Append(q, on) # << >> /\ Append(q, on)[Len(Append(q, on))] = on
OBVIOUS

\* The last notice stays the last one until it is the first one.
LEMMA NoticeTaken ==
    ASSUME NEW S, NEW q \in Seq(S), q # << >>
    PROVE  /\ Tail(q) # << >> => Tail(q)[Len(Tail(q))] = q[Len(q)]
           /\ Tail(q) = << >> => Head(q) = q[Len(q)]
<1>1. ASSUME NEW t \in Seq(S), Len(t) = Len(q) - 1, \A i \in 1 .. Len(t) : t[i] = q[i + 1]
      PROVE  /\ t # << >> => t[Len(t)] = q[Len(q)]
             /\ t = << >> => q[1] = q[Len(q)]
  <2>1. Len(q) \in Nat \ {0} /\ Len(t) \in Nat
    BY EmptySeq
  <2>2. t # << >> => Len(t) \in 1 .. Len(t)
    BY EmptySeq
  <2>3. t = << >> => Len(t) = 0
    OBVIOUS
  <2> QED BY <1>1, <2>1, <2>2, <2>3
<1>2. /\ Tail(q) \in Seq(S) /\ Len(Tail(q)) = Len(q) - 1
      /\ \A i \in 1 .. Len(Tail(q)) : Tail(q)[i] = q[i + 1]
  BY HeadTailProperties
<1>3. Head(q) = q[1]
  OBVIOUS
<1> QED BY <1>1, <1>2, <1>3, Zenon

\* The invariant under the steps of the sender: a written notice is taken back ...
LEMMA SenderKeepsPromises ==
    ASSUME TypingInv, SenderSilent \/ SaysTyping \/ SaysStopped
    PROVE  NoticesTakenBack' /\ StatusTakenBack' /\ ThreadsInStep' /\ KeyNotOutrun'
<1> USE DEF TypingInv
<1>0. /\ KeyNotOutrun'
      /\ UNCHANGED <<linked, receiverVars>>
  BY DEF SenderSilent, SaysTyping, SaysStopped, SendTypingStatus
<1>1. ThreadsInStep' /\ (Showing' <=> Showing) /\ screen' = screen /\ raced' = raced
  BY <1>0 DEF ThreadsInStep, Showing, receiverVars
<1>2. CASE SenderSilent
  <2>1. NoticesTakenBack'
    BY <1>2 DEF SenderSilent, NoticesTakenBack
  <2>2. StatusTakenBack'
    BY <1>1, <1>2 DEF SenderSilent, StatusTakenBack
  <2> QED BY <1>0, <1>1, <2>1, <2>2
<1>3. ASSUME NEW on \in BOOLEAN, SendTypingStatus(on), linked
      PROVE  notices' # << >> /\ notices'[Len(notices')] = on
  BY <1>3, NoticeWritten DEF SendTypingStatus, TypingTypeOK
<1>4. CASE SaysTyping
  BY <1>0, <1>1, <1>3, <1>4 DEF SaysTyping, NoticesTakenBack, StatusTakenBack
<1>5. CASE SaysStopped
  BY <1>0, <1>1, <1>3, <1>5 DEF SaysStopped, NoticesTakenBack, StatusTakenBack
<1> QED BY <1>2, <1>4, <1>5

\* ... and of the receiver: the status comes from the last notice taken.
LEMMA ReceiverKeepsPromises ==
    ASSUME TypingInv, ReceiverTypes',
           IoStep \/ CleanupStep \/ TimePasses \/ ReceiverEnters \/ ReceiverLeaves
    PROVE  NoticesTakenBack' /\ StatusTakenBack' /\ ThreadsInStep' /\ KeyNotOutrun'
<1>1. UNCHANGED <<senderVars, linked>>
  BY DEF IoStep, TakeNotice, SetStatus, SetUser, SetTime, ClearStatus, ClearUser, CleanupStep,
     CleanupSeesOld, CleanupClearsStatus, CleanupClearsUser, TimePasses, ReceiverEnters,
     ReceiverLeaves, ReceiverOnly
<1>2. KeyNotOutrun' /\ (TakenBack' <=> TakenBack) /\ outrun' = outrun /\ linked' = linked
  BY <1>1 DEF TypingInv, KeyNotOutrun, TakenBack, InLine, senderVars
<1>3. CASE TakeNotice
  <2>1. NoticesTakenBack'
    BY <1>2, <1>3, NoticeTaken DEF TakeNotice, NoticesTakenBack, TypingInv, TypingTypeOK
  <2>2. ThreadsInStep'
    BY <1>3 DEF TakeNotice, ThreadsInStep, TypingInv, TypingTypeOK
  <2>3. StatusTakenBack'
    <3> SUFFICES ASSUME linked, Tail(notices) = << >>, Showing', ~TakenBack, ~outrun, ~raced',
                        screen # "gone"
                 PROVE  FALSE
      BY <1>2, <1>3 DEF TakeNotice, StatusTakenBack
    <3>1. Head(notices) # TRUE
      BY <1>3, NoticeTaken DEF TakeNotice, NoticesTakenBack, TypingInv, TypingTypeOK
    <3>2. status /\ screen = "chat" /\ ~(status /\ user)
      BY <1>3, <3>1 DEF TakeNotice, Showing, TypingInv, TypingTypeOK
    <3>3. ~raced /\ io = "waiting" /\ cleanup # "clearing" /\ cleanup # "clearing user"
      BY <1>3, <3>1, <3>2 DEF TakeNotice, ThreadsInStep, TypingInv
    <3> QED BY <3>2, <3>3 DEF ThreadsInStep, TypingInv, TypingTypeOK
  <2> QED BY <1>2, <2>1, <2>2, <2>3
<1>4. ASSUME UNCHANGED <<notices, screen>>, ThreadsInStep',
             Showing' => Showing \/ raced',
             raced => raced'
      PROVE  NoticesTakenBack' /\ StatusTakenBack' /\ ThreadsInStep' /\ KeyNotOutrun'
  BY <1>2, <1>4 DEF NoticesTakenBack, StatusTakenBack, TypingInv
<1>5. CASE SetStatus
  BY <1>4, <1>5 DEF SetStatus, ThreadsInStep, Showing, TypingInv, TypingTypeOK
<1>6. CASE SetUser
  BY <1>4, <1>6 DEF SetUser, ThreadsInStep, Showing, TypingInv, TypingTypeOK
<1>7. CASE SetTime
  BY <1>4, <1>7 DEF SetTime, ThreadsInStep, Showing, TypingInv, TypingTypeOK
<1>8. CASE ClearStatus
  BY <1>4, <1>8 DEF ClearStatus, ThreadsInStep, Showing, TypingInv, TypingTypeOK
<1>9. CASE ClearUser
  BY <1>4, <1>9 DEF ClearUser, ThreadsInStep, Showing, TypingInv, TypingTypeOK
<1>10. CASE CleanupSeesOld
  BY <1>4, <1>10 DEF CleanupSeesOld, ThreadsInStep, Showing, TypingInv, TypingTypeOK
<1>11. CASE CleanupClearsStatus
  BY <1>4, <1>11 DEF CleanupClearsStatus, ThreadsInStep, Showing, TypingInv, TypingTypeOK
<1>12. CASE CleanupClearsUser
  BY <1>4, <1>12 DEF CleanupClearsUser, ThreadsInStep, Showing, TypingInv, TypingTypeOK
<1>13. CASE TimePasses
  BY <1>4, <1>13 DEF TimePasses, ThreadsInStep, Showing, TypingInv
<1>14. CASE ReceiverEnters \/ ReceiverLeaves
  <2>1. /\ UNCHANGED <<notices, status, user, io, cleanup, raced>>
        /\ screen = "gone" => screen' = "gone"
    BY <1>14 DEF ReceiverEnters, ReceiverLeaves
  <2>2. ThreadsInStep' /\ (Showing' <=> Showing)
    BY <2>1 DEF ThreadsInStep, Showing, TypingInv
  <2> QED BY <1>2, <2>1, <2>2 DEF NoticesTakenBack, StatusTakenBack, TypingInv
<1> QED
  BY <1>3, <1>5, <1>6, <1>7, <1>8, <1>9, <1>10, <1>11, <1>12, <1>13, <1>14
  DEF IoStep, CleanupStep

-----------------------------------------------------------------------------
(* The theorems.                                                            *)

\* The invariant holds at the start ...
LEMMA TypingInvInit == TypingInit => TypingInv
<1>1. TypingInit => TypingTypeOK
  BY TypingTypeInit
<1>2. TypingInit => KeyNotOutrun /\ NoticesTakenBack /\ StatusTakenBack /\ ThreadsInStep
  BY DEF TypingInit, KeyNotOutrun, NoticesTakenBack, StatusTakenBack, Showing, ThreadsInStep
<1> QED BY <1>1, <1>2 DEF TypingInv

\* ... and every step keeps it.
LEMMA TypingInvStep ==
    ASSUME TypingInv, [TypingNext]_typingVars
    PROVE  TypingInv'
<1>1. TypingTypeOK'
  BY TypingTypeStep DEF TypingInv
<1>2. ReceiverTypes'
  BY <1>1 DEF TypingTypeOK, ReceiverTypes
<1>3. CASE UNCHANGED typingVars
  BY <1>1, <1>3 DEF typingVars, senderVars, receiverVars, TypingInv, KeyNotOutrun, NoticesTakenBack,
     TakenBack, InLine, StatusTakenBack, Showing, ThreadsInStep
<1>4. CASE ChatStep \/ TimerStep \/ DetachedStep \/ SecondPasses \/ Key \/ Backspace \/ EndLine
             \/ ChatEnds
  BY <1>1, <1>4, TypeParts, SenderSteps, SenderKeepsPromises DEF TypingInv
<1>5. CASE IoStep \/ CleanupStep \/ TimePasses \/ ReceiverEnters \/ ReceiverLeaves
  BY <1>1, <1>2, <1>5, ReceiverKeepsPromises DEF TypingInv
<1>6. CASE LinkLost
  BY <1>1, <1>6 DEF LinkLost, senderVars, receiverVars, TypingInv, KeyNotOutrun, NoticesTakenBack,
     StatusTakenBack, Showing, ThreadsInStep
<1> QED
  BY <1>3, <1>4, <1>5, <1>6 DEF TypingNext, UserStep

\* Every variable of the typing notices keeps its type, for any bound on the
\* notices on their way (client_ui.cpp:313-376, 395-441, 543-556).
THEOREM TypingTypeCorrect == TypingSpec => []TypingTypeOK
<1>1. TypingInit => TypingTypeOK
  BY TypingTypeInit
<1>2. TypingTypeOK /\ [TypingNext]_typingVars => TypingTypeOK'
  BY TypingTypeStep
<1> QED BY <1>1, <1>2, PTL DEF TypingSpec

\* Between two lines of the sender the partner sees no status, once every notice
\* has been handled: the notice at the end of a line (client_ui.cpp:369), or that
\* of a timer, takes back what a key wrote, in every interleaving of the sender's
\* chat and timer threads with the receiver's io and cleanup threads, unless one
\* of the two races that outrun and raced record has happened.
THEOREM StatusEndsWithLine == TypingSpec => []NoStatusBetweenLines
<1>1. TypingInit => TypingInv
  BY TypingInvInit
<1>2. TypingInv /\ [TypingNext]_typingVars => TypingInv'
  BY TypingInvStep
<1>3. TypingInv => NoStatusBetweenLines
  BY DEF TypingInv, TypingTypeOK, StatusTakenBack, Showing, TakenBack, InLine, NoStatusBetweenLines,
     Quiet
<1> QED BY <1>1, <1>2, <1>3, PTL DEF TypingSpec
=============================================================================
