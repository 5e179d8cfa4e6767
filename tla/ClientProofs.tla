----------------------------- MODULE ClientProofs -----------------------------
(***************************************************************************)
(* Proofs about the client for any set of names, any failures and any      *)
(* number of requests.                                                     *)
(***************************************************************************)
EXTENDS ClientProperties, SequenceTheorems, TLAPS

-----------------------------------------------------------------------------
(* Sequences: what is put behind a sequence, and what is taken from it.     *)

\* An element put behind a sequence.
LEMMA AppendType ==
    ASSUME NEW S, NEW q \in Seq(S), NEW e \in S
    PROVE  Append(q, e) \in Seq(S)
OBVIOUS

\* The first element and the others.
LEMMA TailType ==
    ASSUME NEW S, NEW q \in Seq(S), q # << >>
    PROVE  Head(q) \in S /\ Tail(q) \in Seq(S)
BY HeadTailProperties

\* A sequence cut in two.
LEMMA SplitType ==
    ASSUME NEW S, NEW q \in Seq(S), NEW k \in 1..Len(q)
    PROVE  SubSeq(q, 1, k) \in Seq(S) /\ SubSeq(q, k + 1, Len(q)) \in Seq(S)
<1>1. Len(q) \in Nat /\ \A i \in 1..Len(q) : q[i] \in S
  BY ElementOfSeq, LenProperties
<1>2. \A i \in 1..k : q[i] \in S
  BY <1>1
<1>3. \A i \in (k + 1)..Len(q) : q[i] \in S
  BY <1>1
<1> QED
  BY <1>1, <1>2, <1>3, SubSeqProperties

\* The sequence with nothing in it.
LEMMA EmptyType ==
    ASSUME NEW S
    PROVE  << >> \in Seq(S)
OBVIOUS

-----------------------------------------------------------------------------
(* Types.                                                                   *)

Requests == Seq(Request)
Answers == Seq(Answer)

ConnectionTypes ==
    /\ connected \in BOOLEAN /\ receiving \in BOOLEAN
    /\ callbacks \in BOOLEAN /\ listening \in BOOLEAN
    /\ listening => callbacks
    /\ receiving => connected
    /\ link \in {"none", "up", "lost", "closed"}
    /\ requests \in Requests /\ lines \in Answers /\ buffered \in Answers
    /\ sent \in Nat
    /\ serverUser \in Names \cup {NoName}

MachineTypes ==
    /\ state \in ClientState
    /\ currentUsername \in Names \cup {NoName} /\ chatTarget \in Names \cup {NoName}
    /\ io \in {"waiting", "logged in", "registered", "stopped"}

UITypes ==
    /\ main \in MainPlaces /\ chat \in ChatPlaces
    /\ entered \in Names \cup {NoName} /\ shownTarget \in Names \cup {NoName}
    /\ inChat \in BOOLEAN /\ chatRunning \in BOOLEAN
    /\ cleanupRunning \in BOOLEAN /\ cleanup \in {"none", "running", "ended"}
    /\ late \in BOOLEAN

\* ClientTypeOK in three parts: one per module of the client.
LEMMA TypeParts == ClientTypeOK <=> ConnectionTypes /\ MachineTypes /\ UITypes
BY DEF ClientTypeOK, ConnectionTypes, MachineTypes, UITypes, Requests, Answers

\* The initial state has the types.
LEMMA InitTypes == ClientInit => ClientTypeOK
<1> SUFFICES ASSUME ClientInit PROVE ClientTypeOK
  OBVIOUS
<1>1. ConnectionTypes
  BY EmptyType DEF ClientInit, ConnectionInit, ConnectionTypes, Requests, Answers
<1>2. MachineTypes
  BY DEF ClientInit, MachineInit, MachineTypes, ClientState
<1>3. UITypes
  BY DEF ClientInit, UITypes, MainPlaces, ChatPlaces
<1> QED
  BY <1>1, <1>2, <1>3, TypeParts

\* A request that is sent.
LEMMA SendType ==
    ASSUME ConnectionTypes, NEW r \in Request, Send(r)
    PROVE  ConnectionTypes'
<1>1. Append(requests, r) \in Requests
  BY AppendType DEF ConnectionTypes, Requests
<1>2. requests' \in Requests /\ lines' \in Answers /\ buffered' \in Answers
  BY <1>1 DEF ConnectionTypes, Send, SendFails
<1>3. listening' \in BOOLEAN
  BY DEF ConnectionTypes, Send, SendFails, HandleError
<1>4. listening' => callbacks'
  BY DEF ConnectionTypes, Send, SendFails, HandleError
<1>5. /\ connected' \in BOOLEAN /\ receiving' \in BOOLEAN /\ callbacks' \in BOOLEAN
      /\ receiving' => connected'
      /\ link' \in {"none", "up", "lost", "closed"}
      /\ sent' \in Nat /\ serverUser' \in Names \cup {NoName}
  BY DEF ConnectionTypes, Send, SendFails
<1> QED
  BY <1>2, <1>3, <1>4, <1>5 DEF ConnectionTypes

\* A logout.
LEMMA LogoutType ==
    ASSUME ConnectionTypes, Logout
    PROVE  ConnectionTypes'
<1>1. << >> \in Answers
  BY EmptyType DEF Answers
<1> QED
  BY <1>1 DEF ConnectionTypes, Logout, Disconnect, wireVars

\* A line taken from the buffer: it is an answer.
LEMMA TakeLineType ==
    ASSUME ConnectionTypes, TakeLine, UNCHANGED listening \/ HandleError
    PROVE  ConnectionTypes' /\ Head(buffered) \in Answer
<1>1. Head(buffered) \in Answer /\ Tail(buffered) \in Answers
  BY TailType DEF ConnectionTypes, TakeLine, Answers
<1>2. listening' \in BOOLEAN
  BY DEF ConnectionTypes, TakeLine, HandleError
<1>3. listening' => callbacks'
  BY DEF ConnectionTypes, TakeLine, HandleError
<1>4. /\ connected' \in BOOLEAN /\ receiving' \in BOOLEAN /\ callbacks' \in BOOLEAN
      /\ receiving' => connected'
      /\ link' \in {"none", "up", "lost", "closed"}
      /\ sent' \in Nat /\ serverUser' \in Names \cup {NoName}
  BY DEF ConnectionTypes, TakeLine
<1>5. requests' \in Requests /\ lines' \in Answers /\ buffered' \in Answers
  BY <1>1 DEF ConnectionTypes, TakeLine
<1> QED
  BY <1>1, <1>2, <1>3, <1>4, <1>5 DEF ConnectionTypes

\* Lines read into the buffer.
LEMMA LinesReadType ==
    ASSUME ConnectionTypes, LinesRead
    PROVE  ConnectionTypes'
<1>1. PICK k \in 1..Len(lines) : ReadLines(k)
  BY DEF LinesRead
<1>2. SubSeq(lines, 1, k) \in Answers /\ SubSeq(lines, k + 1, Len(lines)) \in Answers
  BY SplitType DEF ConnectionTypes, Answers
<1> QED
  BY <1>1, <1>2 DEF ConnectionTypes, ReadLines, LinesRead

\* An answer of the server.
LEMMA AnswerType ==
    ASSUME ConnectionTypes, ServerAnswers
    PROVE  ConnectionTypes'
<1>1. Head(requests) \in Request /\ Tail(requests) \in Requests
  BY TailType DEF ConnectionTypes, ServerAnswers, Requests
<1>2. PICK success \in BOOLEAN, type \in {Head(requests).type} \cup ({"garbled"} \cap Failures) :
         /\ serverUser' = IF Head(requests).type = "login" /\ success THEN Head(requests).name
                          ELSE serverUser
         /\ lines' = Append(lines, [type |-> type, success |-> success])
  BY DEF ServerAnswers
<1>3. [type |-> type, success |-> success] \in Answer
  BY <1>1 DEF Request, Answer
<1>4. lines' \in Answers
  BY <1>2, <1>3, AppendType DEF ConnectionTypes, Answers
<1>5. serverUser' \in Names \cup {NoName}
  BY <1>1, <1>2 DEF Request, ConnectionTypes
<1> QED
  BY <1>1, <1>4, <1>5 DEF ConnectionTypes, ServerAnswers

\* The loss of the connection.
LEMMA LinkLostType ==
    ASSUME ConnectionTypes, LinkLost
    PROVE  ConnectionTypes'
<1>1. << >> \in Answers /\ << >> \in Requests
  BY EmptyType DEF Answers, Requests
<1> QED
  BY <1>1 DEF ConnectionTypes, LinkLost

\* A step of the io thread or of the server leaves the other threads alone.
LEMMA UIKept ==
    ASSUME UITypes, UNCHANGED uiVars
    PROVE  UITypes'
<1>1. /\ main' = main /\ entered' = entered /\ late' = late
      /\ inChat' = inChat /\ chatRunning' = chatRunning /\ shownTarget' = shownTarget
      /\ chat' = chat /\ cleanupRunning' = cleanupRunning /\ cleanup' = cleanup
  BY DEF uiVars, chatVars, cleanupVars
<1> QED
  BY <1>1 DEF UITypes

\* Every step keeps the types: one step of the proof for each action.
LEMMA TypeStep ==
    ASSUME ClientTypeOK, [ClientNext]_clientVars
    PROVE  ClientTypeOK'
<1> SUFFICES ASSUME ConnectionTypes, MachineTypes, UITypes
             PROVE  ConnectionTypes' /\ MachineTypes' /\ UITypes'
  BY TypeParts, PTL
<1>1. CASE UNCHANGED clientVars
  <2>1. ConnectionTypes'
    BY <1>1 DEF clientVars, connectionVars, wireVars, ConnectionTypes
  <2>2. MachineTypes' /\ UITypes'
    BY <1>1 DEF clientVars, machineVars, uiVars, chatVars, cleanupVars, MachineTypes, UITypes
  <2> QED BY <2>1, <2>2
<1>2. CASE ConnectToServer
  <2>1. ConnectionTypes'
    BY <1>2 DEF ConnectToServer, TryConnect, Connect, connectionVars, wireVars, ConnectionTypes
  <2>2. MachineTypes'
    BY <1>2 DEF ConnectToServer, TryConnect, Connect, machineVars, MachineTypes, ClientState
  <2>3. UITypes'
    BY <1>2 DEF ConnectToServer, TryConnect, Connect, GoTo, uiVars, chatVars, cleanupVars,
       UITypes, MainPlaces, ChatPlaces
  <2> QED BY <2>1, <2>2, <2>3
<1>3. CASE CannotConnect
  <2>1. ConnectionTypes'
    BY <1>3 DEF CannotConnect, connectionVars, wireVars, ConnectionTypes
  <2>2. MachineTypes'
    BY <1>3 DEF CannotConnect, machineVars, MachineTypes, ClientState
  <2>3. UITypes'
    BY <1>3 DEF CannotConnect, GoTo, uiVars, chatVars, cleanupVars, UITypes, MainPlaces,
       ChatPlaces
  <2> QED BY <2>1, <2>2, <2>3
<1>4. CASE Listen
  <2>1. ConnectionTypes'
    BY <1>4 DEF Listen, StartListening, connectionVars, wireVars, ConnectionTypes
  <2>2. MachineTypes'
    BY <1>4 DEF Listen, StartListening, machineVars, MachineTypes, ClientState
  <2>3. UITypes'
    BY <1>4 DEF Listen, StartListening, GoTo, uiVars, chatVars, cleanupVars, UITypes, MainPlaces,
       ChatPlaces
  <2> QED BY <2>1, <2>2, <2>3
<1>5. CASE ShowMenu
  <2>1. ConnectionTypes'
    BY <1>5 DEF ShowMenu, connectionVars, wireVars, ConnectionTypes
  <2>2. MachineTypes'
    BY <1>5 DEF ShowMenu, machineVars, MachineTypes, ClientState
  <2>3. UITypes'
    BY <1>5 DEF ShowMenu, GoTo, uiVars, chatVars, cleanupVars, UITypes, MainPlaces, ChatPlaces
  <2> QED BY <2>1, <2>2, <2>3
<1>6. CASE EnterChat
  <2>1. ConnectionTypes'
    BY <1>6 DEF EnterChat, connectionVars, wireVars, ConnectionTypes
  <2>2. MachineTypes'
    BY <1>6 DEF EnterChat, machineVars, MachineTypes, ClientState
  <2>3. UITypes'
    BY <1>6 DEF EnterChat, GoTo, uiVars, chatVars, cleanupVars, UITypes, MainPlaces, ChatPlaces,
       MachineTypes
  <2> QED BY <2>1, <2>2, <2>3
<1>7. CASE SendLogin
  <2>1. [type |-> "login", name |-> entered] \in Request
    BY DEF Request, UITypes
  <2>2. ConnectionTypes'
    BY <1>7, <2>1, SendType DEF SendLogin
  <2>3. MachineTypes'
    BY <1>7 DEF SendLogin, machineVars, MachineTypes, ClientState
  <2>4. UITypes'
    BY <1>7 DEF SendLogin, GoTo, uiVars, chatVars, cleanupVars, UITypes, MainPlaces, ChatPlaces
  <2> QED BY <2>2, <2>3, <2>4
<1>8. CASE StoreName
  <2>1. ConnectionTypes'
    BY <1>8 DEF StoreName, connectionVars, wireVars, ConnectionTypes
  <2>2. MachineTypes'
    BY <1>8 DEF StoreName, machineVars, MachineTypes, ClientState, UITypes
  <2>3. UITypes'
    BY <1>8 DEF StoreName, GoTo, uiVars, chatVars, cleanupVars, UITypes, MainPlaces, ChatPlaces
  <2> QED BY <2>1, <2>2, <2>3
<1>9. CASE SendRegister
  <2>1. [type |-> "register", name |-> NoName] \in Request
    BY DEF Request, UITypes
  <2>2. ConnectionTypes'
    BY <1>9, <2>1, SendType DEF SendRegister
  <2>3. MachineTypes'
    BY <1>9 DEF SendRegister, machineVars, MachineTypes, ClientState
  <2>4. UITypes'
    BY <1>9 DEF SendRegister, GoTo, uiVars, chatVars, cleanupVars, UITypes, MainPlaces, ChatPlaces
  <2> QED BY <2>2, <2>3, <2>4
<1>10. CASE WaitOver
  <2>1. ConnectionTypes'
    BY <1>10 DEF WaitOver, connectionVars, wireVars, ConnectionTypes
  <2>2. MachineTypes'
    BY <1>10 DEF WaitOver, machineVars, MachineTypes, ClientState
  <2>3. UITypes'
    BY <1>10 DEF WaitOver, GoTo, uiVars, chatVars, cleanupVars, UITypes, MainPlaces, ChatPlaces
  <2> QED BY <2>1, <2>2, <2>3
<1>11. CASE BeginChat
  <2>1. ConnectionTypes'
    BY <1>11 DEF BeginChat, StartChat, connectionVars, wireVars, ConnectionTypes
  <2>2. MachineTypes'
    BY <1>11 DEF BeginChat, StartChat, machineVars, MachineTypes, ClientState, UITypes
  <2>3. UITypes'
    BY <1>11 DEF BeginChat, StartChat, GoTo, uiVars, chatVars, cleanupVars, UITypes, MainPlaces,
       ChatPlaces
  <2> QED BY <2>1, <2>2, <2>3
<1>12. CASE StopIo
  <2>1. ConnectionTypes'
    BY <1>12 DEF StopIo, connectionVars, wireVars, ConnectionTypes
  <2>2. MachineTypes'
    BY <1>12 DEF StopIo, machineVars, MachineTypes, ClientState
  <2>3. UITypes'
    BY <1>12 DEF StopIo, GoTo, uiVars, chatVars, cleanupVars, UITypes, MainPlaces, ChatPlaces
  <2> QED BY <2>1, <2>2, <2>3
<1>13. CASE StopChatThread
  <2>1. ConnectionTypes'
    BY <1>13 DEF StopChatThread, connectionVars, wireVars, ConnectionTypes
  <2>2. MachineTypes'
    BY <1>13 DEF StopChatThread, machineVars, MachineTypes, ClientState
  <2>3. UITypes'
    BY <1>13 DEF StopChatThread, GoTo, uiVars, chatVars, cleanupVars, UITypes, MainPlaces,
       ChatPlaces
  <2> QED BY <2>1, <2>2, <2>3
<1>14. CASE ChatThreadJoined
  <2>1. ConnectionTypes'
    BY <1>14 DEF ChatThreadJoined, connectionVars, wireVars, ConnectionTypes
  <2>2. MachineTypes'
    BY <1>14 DEF ChatThreadJoined, machineVars, MachineTypes, ClientState
  <2>3. UITypes'
    BY <1>14 DEF ChatThreadJoined, GoTo, uiVars, chatVars, cleanupVars, UITypes, MainPlaces,
       ChatPlaces
  <2> QED BY <2>1, <2>2, <2>3
<1>15. CASE CleanupThreadJoined
  <2>1. ConnectionTypes'
    BY <1>15, LogoutType DEF CleanupThreadJoined
  <2>2. MachineTypes'
    BY <1>15 DEF CleanupThreadJoined, Logout, machineVars, MachineTypes, ClientState
  <2>3. UITypes'
    BY <1>15 DEF CleanupThreadJoined, Logout, GoTo, uiVars, chatVars, cleanupVars, UITypes,
       MainPlaces, ChatPlaces
  <2> QED BY <2>1, <2>2, <2>3
<1>16. CASE LinesRead /\ UNCHANGED uiVars
  <2>1. ConnectionTypes'
    BY <1>16, LinesReadType DEF LinesRead
  <2>2. MachineTypes'
    BY <1>16 DEF LinesRead, machineVars, MachineTypes, ClientState
  <2>3. UITypes'
    BY <1>16, UIKept
  <2> QED BY <2>1, <2>2, <2>3
<1>17. CASE LoginAnswered /\ UNCHANGED uiVars
  <2>1. ConnectionTypes'
    BY <1>17, TakeLineType DEF LoginAnswered
  <2>2. MachineTypes'
    BY <1>17 DEF LoginAnswered, machineVars, MachineTypes, ClientState
  <2>3. UITypes'
    BY <1>17, UIKept
  <2> QED BY <2>1, <2>2, <2>3
<1>18. CASE RegisterAnswered /\ UNCHANGED uiVars
  <2>1. ConnectionTypes'
    BY <1>18, TakeLineType DEF RegisterAnswered
  <2>2. MachineTypes'
    BY <1>18 DEF RegisterAnswered, machineVars, MachineTypes, ClientState
  <2>3. UITypes'
    BY <1>18, UIKept
  <2> QED BY <2>1, <2>2, <2>3
<1>19. CASE SecondTransition /\ UNCHANGED uiVars
  <2>1. ConnectionTypes'
    BY <1>19 DEF SecondTransition, connectionVars, wireVars, ConnectionTypes
  <2>2. MachineTypes'
    BY <1>19 DEF SecondTransition, machineVars, MachineTypes, ClientState
  <2>3. UITypes'
    BY <1>19, UIKept
  <2> QED BY <2>1, <2>2, <2>3
<1>20. CASE MessageAnswered /\ UNCHANGED uiVars
  <2>1. ConnectionTypes'
    BY <1>20, TakeLineType DEF MessageAnswered
  <2>2. MachineTypes'
    BY <1>20 DEF MessageAnswered, machineVars, MachineTypes, ClientState
  <2>3. UITypes'
    BY <1>20, UIKept
  <2> QED BY <2>1, <2>2, <2>3
<1>21. CASE GarbledLine /\ UNCHANGED uiVars
  <2>1. ConnectionTypes'
    BY <1>21, TakeLineType DEF GarbledLine
  <2>2. MachineTypes'
    BY <1>21 DEF GarbledLine, machineVars, MachineTypes, ClientState
  <2>3. UITypes'
    BY <1>21, UIKept
  <2> QED BY <2>1, <2>2, <2>3
<1>22. CASE ConnectionFails /\ UNCHANGED uiVars
  <2>1. ConnectionTypes'
    BY <1>22 DEF ConnectionFails, ReadFails, HandleError, connectionVars, wireVars,
       ConnectionTypes
  <2>2. MachineTypes'
    BY <1>22 DEF ConnectionFails, ReadFails, HandleError, machineVars, MachineTypes, ClientState
  <2>3. UITypes'
    BY <1>22, UIKept
  <2> QED BY <2>1, <2>2, <2>3
<1>23. CASE NextLine
  <2>1. ConnectionTypes'
    BY <1>23 DEF NextLine, ChatAt, connectionVars, wireVars, ConnectionTypes
  <2>2. MachineTypes'
    BY <1>23 DEF NextLine, ChatAt, machineVars, MachineTypes, ClientState
  <2>3. UITypes'
    BY <1>23 DEF NextLine, ChatAt, GoTo, uiVars, chatVars, cleanupVars, UITypes, MainPlaces,
       ChatPlaces
  <2> QED BY <2>1, <2>2, <2>3
<1>24. CASE EndLine
  <2>1. ConnectionTypes'
    BY <1>24 DEF EndLine, ChatAt, connectionVars, wireVars, ConnectionTypes
  <2>2. MachineTypes'
    BY <1>24 DEF EndLine, ChatAt, machineVars, MachineTypes, ClientState
  <2>3. UITypes'
    BY <1>24 DEF EndLine, ChatAt, GoTo, uiVars, chatVars, cleanupVars, UITypes, MainPlaces,
       ChatPlaces
  <2> QED BY <2>1, <2>2, <2>3
<1>25. CASE SubmitLine
  <2>1. ConnectionTypes'
    BY <1>25 DEF SubmitLine, ChatAt, connectionVars, wireVars, ConnectionTypes
  <2>2. MachineTypes'
    BY <1>25 DEF SubmitLine, ChatAt, machineVars, MachineTypes, ClientState
  <2>3. UITypes'
    BY <1>25 DEF SubmitLine, ChatAt, GoTo, uiVars, chatVars, cleanupVars, UITypes, MainPlaces,
       ChatPlaces
  <2> QED BY <2>1, <2>2, <2>3
<1>26. CASE StopsItself
  <2>1. ConnectionTypes'
    BY <1>26 DEF StopsItself, connectionVars, wireVars, ConnectionTypes
  <2>2. MachineTypes'
    BY <1>26 DEF StopsItself, machineVars, MachineTypes, ClientState
  <2>3. UITypes'
    BY <1>26 DEF StopsItself, GoTo, uiVars, chatVars, cleanupVars, UITypes, MainPlaces, ChatPlaces
  <2> QED BY <2>1, <2>2, <2>3
<1>27. CASE JoinsItself
  <2>1. ConnectionTypes'
    BY <1>27 DEF JoinsItself, connectionVars, wireVars, ConnectionTypes
  <2>2. MachineTypes'
    BY <1>27 DEF JoinsItself, machineVars, MachineTypes, ClientState
  <2>3. UITypes'
    BY <1>27 DEF JoinsItself, GoTo, uiVars, chatVars, cleanupVars, UITypes, MainPlaces, ChatPlaces
  <2> QED BY <2>1, <2>2, <2>3
<1>28. CASE ExitChatMode
  <2>1. ConnectionTypes'
    BY <1>28 DEF ExitChatMode, ChatAt, connectionVars, wireVars, ConnectionTypes
  <2>2. MachineTypes'
    BY <1>28 DEF ExitChatMode, ChatAt, machineVars, MachineTypes, ClientState
  <2>3. UITypes'
    BY <1>28 DEF ExitChatMode, ChatAt, GoTo, uiVars, chatVars, cleanupVars, UITypes, MainPlaces,
       ChatPlaces
  <2> QED BY <2>1, <2>2, <2>3
<1>29. CASE CleanupEnds
  <2>1. ConnectionTypes'
    BY <1>29 DEF CleanupEnds, connectionVars, wireVars, ConnectionTypes
  <2>2. MachineTypes'
    BY <1>29 DEF CleanupEnds, machineVars, MachineTypes, ClientState
  <2>3. UITypes'
    BY <1>29 DEF CleanupEnds, GoTo, uiVars, chatVars, cleanupVars, UITypes, MainPlaces, ChatPlaces
  <2> QED BY <2>1, <2>2, <2>3
<1>30. CASE ChooseOther
  <2>1. ConnectionTypes'
    BY <1>30 DEF ChooseOther, connectionVars, wireVars, ConnectionTypes
  <2>2. MachineTypes'
    BY <1>30 DEF ChooseOther, machineVars, MachineTypes, ClientState
  <2>3. UITypes'
    BY <1>30 DEF ChooseOther, GoTo, uiVars, chatVars, cleanupVars, UITypes, MainPlaces, ChatPlaces
  <2> QED BY <2>1, <2>2, <2>3
<1>31. CASE ChooseLogin
  <2>1. ConnectionTypes'
    BY <1>31 DEF ChooseLogin, connectionVars, wireVars, ConnectionTypes
  <2>2. MachineTypes'
    BY <1>31 DEF ChooseLogin, machineVars, MachineTypes, ClientState
  <2>3. UITypes'
    BY <1>31 DEF ChooseLogin, GoTo, uiVars, chatVars, cleanupVars, UITypes, MainPlaces, ChatPlaces
  <2> QED BY <2>1, <2>2, <2>3
<1>32. CASE ChooseChat
  <2>1. ConnectionTypes'
    BY <1>32 DEF ChooseChat, connectionVars, wireVars, ConnectionTypes
  <2>2. MachineTypes'
    BY <1>32 DEF ChooseChat, machineVars, MachineTypes, ClientState
  <2>3. UITypes'
    BY <1>32 DEF ChooseChat, GoTo, uiVars, chatVars, cleanupVars, UITypes, MainPlaces, ChatPlaces
  <2> QED BY <2>1, <2>2, <2>3
<1>33. CASE ChooseLogout
  <2>1. ConnectionTypes'
    BY <1>33, LogoutType DEF ChooseLogout
  <2>2. MachineTypes'
    BY <1>33 DEF ChooseLogout, Logout, machineVars, MachineTypes, ClientState
  <2>3. UITypes'
    BY <1>33 DEF ChooseLogout, Logout, GoTo, uiVars, chatVars, cleanupVars, UITypes, MainPlaces,
       ChatPlaces
  <2> QED BY <2>1, <2>2, <2>3
<1>34. CASE NoticeFails
  <2>1. ConnectionTypes'
    BY <1>34 DEF NoticeFails, SendFails, HandleError, connectionVars, wireVars, ConnectionTypes
  <2>2. MachineTypes'
    BY <1>34 DEF NoticeFails, SendFails, HandleError, machineVars, MachineTypes, ClientState
  <2>3. UITypes'
    BY <1>34, UIKept DEF NoticeFails
  <2> QED BY <2>1, <2>2, <2>3
<1>35. CASE ServerAnswers /\ UNCHANGED <<machineVars, io, uiVars>>
  <2>1. ConnectionTypes'
    BY <1>35, AnswerType DEF ServerAnswers
  <2>2. MachineTypes'
    BY <1>35 DEF ServerAnswers, machineVars, MachineTypes, ClientState
  <2>3. UITypes'
    BY <1>35, UIKept
  <2> QED BY <2>1, <2>2, <2>3
<1>36. CASE LinkLost /\ UNCHANGED <<machineVars, io, uiVars>>
  <2>1. ConnectionTypes'
    BY <1>36, LinkLostType DEF LinkLost
  <2>2. MachineTypes'
    BY <1>36 DEF LinkLost, machineVars, MachineTypes, ClientState
  <2>3. UITypes'
    BY <1>36, UIKept
  <2> QED BY <2>1, <2>2, <2>3
<1>37. CASE WriteMessage
  <2>1. [type |-> "message", name |-> chatTarget] \in Request
    BY DEF Request, MachineTypes
  <2>2. ConnectionTypes'
    BY <1>37, <2>1, SendType DEF WriteMessage, SendMessage, connectionVars, wireVars,
       ConnectionTypes
  <2>3. MachineTypes'
    BY <1>37 DEF WriteMessage, ChatAt, machineVars, MachineTypes, ClientState
  <2>4. UITypes'
    BY <1>37 DEF WriteMessage, ChatAt, GoTo, uiVars, chatVars, cleanupVars, UITypes, MainPlaces,
       ChatPlaces
  <2> QED BY <2>2, <2>3, <2>4
<1> QED
  BY <1>1, <1>2, <1>3, <1>4, <1>5, <1>6, <1>7, <1>8, <1>9, <1>10, <1>11, <1>12, <1>13, <1>14,
     <1>15, <1>16, <1>17, <1>18, <1>19, <1>20, <1>21, <1>22, <1>23, <1>24, <1>25, <1>26, <1>27,
     <1>28, <1>29, <1>30, <1>31, <1>32, <1>33, <1>34, <1>35, <1>36, <1>37
     DEF ClientNext, MainStep, IoStep, ChatStep, UserStep, Environment, Enter, LineCut

\* Every variable of a client always has its type, the receiver listens only
\* with its callbacks set, and the socket is read only while it is connected.
THEOREM ClientTypeCorrect == ClientSpec => []ClientTypeOK
<1>1. ClientInit => ClientTypeOK
  BY InitTypes
<1>2. ClientTypeOK /\ [ClientNext]_clientVars => ClientTypeOK'
  BY TypeStep
<1> QED
  BY <1>1, <1>2, PTL DEF ClientSpec

-----------------------------------------------------------------------------
(* What is proved by induction.                                             *)

AcceptedStates == {"LoggedIn", "Menu", "Chatting"}

\* Every trace of an accepted login is a trace of one that the server has
\* accepted: an answer on its way, the io thread between its two transitions,
\* the state, and the places of the main and the chat thread, which have read the
\* state before.
RequestsAllowed ==
    {r \in Request : /\ r.type = "login" => r.name \in Names
                     /\ r.type = "message" => serverUser # NoName}

AnswersAllowed == {a \in Answer : a.type = "login" /\ a.success => serverUser # NoName}

StreamsAllowed ==
    requests \in Seq(RequestsAllowed) /\ lines \in Seq(AnswersAllowed)
       /\ buffered \in Seq(AnswersAllowed)

PlacesAllowed ==
    /\ io = "logged in" => serverUser # NoName
    /\ state \in AcceptedStates => serverUser # NoName
    /\ main \in {"main menu", "start chat"} => serverUser # NoName
    /\ chat = "sending" => serverUser # NoName
    /\ main = "login" => entered \in Names

LoginInv == StreamsAllowed /\ PlacesAllowed

\* Except while a login or registration waits, none is under way.
MessageRequests == {r \in Request : r.type = "message"}
OtherAnswers    == {a \in Answer : a.type \notin {"login", "register"}}

Settled ==
    /\ requests \in Seq(MessageRequests)
    /\ lines \in Seq(OtherAnswers) /\ buffered \in Seq(OtherAnswers)
    /\ io \in {"waiting", "stopped"}

\* While one waits, every trace of a login is one of the login under this name.
LoginsOf(name)        == {r \in Request : r.type = "login" => r.name = name}
AnswersTo(name, user) == {a \in Answer : a.type = "login" /\ a.success => user = name}

UnderWay(name) ==
    /\ requests \in Seq(LoginsOf(name))
    /\ lines \in Seq(AnswersTo(name, serverUser)) /\ buffered \in Seq(AnswersTo(name, serverUser))
    /\ io = "logged in" \/ state \in AcceptedStates => serverUser = name

NamePlaces ==
    /\ main # "login sent" /\ state \in AcceptedStates => currentUsername = serverUser
    /\ main = "login" => state = "AwaitingLogin"
    /\ main \in {"main menu", "start chat"} => state = "Menu"

NameInv ==
    ~late =>
       /\ main \notin {"login sent", "waiting"} => Settled
       /\ main = "login sent" => UnderWay(entered)
       /\ main = "waiting" => UnderWay(currentUsername)
       /\ NamePlaces

\* A chat that is open, or whose thread was started, keeps the main thread in
\* its loop, or on its way out.
ChatInv ==
    ~late /\ (inChat \/ chat # "none") =>
       /\ main \in {"loop", "leaving", "shutdown", "joining", "joining cleanup", "ended",
                    "terminated"}
       /\ state \in {"Chatting", "Disconnected"}
       /\ main = "loop" => state = "Chatting"
       /\ inChat /\ state = "Chatting" => chatTarget = shownTarget

ClientInv == ClientTypeOK /\ LoginInv /\ NameInv /\ ChatInv

-----------------------------------------------------------------------------
(* What a step may do to the streams of lines.                              *)

StreamsCut ==
    /\ requests' \in {requests, << >>} /\ lines' \in {lines, << >>}
    /\ buffered' = buffered /\ serverUser' = serverUser

Sent(request) ==
    /\ requests' \in {requests, Append(requests, request)}
    /\ lines' = lines /\ buffered' = buffered /\ serverUser' = serverUser

StreamStep ==
    \/ StreamsCut
    \/ main = "login" /\ main' = "login sent" /\ Sent([type |-> "login", name |-> entered])
    \/ main = "register" /\ main' = "waiting" /\ Sent([type |-> "register", name |-> NoName])
    \/ chat = "sending" /\ Sent([type |-> "message", name |-> chatTarget]) /\ main' = main
    \/ LinesRead
    \/ TakeLine
    \/ ServerAnswers

\* A request is put behind the others, or lost.
LEMMA SendSends ==
    ASSUME NEW r, Send(r)
    PROVE  Sent(r)
BY DEF Send, Sent, SendFails

\* Every step does one of these things to them.
LEMMA StreamSteps ==
    ASSUME [ClientNext]_clientVars
    PROVE  StreamStep
<1>1. CASE UNCHANGED clientVars
  BY <1>1 DEF clientVars, connectionVars, wireVars, StreamStep, StreamsCut
<1>2. CASE ConnectToServer
  BY <1>2 DEF ConnectToServer, TryConnect, Connect, connectionVars, wireVars, StreamStep, StreamsCut
<1>3. CASE CannotConnect
  BY <1>3 DEF CannotConnect, connectionVars, wireVars, StreamStep, StreamsCut
<1>4. CASE Listen
  BY <1>4 DEF Listen, StartListening, connectionVars, wireVars, StreamStep, StreamsCut
<1>5. CASE ShowMenu
  BY <1>5 DEF ShowMenu, connectionVars, wireVars, StreamStep, StreamsCut
<1>6. CASE EnterChat
  BY <1>6 DEF EnterChat, connectionVars, wireVars, StreamStep, StreamsCut
<1>7. CASE StoreName
  BY <1>7 DEF StoreName, connectionVars, wireVars, StreamStep, StreamsCut
<1>8. CASE WaitOver
  BY <1>8 DEF WaitOver, connectionVars, wireVars, StreamStep, StreamsCut
<1>9. CASE BeginChat
  BY <1>9 DEF BeginChat, StartChat, connectionVars, wireVars, StreamStep, StreamsCut
<1>10. CASE StopIo
  BY <1>10 DEF StopIo, connectionVars, wireVars, StreamStep, StreamsCut
<1>11. CASE StopChatThread
  BY <1>11 DEF StopChatThread, connectionVars, wireVars, StreamStep, StreamsCut
<1>12. CASE ChatThreadJoined
  BY <1>12 DEF ChatThreadJoined, connectionVars, wireVars, StreamStep, StreamsCut
<1>13. CASE SecondTransition
  BY <1>13 DEF SecondTransition, connectionVars, wireVars, StreamStep, StreamsCut
<1>14. CASE ConnectionFails
  BY <1>14 DEF ConnectionFails, ReadFails, connectionVars, wireVars, StreamStep, StreamsCut
<1>15. CASE NextLine
  BY <1>15 DEF NextLine, connectionVars, wireVars, StreamStep, StreamsCut
<1>16. CASE EndLine
  BY <1>16 DEF EndLine, connectionVars, wireVars, StreamStep, StreamsCut
<1>17. CASE StopsItself
  BY <1>17 DEF StopsItself, connectionVars, wireVars, StreamStep, StreamsCut
<1>18. CASE JoinsItself
  BY <1>18 DEF JoinsItself, connectionVars, wireVars, StreamStep, StreamsCut
<1>19. CASE ExitChatMode
  BY <1>19 DEF ExitChatMode, connectionVars, wireVars, StreamStep, StreamsCut
<1>20. CASE CleanupEnds
  BY <1>20 DEF CleanupEnds, connectionVars, wireVars, StreamStep, StreamsCut
<1>21. CASE ChooseOther
  BY <1>21 DEF ChooseOther, connectionVars, wireVars, StreamStep, StreamsCut
<1>22. CASE ChooseLogin
  BY <1>22 DEF ChooseLogin, connectionVars, wireVars, StreamStep, StreamsCut
<1>23. CASE ChooseChat
  BY <1>23 DEF ChooseChat, connectionVars, wireVars, StreamStep, StreamsCut
<1>24. CASE NoticeFails
  BY <1>24 DEF NoticeFails, connectionVars, wireVars, StreamStep, StreamsCut
<1>25. CASE CleanupThreadJoined
  BY <1>25 DEF CleanupThreadJoined, Logout, Disconnect, wireVars, StreamStep, StreamsCut
<1>26. CASE ChooseLogout
  BY <1>26 DEF ChooseLogout, Logout, Disconnect, wireVars, StreamStep, StreamsCut
<1>27. CASE LinkLost
  BY <1>27 DEF LinkLost, StreamStep, StreamsCut
<1>28. CASE SendLogin
  BY <1>28, SendSends DEF SendLogin, GoTo, StreamStep
<1>29. CASE SendRegister
  BY <1>29, SendSends DEF SendRegister, GoTo, StreamStep
<1>30. CASE SubmitLine
  BY <1>30 DEF SubmitLine, connectionVars, wireVars, StreamStep, StreamsCut
<1>31. CASE LoginAnswered
  BY <1>31 DEF LoginAnswered, StreamStep
<1>32. CASE RegisterAnswered
  BY <1>32 DEF RegisterAnswered, StreamStep
<1>33. CASE MessageAnswered
  BY <1>33 DEF MessageAnswered, StreamStep
<1>34. CASE GarbledLine
  BY <1>34 DEF GarbledLine, StreamStep
<1>35. CASE WriteMessage
  BY <1>35, SendSends DEF WriteMessage, SendMessage, ChatAt, StreamStep
<1> QED
  BY <1>1, <1>2, <1>3, <1>4, <1>5, <1>6, <1>7, <1>8, <1>9, <1>10, <1>11, <1>12, <1>13, <1>14,
     <1>15, <1>16, <1>17, <1>18, <1>19, <1>20, <1>21, <1>22, <1>23, <1>24, <1>25, <1>26, <1>27,
     <1>28, <1>29, <1>30, <1>31, <1>32, <1>33, <1>34, <1>35
     DEF ClientNext, MainStep, IoStep, ChatStep, UserStep, Environment, Enter, LineCut, StreamStep

-----------------------------------------------------------------------------
(* Streams whose elements are all from a set.                               *)

\* The elements stay in their sets in a step in which nothing is answered.
LEMMA StreamsKept ==
    ASSUME NEW R, NEW A, StreamStep, ~ServerAnswers,
           requests \in Seq(R), lines \in Seq(A), buffered \in Seq(A),
           main = "login" /\ main' = "login sent" => [type |-> "login", name |-> entered] \in R,
           main = "register" /\ main' = "waiting" => [type |-> "register", name |-> NoName] \in R,
           chat = "sending" => [type |-> "message", name |-> chatTarget] \in R
    PROVE  requests' \in Seq(R) /\ lines' \in Seq(A) /\ buffered' \in Seq(A)
<1>1. CASE StreamsCut
  BY <1>1, EmptyType DEF StreamsCut
<1>2. ASSUME NEW r \in R, Sent(r)
      PROVE  requests' \in Seq(R) /\ lines' \in Seq(A) /\ buffered' \in Seq(A)
  BY <1>2, AppendType DEF Sent
<1>3. CASE LinesRead
  <2>1. PICK k \in 1..Len(lines) : ReadLines(k)
    BY <1>3 DEF LinesRead
  <2>2. SubSeq(lines, 1, k) \in Seq(A) /\ SubSeq(lines, k + 1, Len(lines)) \in Seq(A)
    BY SplitType
  <2> QED
    BY <2>1, <2>2 DEF ReadLines
<1>4. CASE TakeLine
  <2>1. Tail(buffered) \in Seq(A)
    BY <1>4, TailType DEF TakeLine
  <2> QED
    BY <1>4, <2>1 DEF TakeLine
<1> QED
  BY <1>1, <1>2, <1>3, <1>4 DEF StreamStep

\* An answer goes to the end of the lines.
LEMMA AnswerKept ==
    ASSUME NEW R, NEW A, NEW R2, NEW A2, R \subseteq R2, A \subseteq A2, ServerAnswers,
           requests \in Seq(R), lines \in Seq(A), buffered \in Seq(A),
           \A success \in BOOLEAN, type \in {Head(requests).type, "garbled"} :
              lines' = Append(lines, [type |-> type, success |-> success])
              /\ serverUser' = (IF Head(requests).type = "login" /\ success
                                THEN Head(requests).name ELSE serverUser)
              => [type |-> type, success |-> success] \in A2
    PROVE  requests' \in Seq(R2) /\ lines' \in Seq(A2) /\ buffered' \in Seq(A2)
<1>1. requests \in Seq(R2) /\ lines \in Seq(A2) /\ buffered \in Seq(A2)
  BY SeqMonotonic
<1>2. requests' \in Seq(R2) /\ buffered' \in Seq(A2)
  BY <1>1, TailType DEF ServerAnswers
<1>3. PICK success \in BOOLEAN, type \in {Head(requests).type, "garbled"} :
         /\ lines' = Append(lines, [type |-> type, success |-> success])
         /\ serverUser' = (IF Head(requests).type = "login" /\ success
                           THEN Head(requests).name ELSE serverUser)
  BY DEF ServerAnswers
<1>4. lines' \in Seq(A2)
  BY <1>1, <1>3, AppendType
<1> QED
  BY <1>2, <1>4

-----------------------------------------------------------------------------
(* A message is only sent after a login.                                    *)

\* Only the server changes who is logged in, and only to a name.
LEMMA LoginKept ==
    ASSUME ClientTypeOK, LoginInv, [ClientNext]_clientVars
    PROVE  /\ serverUser' = serverUser \/ ServerAnswers
           /\ serverUser # NoName => serverUser' # NoName
<1>1. StreamStep
  BY StreamSteps
<1>2. CASE ServerAnswers
  <2>1. Head(requests) \in RequestsAllowed
    BY <1>2, TailType DEF ServerAnswers, LoginInv, StreamsAllowed
  <2>2. Head(requests).type = "login" => Head(requests).name # NoName
    BY <2>1, ConnectionAssumption DEF RequestsAllowed
  <2> QED
    BY <1>2, <2>2 DEF ServerAnswers
<1>3. CASE ~ServerAnswers
  BY <1>1, <1>3 DEF StreamStep, StreamsCut, Sent, LinesRead, ReadLines, TakeLine
<1> QED
  BY <1>2, <1>3

\* What is under way shows only an accepted login.
LEMMA LoginStreams ==
    ASSUME ClientTypeOK, LoginInv, [ClientNext]_clientVars
    PROVE  StreamsAllowed'
<1>1. StreamStep
  BY StreamSteps
<1>2. /\ requests \in Seq(RequestsAllowed) /\ lines \in Seq(AnswersAllowed)
      /\ buffered \in Seq(AnswersAllowed)
  BY DEF LoginInv, StreamsAllowed
<1>3. CASE ~ServerAnswers
  <2>1. serverUser' = serverUser
    BY <1>3, LoginKept
  <2>2. RequestsAllowed' = RequestsAllowed /\ AnswersAllowed' = AnswersAllowed
    BY <2>1 DEF RequestsAllowed, AnswersAllowed
  <2>3. main = "login" => [type |-> "login", name |-> entered] \in RequestsAllowed
    BY DEF LoginInv, PlacesAllowed, RequestsAllowed, Request
  <2>4. [type |-> "register", name |-> NoName] \in RequestsAllowed
    BY DEF RequestsAllowed, Request
  <2>5. chat = "sending" => [type |-> "message", name |-> chatTarget] \in RequestsAllowed
    BY DEF LoginInv, PlacesAllowed, AcceptedStates, RequestsAllowed, Request, ClientTypeOK
  <2>6. /\ requests' \in Seq(RequestsAllowed) /\ lines' \in Seq(AnswersAllowed)
        /\ buffered' \in Seq(AnswersAllowed)
    BY <1>1, <1>2, <1>3, <2>3, <2>4, <2>5, StreamsKept
  <2> QED
    BY <2>2, <2>6 DEF StreamsAllowed
<1>4. CASE ServerAnswers
  <2>1. Head(requests) \in RequestsAllowed
    BY <1>2, <1>4, TailType DEF ServerAnswers
  <2>2. RequestsAllowed \subseteq RequestsAllowed' /\ AnswersAllowed \subseteq AnswersAllowed'
    BY LoginKept DEF RequestsAllowed, AnswersAllowed
  <2>3. ASSUME NEW success \in BOOLEAN, NEW type \in {Head(requests).type, "garbled"},
               serverUser' = (IF Head(requests).type = "login" /\ success
                              THEN Head(requests).name ELSE serverUser)
        PROVE  [type |-> type, success |-> success] \in AnswersAllowed'
    BY <2>1, <2>3, ConnectionAssumption DEF RequestsAllowed, Request, AnswersAllowed, Answer
  <2>4. /\ requests' \in Seq(RequestsAllowed') /\ lines' \in Seq(AnswersAllowed')
        /\ buffered' \in Seq(AnswersAllowed')
    BY <1>2, <1>4, <2>2, <2>3, AnswerKept
  <2> QED
    BY <2>4 DEF StreamsAllowed
<1> QED
  BY <1>3, <1>4

\* The places of the threads that tell of a login.
LEMMA LoginPlaces ==
    ASSUME ClientTypeOK, LoginInv, [ClientNext]_clientVars
    PROVE  PlacesAllowed'
<1>1. serverUser # NoName => serverUser' # NoName
  BY LoginKept
<1>2. CASE UNCHANGED clientVars
  BY <1>2, <1>1 DEF clientVars, machineVars, uiVars, chatVars, cleanupVars, LoginInv,
     PlacesAllowed, AcceptedStates
<1>3. CASE ConnectToServer
  BY <1>3, <1>1 DEF ConnectToServer, TryConnect, GoTo, machineVars, chatVars, cleanupVars,
     LoginInv, PlacesAllowed, AcceptedStates
<1>4. CASE CannotConnect
  BY <1>4, <1>1 DEF CannotConnect, GoTo, machineVars, chatVars, cleanupVars, LoginInv,
     PlacesAllowed, AcceptedStates
<1>5. CASE Listen
  BY <1>5, <1>1 DEF Listen, StartListening, GoTo, machineVars, chatVars, cleanupVars, LoginInv,
     PlacesAllowed, AcceptedStates
<1>6. CASE ShowMenu
  BY <1>6, <1>1 DEF ShowMenu, GoTo, machineVars, chatVars, cleanupVars, LoginInv, PlacesAllowed,
     AcceptedStates
<1>7. CASE EnterChat
  BY <1>7, <1>1 DEF EnterChat, machineVars, chatVars, cleanupVars, LoginInv, PlacesAllowed,
     AcceptedStates
<1>8. CASE SendLogin
  BY <1>8, <1>1 DEF SendLogin, GoTo, machineVars, chatVars, cleanupVars, LoginInv,
     PlacesAllowed, AcceptedStates
<1>9. CASE StoreName
  BY <1>9, <1>1 DEF StoreName, GoTo, machineVars, chatVars, cleanupVars, LoginInv,
     PlacesAllowed, AcceptedStates
<1>10. CASE SendRegister
  BY <1>10, <1>1 DEF SendRegister, GoTo, machineVars, chatVars, cleanupVars, LoginInv,
     PlacesAllowed, AcceptedStates
<1>11. CASE WaitOver
  BY <1>11, <1>1 DEF WaitOver, machineVars, chatVars, cleanupVars, LoginInv, PlacesAllowed,
     AcceptedStates
<1>12. CASE BeginChat
  BY <1>12, <1>1 DEF BeginChat, StartChat, GoTo, machineVars, chatVars, cleanupVars, LoginInv,
     PlacesAllowed, AcceptedStates
<1>13. CASE StopIo
  BY <1>13, <1>1 DEF StopIo, GoTo, machineVars, chatVars, cleanupVars, LoginInv, PlacesAllowed,
     AcceptedStates
<1>14. CASE StopChatThread
  BY <1>14, <1>1 DEF StopChatThread, machineVars, chatVars, cleanupVars, LoginInv,
     PlacesAllowed, AcceptedStates
<1>15. CASE ChatThreadJoined
  BY <1>15, <1>1 DEF ChatThreadJoined, machineVars, chatVars, cleanupVars, LoginInv,
     PlacesAllowed, AcceptedStates
<1>16. CASE CleanupThreadJoined
  BY <1>16, <1>1 DEF CleanupThreadJoined, Logout, GoTo, machineVars, chatVars, cleanupVars,
     LoginInv, PlacesAllowed, AcceptedStates
<1>17. CASE LinesRead /\ UNCHANGED uiVars
  BY <1>17, <1>1 DEF LinesRead, uiVars, machineVars, chatVars, cleanupVars, LoginInv,
     PlacesAllowed, AcceptedStates
<1>18. CASE LoginAnswered /\ UNCHANGED uiVars
  <2>1. Head(buffered) \in AnswersAllowed
    BY <1>18, TailType DEF LoginAnswered, TakeLine, LoginInv, StreamsAllowed
  <2>2. io' = "logged in" \/ state' \in AcceptedStates => serverUser # NoName
    BY <1>18, <2>1 DEF LoginAnswered, LoginInv, PlacesAllowed, AnswersAllowed, machineVars
  <2> QED
    BY <1>18, <1>1, <2>2 DEF LoginInv, PlacesAllowed, uiVars, chatVars
<1>19. CASE RegisterAnswered /\ UNCHANGED uiVars
  BY <1>19, <1>1 DEF RegisterAnswered, uiVars, machineVars, chatVars, cleanupVars, LoginInv,
     PlacesAllowed, AcceptedStates
<1>20. CASE SecondTransition /\ UNCHANGED uiVars
  BY <1>20, <1>1 DEF SecondTransition, uiVars, machineVars, chatVars, cleanupVars, LoginInv,
     PlacesAllowed, AcceptedStates
<1>21. CASE MessageAnswered /\ UNCHANGED uiVars
  BY <1>21, <1>1 DEF MessageAnswered, uiVars, machineVars, chatVars, cleanupVars, LoginInv,
     PlacesAllowed, AcceptedStates
<1>22. CASE GarbledLine /\ UNCHANGED uiVars
  BY <1>22, <1>1 DEF GarbledLine, uiVars, machineVars, chatVars, cleanupVars, LoginInv,
     PlacesAllowed, AcceptedStates
<1>23. CASE ConnectionFails /\ UNCHANGED uiVars
  BY <1>23, <1>1 DEF ConnectionFails, uiVars, machineVars, chatVars, cleanupVars, LoginInv,
     PlacesAllowed, AcceptedStates
<1>24. CASE NextLine
  BY <1>24, <1>1 DEF NextLine, ChatAt, machineVars, chatVars, cleanupVars, LoginInv,
     PlacesAllowed, AcceptedStates
<1>25. CASE EndLine
  BY <1>25, <1>1 DEF EndLine, ChatAt, machineVars, chatVars, cleanupVars, LoginInv,
     PlacesAllowed, AcceptedStates
<1>26. CASE SubmitLine
  BY <1>26, <1>1 DEF SubmitLine, ChatAt, machineVars, chatVars, cleanupVars, LoginInv,
     PlacesAllowed, AcceptedStates
<1>27. CASE StopsItself
  BY <1>27, <1>1 DEF StopsItself, machineVars, chatVars, cleanupVars, LoginInv, PlacesAllowed,
     AcceptedStates
<1>28. CASE JoinsItself
  BY <1>28, <1>1 DEF JoinsItself, machineVars, chatVars, cleanupVars, LoginInv, PlacesAllowed,
     AcceptedStates
<1>29. CASE ExitChatMode
  BY <1>29, <1>1 DEF ExitChatMode, ChatAt, machineVars, chatVars, cleanupVars, LoginInv,
     PlacesAllowed, AcceptedStates
<1>30. CASE CleanupEnds
  BY <1>30, <1>1 DEF CleanupEnds, machineVars, chatVars, cleanupVars, LoginInv, PlacesAllowed,
     AcceptedStates
<1>31. CASE ChooseOther
  BY <1>31, <1>1 DEF ChooseOther, GoTo, machineVars, chatVars, cleanupVars, LoginInv,
     PlacesAllowed, AcceptedStates
<1>32. CASE ChooseLogin
  BY <1>32, <1>1 DEF ChooseLogin, GoTo, machineVars, chatVars, cleanupVars, LoginInv,
     PlacesAllowed, AcceptedStates
<1>33. CASE ChooseChat
  BY <1>33, <1>1 DEF ChooseChat, GoTo, machineVars, chatVars, cleanupVars, LoginInv,
     PlacesAllowed, AcceptedStates
<1>34. CASE ChooseLogout
  BY <1>34, <1>1 DEF ChooseLogout, Logout, GoTo, machineVars, chatVars, cleanupVars, LoginInv,
     PlacesAllowed, AcceptedStates
<1>35. CASE NoticeFails
  BY <1>35, <1>1 DEF NoticeFails, uiVars, machineVars, chatVars, cleanupVars, LoginInv,
     PlacesAllowed, AcceptedStates
<1>36. CASE ServerAnswers /\ UNCHANGED <<machineVars, io, uiVars>>
  BY <1>36, <1>1 DEF ServerAnswers, uiVars, machineVars, chatVars, cleanupVars, LoginInv,
     PlacesAllowed, AcceptedStates
<1>37. CASE LinkLost /\ UNCHANGED <<machineVars, io, uiVars>>
  BY <1>37, <1>1 DEF LinkLost, uiVars, machineVars, chatVars, cleanupVars, LoginInv,
     PlacesAllowed, AcceptedStates
<1>38. CASE WriteMessage
  BY <1>38, <1>1 DEF WriteMessage, ChatAt, machineVars, chatVars, cleanupVars, LoginInv,
     PlacesAllowed, AcceptedStates
<1> QED
  BY <1>2, <1>3, <1>4, <1>5, <1>6, <1>7, <1>8, <1>9, <1>10, <1>11, <1>12, <1>13, <1>14, <1>15,
     <1>16, <1>17, <1>18, <1>19, <1>20, <1>21, <1>22, <1>23, <1>24, <1>25, <1>26, <1>27, <1>28,
     <1>29, <1>30, <1>31, <1>32, <1>33, <1>34, <1>35, <1>36, <1>37, <1>38 DEF ClientNext, MainStep,
     IoStep, ChatStep, UserStep, Environment, Enter, LineCut

-----------------------------------------------------------------------------
(* The name that is stored is the one that the server has accepted.         *)

\* While no login or registration is under way, nothing that arrives changes
\* who is logged in or the state.
LEMMA SettledQuiet ==
    ASSUME ClientTypeOK, Settled, [ClientNext]_clientVars
    PROVE  /\ serverUser' = serverUser
           /\ ~LoginAnswered /\ ~RegisterAnswered /\ ~SecondTransition
<1>1. StreamStep
  BY StreamSteps
<1>2. serverUser' = serverUser
  <2>1. CASE ServerAnswers
    <3>1. Head(requests) \in MessageRequests
      BY <2>1, TailType DEF ServerAnswers, Settled
    <3> QED
      BY <2>1, <3>1 DEF ServerAnswers, MessageRequests
  <2>2. CASE ~ServerAnswers
    BY <1>1, <2>2 DEF StreamStep, StreamsCut, Sent, LinesRead, ReadLines, TakeLine
  <2> QED BY <2>1, <2>2
<1>3. ~LoginAnswered /\ ~RegisterAnswered
  <2>1. SUFFICES ASSUME LoginAnswered \/ RegisterAnswered PROVE FALSE
    OBVIOUS
  <2>2. Head(buffered) \in OtherAnswers
    BY <2>1, TailType DEF LoginAnswered, RegisterAnswered, TakeLine, Settled
  <2> QED
    BY <2>1, <2>2 DEF LoginAnswered, RegisterAnswered, OtherAnswers
<1>4. ~SecondTransition
  BY DEF Settled, SecondTransition
<1> QED
  BY <1>2, <1>3, <1>4

\* It stays like this until a login or a registration is sent.
LEMMA SettledKept ==
    ASSUME ClientTypeOK, Settled, [ClientNext]_clientVars,
           main = "login" => main' # "login sent",
           main = "register" => main' # "waiting"
    PROVE  Settled'
<1>1. StreamStep
  BY StreamSteps
<1>2. requests' \in Seq(MessageRequests) /\ lines' \in Seq(OtherAnswers)
         /\ buffered' \in Seq(OtherAnswers)
  <2>1. CASE ServerAnswers
    <3>1. Head(requests) \in MessageRequests
      BY <2>1, TailType DEF ServerAnswers, Settled
    <3>2. \A success \in BOOLEAN, type \in {Head(requests).type, "garbled"} :
             [type |-> type, success |-> success] \in OtherAnswers
      BY <3>1 DEF MessageRequests, OtherAnswers, Answer
    <3> QED
      BY <2>1, <3>2, AnswerKept DEF Settled
  <2>2. CASE ~ServerAnswers
    <3>1. chat = "sending" => [type |-> "message", name |-> chatTarget] \in MessageRequests
      BY DEF MessageRequests, Request, ClientTypeOK
    <3> QED
      BY <1>1, <2>2, <3>1, StreamsKept DEF Settled
  <2> QED BY <2>1, <2>2
<1>3. io' \in {"waiting", "stopped"}
  BY SettledQuiet DEF Settled, ClientNext, MainStep, IoStep, ChatStep, UserStep, Environment,
     clientVars, ConnectToServer, CannotConnect, Listen, ShowMenu, EnterChat, SendLogin, StoreName,
     SendRegister, WaitOver, BeginChat, StopIo, StopChatThread, ChatThreadJoined,
     CleanupThreadJoined, LinesRead, MessageAnswered, GarbledLine, ConnectionFails, NextLine,
     LineCut, Enter, EndLine, SubmitLine, WriteMessage, StopsItself, JoinsItself, ExitChatMode,
     ChatAt, CleanupEnds, ChooseOther, ChooseLogin, ChooseChat, ChooseLogout, NoticeFails
<1> QED
  BY <1>2, <1>3 DEF Settled

\* While the main thread waits for a login, what is under way stays of its name.
LEMMA UnderWayKept ==
    ASSUME ClientTypeOK, NEW name, UnderWay(name), [ClientNext]_clientVars,
           main \notin {"login", "register"}
    PROVE  /\ requests' \in Seq(LoginsOf(name))
           /\ lines' \in Seq(AnswersTo(name, serverUser'))
           /\ buffered' \in Seq(AnswersTo(name, serverUser'))
           /\ serverUser = name => serverUser' = name
<1>1. StreamStep
  BY StreamSteps
<1>2. CASE ServerAnswers
  <2>1. Head(requests) \in LoginsOf(name)
    BY <1>2, TailType DEF ServerAnswers, UnderWay
  <2>2. serverUser' \in {serverUser, name}
    BY <1>2, <2>1 DEF ServerAnswers, LoginsOf
  <2>3. AnswersTo(name, serverUser) \subseteq AnswersTo(name, serverUser')
    BY <2>2 DEF AnswersTo
  <2>4. ASSUME NEW success \in BOOLEAN, NEW type \in {Head(requests).type, "garbled"},
               serverUser' = (IF Head(requests).type = "login" /\ success
                              THEN Head(requests).name ELSE serverUser)
        PROVE  [type |-> type, success |-> success] \in AnswersTo(name, serverUser')
    BY <2>1, <2>4 DEF LoginsOf, Request, AnswersTo, Answer
  <2>5. requests' \in Seq(LoginsOf(name)) /\ lines' \in Seq(AnswersTo(name, serverUser'))
           /\ buffered' \in Seq(AnswersTo(name, serverUser'))
    BY <1>2, <2>3, <2>4, AnswerKept DEF UnderWay
  <2> QED BY <2>2, <2>5
<1>3. CASE ~ServerAnswers
  <2>1. serverUser' = serverUser
    BY <1>1, <1>3 DEF StreamStep, StreamsCut, Sent, LinesRead, ReadLines, TakeLine
  <2>2. chat = "sending" => [type |-> "message", name |-> chatTarget] \in LoginsOf(name)
    BY DEF LoginsOf, Request, ClientTypeOK
  <2>3. requests' \in Seq(LoginsOf(name)) /\ lines' \in Seq(AnswersTo(name, serverUser))
           /\ buffered' \in Seq(AnswersTo(name, serverUser))
    BY <1>1, <1>3, <2>2, StreamsKept DEF UnderWay
  <2> QED BY <2>1, <2>3
<1> QED
  BY <1>2, <1>3

\* The name is the one logged in as soon as a trace of the login's success shows.
LEMMA UnderWayAccepted ==
    ASSUME ClientTypeOK, NEW name, UnderWay(name), [ClientNext]_clientVars,
           main \in {"login sent", "waiting"}
    PROVE  io' = "logged in" \/ state' \in AcceptedStates => serverUser' = name
<1>1. serverUser = name => serverUser' = name
  BY UnderWayKept
<1>2. CASE UNCHANGED clientVars
  BY <1>2, <1>1 DEF clientVars, machineVars, uiVars, chatVars, cleanupVars, UnderWay,
     AcceptedStates
<1>3. CASE ConnectToServer
  BY <1>3, <1>1 DEF ConnectToServer, TryConnect, GoTo, machineVars, chatVars, cleanupVars,
     UnderWay, AcceptedStates
<1>4. CASE CannotConnect
  BY <1>4, <1>1 DEF CannotConnect, GoTo, machineVars, chatVars, cleanupVars, UnderWay,
     AcceptedStates
<1>5. CASE Listen
  BY <1>5, <1>1 DEF Listen, StartListening, GoTo, machineVars, chatVars, cleanupVars, UnderWay,
     AcceptedStates
<1>6. CASE ShowMenu
  BY <1>6, <1>1 DEF ShowMenu, GoTo, machineVars, chatVars, cleanupVars, UnderWay, AcceptedStates
<1>7. CASE EnterChat
  BY <1>7, <1>1 DEF EnterChat, machineVars, chatVars, cleanupVars, UnderWay, AcceptedStates
<1>8. CASE SendLogin
  BY <1>8, <1>1 DEF SendLogin, GoTo, machineVars, chatVars, cleanupVars, UnderWay,
     AcceptedStates
<1>9. CASE StoreName
  BY <1>9, <1>1 DEF StoreName, GoTo, machineVars, chatVars, cleanupVars, UnderWay,
     AcceptedStates
<1>10. CASE SendRegister
  BY <1>10, <1>1 DEF SendRegister, GoTo, machineVars, chatVars, cleanupVars, UnderWay,
     AcceptedStates
<1>11. CASE WaitOver
  BY <1>11, <1>1 DEF WaitOver, machineVars, chatVars, cleanupVars, UnderWay, AcceptedStates
<1>12. CASE BeginChat
  BY <1>12, <1>1 DEF BeginChat, StartChat, GoTo, machineVars, chatVars, cleanupVars, UnderWay,
     AcceptedStates
<1>13. CASE StopIo
  BY <1>13, <1>1 DEF StopIo, GoTo, machineVars, chatVars, cleanupVars, UnderWay, AcceptedStates
<1>14. CASE StopChatThread
  BY <1>14, <1>1 DEF StopChatThread, machineVars, chatVars, cleanupVars, UnderWay,
     AcceptedStates
<1>15. CASE ChatThreadJoined
  BY <1>15, <1>1 DEF ChatThreadJoined, machineVars, chatVars, cleanupVars, UnderWay,
     AcceptedStates
<1>16. CASE CleanupThreadJoined
  BY <1>16, <1>1 DEF CleanupThreadJoined, Logout, GoTo, machineVars, chatVars, cleanupVars,
     UnderWay, AcceptedStates
<1>17. CASE LinesRead /\ UNCHANGED uiVars
  BY <1>17, <1>1 DEF LinesRead, uiVars, machineVars, chatVars, cleanupVars, UnderWay,
     AcceptedStates
<1>18. CASE LoginAnswered /\ UNCHANGED uiVars
  <2>1. Head(buffered) \in AnswersTo(name, serverUser)
    BY <1>18, TailType DEF LoginAnswered, TakeLine, UnderWay
  <2> QED
    BY <1>18, <1>1, <2>1 DEF LoginAnswered, UnderWay, AnswersTo, machineVars
<1>19. CASE RegisterAnswered /\ UNCHANGED uiVars
  BY <1>19, <1>1 DEF RegisterAnswered, uiVars, machineVars, chatVars, cleanupVars, UnderWay,
     AcceptedStates
<1>20. CASE SecondTransition /\ UNCHANGED uiVars
  BY <1>20, <1>1 DEF SecondTransition, uiVars, machineVars, chatVars, cleanupVars, UnderWay,
     AcceptedStates
<1>21. CASE MessageAnswered /\ UNCHANGED uiVars
  BY <1>21, <1>1 DEF MessageAnswered, uiVars, machineVars, chatVars, cleanupVars, UnderWay,
     AcceptedStates
<1>22. CASE GarbledLine /\ UNCHANGED uiVars
  BY <1>22, <1>1 DEF GarbledLine, uiVars, machineVars, chatVars, cleanupVars, UnderWay,
     AcceptedStates
<1>23. CASE ConnectionFails /\ UNCHANGED uiVars
  BY <1>23, <1>1 DEF ConnectionFails, uiVars, machineVars, chatVars, cleanupVars, UnderWay,
     AcceptedStates
<1>24. CASE NextLine
  BY <1>24, <1>1 DEF NextLine, ChatAt, machineVars, chatVars, cleanupVars, UnderWay,
     AcceptedStates
<1>25. CASE EndLine
  BY <1>25, <1>1 DEF EndLine, ChatAt, machineVars, chatVars, cleanupVars, UnderWay,
     AcceptedStates
<1>26. CASE SubmitLine
  BY <1>26, <1>1 DEF SubmitLine, ChatAt, machineVars, chatVars, cleanupVars, UnderWay,
     AcceptedStates
<1>27. CASE StopsItself
  BY <1>27, <1>1 DEF StopsItself, machineVars, chatVars, cleanupVars, UnderWay, AcceptedStates
<1>28. CASE JoinsItself
  BY <1>28, <1>1 DEF JoinsItself, machineVars, chatVars, cleanupVars, UnderWay, AcceptedStates
<1>29. CASE ExitChatMode
  BY <1>29, <1>1 DEF ExitChatMode, ChatAt, machineVars, chatVars, cleanupVars, UnderWay,
     AcceptedStates
<1>30. CASE CleanupEnds
  BY <1>30, <1>1 DEF CleanupEnds, machineVars, chatVars, cleanupVars, UnderWay, AcceptedStates
<1>31. CASE ChooseOther
  BY <1>31, <1>1 DEF ChooseOther, GoTo, machineVars, chatVars, cleanupVars, UnderWay,
     AcceptedStates
<1>32. CASE ChooseLogin
  BY <1>32, <1>1 DEF ChooseLogin, GoTo, machineVars, chatVars, cleanupVars, UnderWay,
     AcceptedStates
<1>33. CASE ChooseChat
  BY <1>33, <1>1 DEF ChooseChat, GoTo, machineVars, chatVars, cleanupVars, UnderWay,
     AcceptedStates
<1>34. CASE ChooseLogout
  BY <1>34, <1>1 DEF ChooseLogout, Logout, GoTo, machineVars, chatVars, cleanupVars, UnderWay,
     AcceptedStates
<1>35. CASE NoticeFails
  BY <1>35, <1>1 DEF NoticeFails, uiVars, machineVars, chatVars, cleanupVars, UnderWay,
     AcceptedStates
<1>36. CASE ServerAnswers /\ UNCHANGED <<machineVars, io, uiVars>>
  BY <1>36, <1>1 DEF ServerAnswers, uiVars, machineVars, chatVars, cleanupVars, UnderWay,
     AcceptedStates
<1>37. CASE LinkLost /\ UNCHANGED <<machineVars, io, uiVars>>
  BY <1>37, <1>1 DEF LinkLost, uiVars, machineVars, chatVars, cleanupVars, UnderWay,
     AcceptedStates
<1>38. CASE WriteMessage
  BY <1>38, <1>1 DEF WriteMessage, ChatAt, machineVars, chatVars, cleanupVars, UnderWay,
     AcceptedStates
<1> QED
  BY <1>2, <1>3, <1>4, <1>5, <1>6, <1>7, <1>8, <1>9, <1>10, <1>11, <1>12, <1>13, <1>14, <1>15,
     <1>16, <1>17, <1>18, <1>19, <1>20, <1>21, <1>22, <1>23, <1>24, <1>25, <1>26, <1>27, <1>28,
     <1>29, <1>30, <1>31, <1>32, <1>33, <1>34, <1>35, <1>36, <1>37, <1>38 DEF ClientNext, MainStep,
     IoStep, ChatStep, UserStep, Environment, Enter, LineCut

\* Only these steps begin or end the wait of the main thread for an answer.
LEMMA WaitSteps ==
    ASSUME ChatInv, ~late, [ClientNext]_clientVars, main' # main,
           {main, main'} \cap {"login sent", "waiting"} # {}
    PROVE  StoreName \/ WaitOver \/ SendLogin \/ SendRegister \/ ChooseLogin
<1>1. CASE UNCHANGED clientVars
  BY <1>1 DEF clientVars, machineVars, uiVars, chatVars, cleanupVars, ChatInv
<1>2. CASE ConnectToServer
  BY <1>2 DEF ConnectToServer, TryConnect, GoTo, machineVars, chatVars, cleanupVars, ChatInv
<1>3. CASE CannotConnect
  BY <1>3 DEF CannotConnect, GoTo, machineVars, chatVars, cleanupVars, ChatInv
<1>4. CASE Listen
  BY <1>4 DEF Listen, StartListening, GoTo, machineVars, chatVars, cleanupVars, ChatInv
<1>5. CASE ShowMenu
  BY <1>5 DEF ShowMenu, GoTo, machineVars, chatVars, cleanupVars, ChatInv
<1>6. CASE EnterChat
  BY <1>6 DEF EnterChat, machineVars, chatVars, cleanupVars, ChatInv
<1>7. CASE SendLogin
  BY <1>7
<1>8. CASE StoreName
  BY <1>8
<1>9. CASE SendRegister
  BY <1>9
<1>10. CASE WaitOver
  BY <1>10
<1>11. CASE BeginChat
  BY <1>11 DEF BeginChat, StartChat, GoTo, machineVars, chatVars, cleanupVars, ChatInv
<1>12. CASE StopIo
  BY <1>12 DEF StopIo, GoTo, machineVars, chatVars, cleanupVars, ChatInv
<1>13. CASE StopChatThread
  BY <1>13 DEF StopChatThread, machineVars, chatVars, cleanupVars, ChatInv
<1>14. CASE ChatThreadJoined
  BY <1>14 DEF ChatThreadJoined, machineVars, chatVars, cleanupVars, ChatInv
<1>15. CASE CleanupThreadJoined
  BY <1>15 DEF CleanupThreadJoined, Logout, GoTo, machineVars, chatVars, cleanupVars, ChatInv
<1>16. CASE LinesRead /\ UNCHANGED uiVars
  BY <1>16 DEF LinesRead, uiVars, machineVars, chatVars, cleanupVars, ChatInv
<1>17. CASE LoginAnswered /\ UNCHANGED uiVars
  BY <1>17 DEF LoginAnswered, uiVars, machineVars, chatVars, cleanupVars, ChatInv
<1>18. CASE RegisterAnswered /\ UNCHANGED uiVars
  BY <1>18 DEF RegisterAnswered, uiVars, machineVars, chatVars, cleanupVars, ChatInv
<1>19. CASE SecondTransition /\ UNCHANGED uiVars
  BY <1>19 DEF SecondTransition, uiVars, machineVars, chatVars, cleanupVars, ChatInv
<1>20. CASE MessageAnswered /\ UNCHANGED uiVars
  BY <1>20 DEF MessageAnswered, uiVars, machineVars, chatVars, cleanupVars, ChatInv
<1>21. CASE GarbledLine /\ UNCHANGED uiVars
  BY <1>21 DEF GarbledLine, uiVars, machineVars, chatVars, cleanupVars, ChatInv
<1>22. CASE ConnectionFails /\ UNCHANGED uiVars
  BY <1>22 DEF ConnectionFails, uiVars, machineVars, chatVars, cleanupVars, ChatInv
<1>23. CASE NextLine
  BY <1>23 DEF NextLine, ChatAt, machineVars, chatVars, cleanupVars, ChatInv
<1>24. CASE EndLine
  BY <1>24 DEF EndLine, ChatAt, machineVars, chatVars, cleanupVars, ChatInv
<1>25. CASE SubmitLine
  BY <1>25 DEF SubmitLine, ChatAt, machineVars, chatVars, cleanupVars, ChatInv
<1>26. CASE StopsItself
  BY <1>26 DEF StopsItself, machineVars, chatVars, cleanupVars, ChatInv
<1>27. CASE JoinsItself
  BY <1>27 DEF JoinsItself, machineVars, chatVars, cleanupVars, ChatInv
<1>28. CASE ExitChatMode
  BY <1>28 DEF ExitChatMode, ChatAt, machineVars, chatVars, cleanupVars, ChatInv
<1>29. CASE CleanupEnds
  BY <1>29 DEF CleanupEnds, machineVars, chatVars, cleanupVars, ChatInv
<1>30. CASE ChooseOther
  BY <1>30 DEF ChooseOther, GoTo, machineVars, chatVars, cleanupVars, ChatInv
<1>31. CASE ChooseLogin
  BY <1>31
<1>32. CASE ChooseChat
  BY <1>32 DEF ChooseChat, GoTo, machineVars, chatVars, cleanupVars, ChatInv
<1>33. CASE ChooseLogout
  BY <1>33 DEF ChooseLogout, Logout, GoTo, machineVars, chatVars, cleanupVars, ChatInv
<1>34. CASE NoticeFails
  BY <1>34 DEF NoticeFails, uiVars, machineVars, chatVars, cleanupVars, ChatInv
<1>35. CASE ServerAnswers /\ UNCHANGED <<machineVars, io, uiVars>>
  BY <1>35 DEF ServerAnswers, uiVars, machineVars, chatVars, cleanupVars, ChatInv
<1>36. CASE LinkLost /\ UNCHANGED <<machineVars, io, uiVars>>
  BY <1>36 DEF LinkLost, uiVars, machineVars, chatVars, cleanupVars, ChatInv
<1>37. CASE WriteMessage
  BY <1>37 DEF WriteMessage, ChatAt, machineVars, chatVars, cleanupVars, ChatInv
<1> QED
  BY <1>1, <1>2, <1>3, <1>4, <1>5, <1>6, <1>7, <1>8, <1>9, <1>10, <1>11, <1>12, <1>13, <1>14,
     <1>15, <1>16, <1>17, <1>18, <1>19, <1>20, <1>21, <1>22, <1>23, <1>24, <1>25, <1>26, <1>27,
     <1>28, <1>29, <1>30, <1>31, <1>32, <1>33, <1>34, <1>35, <1>36, <1>37 DEF ClientNext, MainStep,
     IoStep, ChatStep, UserStep, Environment, Enter, LineCut

\* Away from a login, the state and the stored name change together.
LEMMA PlacesKept ==
    ASSUME ClientTypeOK, Settled, NamePlaces, [ClientNext]_clientVars,
           main \notin {"login sent", "waiting"}
    PROVE  NamePlaces'
<1>1. serverUser' = serverUser /\ ~LoginAnswered /\ ~RegisterAnswered /\ ~SecondTransition
  BY SettledQuiet
<1>2. CASE UNCHANGED clientVars
  BY <1>2, <1>1 DEF clientVars, machineVars, uiVars, chatVars, cleanupVars, NamePlaces,
     AcceptedStates
<1>3. CASE ConnectToServer
  BY <1>3, <1>1 DEF ConnectToServer, TryConnect, GoTo, machineVars, chatVars, cleanupVars,
     NamePlaces, AcceptedStates
<1>4. CASE CannotConnect
  BY <1>4, <1>1 DEF CannotConnect, GoTo, machineVars, chatVars, cleanupVars, NamePlaces,
     AcceptedStates
<1>5. CASE Listen
  BY <1>5, <1>1 DEF Listen, StartListening, GoTo, machineVars, chatVars, cleanupVars,
     NamePlaces, AcceptedStates
<1>6. CASE ShowMenu
  BY <1>6, <1>1 DEF ShowMenu, GoTo, machineVars, chatVars, cleanupVars, NamePlaces,
     AcceptedStates
<1>7. CASE EnterChat
  BY <1>7, <1>1 DEF EnterChat, machineVars, chatVars, cleanupVars, NamePlaces, AcceptedStates
<1>8. CASE SendLogin
  BY <1>8, <1>1 DEF SendLogin, GoTo, machineVars, chatVars, cleanupVars, NamePlaces,
     AcceptedStates
<1>9. CASE StoreName
  BY <1>9, <1>1 DEF StoreName, GoTo, machineVars, chatVars, cleanupVars, NamePlaces,
     AcceptedStates
<1>10. CASE SendRegister
  BY <1>10, <1>1 DEF SendRegister, GoTo, machineVars, chatVars, cleanupVars, NamePlaces,
     AcceptedStates
<1>11. CASE WaitOver
  BY <1>11, <1>1 DEF WaitOver, machineVars, chatVars, cleanupVars, NamePlaces, AcceptedStates
<1>12. CASE BeginChat
  BY <1>12, <1>1 DEF BeginChat, StartChat, GoTo, machineVars, chatVars, cleanupVars, NamePlaces,
     AcceptedStates
<1>13. CASE StopIo
  BY <1>13, <1>1 DEF StopIo, GoTo, machineVars, chatVars, cleanupVars, NamePlaces,
     AcceptedStates
<1>14. CASE StopChatThread
  BY <1>14, <1>1 DEF StopChatThread, machineVars, chatVars, cleanupVars, NamePlaces,
     AcceptedStates
<1>15. CASE ChatThreadJoined
  BY <1>15, <1>1 DEF ChatThreadJoined, machineVars, chatVars, cleanupVars, NamePlaces,
     AcceptedStates
<1>16. CASE CleanupThreadJoined
  BY <1>16, <1>1 DEF CleanupThreadJoined, Logout, GoTo, machineVars, chatVars, cleanupVars,
     NamePlaces, AcceptedStates
<1>17. CASE LinesRead /\ UNCHANGED uiVars
  BY <1>17, <1>1 DEF LinesRead, uiVars, machineVars, chatVars, cleanupVars, NamePlaces,
     AcceptedStates
<1>18. CASE LoginAnswered /\ UNCHANGED uiVars
  BY <1>18, <1>1 DEF LoginAnswered, uiVars, machineVars, chatVars, cleanupVars, NamePlaces,
     AcceptedStates
<1>19. CASE RegisterAnswered /\ UNCHANGED uiVars
  BY <1>19, <1>1 DEF RegisterAnswered, uiVars, machineVars, chatVars, cleanupVars, NamePlaces,
     AcceptedStates
<1>20. CASE SecondTransition /\ UNCHANGED uiVars
  BY <1>20, <1>1 DEF SecondTransition, uiVars, machineVars, chatVars, cleanupVars, NamePlaces,
     AcceptedStates
<1>21. CASE MessageAnswered /\ UNCHANGED uiVars
  BY <1>21, <1>1 DEF MessageAnswered, uiVars, machineVars, chatVars, cleanupVars, NamePlaces,
     AcceptedStates
<1>22. CASE GarbledLine /\ UNCHANGED uiVars
  BY <1>22, <1>1 DEF GarbledLine, uiVars, machineVars, chatVars, cleanupVars, NamePlaces,
     AcceptedStates
<1>23. CASE ConnectionFails /\ UNCHANGED uiVars
  BY <1>23, <1>1 DEF ConnectionFails, uiVars, machineVars, chatVars, cleanupVars, NamePlaces,
     AcceptedStates
<1>24. CASE NextLine
  BY <1>24, <1>1 DEF NextLine, ChatAt, machineVars, chatVars, cleanupVars, NamePlaces,
     AcceptedStates
<1>25. CASE EndLine
  BY <1>25, <1>1 DEF EndLine, ChatAt, machineVars, chatVars, cleanupVars, NamePlaces,
     AcceptedStates
<1>26. CASE SubmitLine
  BY <1>26, <1>1 DEF SubmitLine, ChatAt, machineVars, chatVars, cleanupVars, NamePlaces,
     AcceptedStates
<1>27. CASE StopsItself
  BY <1>27, <1>1 DEF StopsItself, machineVars, chatVars, cleanupVars, NamePlaces, AcceptedStates
<1>28. CASE JoinsItself
  BY <1>28, <1>1 DEF JoinsItself, machineVars, chatVars, cleanupVars, NamePlaces, AcceptedStates
<1>29. CASE ExitChatMode
  BY <1>29, <1>1 DEF ExitChatMode, ChatAt, machineVars, chatVars, cleanupVars, NamePlaces,
     AcceptedStates
<1>30. CASE CleanupEnds
  BY <1>30, <1>1 DEF CleanupEnds, machineVars, chatVars, cleanupVars, NamePlaces, AcceptedStates
<1>31. CASE ChooseOther
  BY <1>31, <1>1 DEF ChooseOther, GoTo, machineVars, chatVars, cleanupVars, NamePlaces,
     AcceptedStates
<1>32. CASE ChooseLogin
  BY <1>32, <1>1 DEF ChooseLogin, GoTo, machineVars, chatVars, cleanupVars, NamePlaces,
     AcceptedStates
<1>33. CASE ChooseChat
  BY <1>33, <1>1 DEF ChooseChat, GoTo, machineVars, chatVars, cleanupVars, NamePlaces,
     AcceptedStates
<1>34. CASE ChooseLogout
  BY <1>34, <1>1 DEF ChooseLogout, Logout, GoTo, machineVars, chatVars, cleanupVars, NamePlaces,
     AcceptedStates
<1>35. CASE NoticeFails
  BY <1>35, <1>1 DEF NoticeFails, uiVars, machineVars, chatVars, cleanupVars, NamePlaces,
     AcceptedStates
<1>36. CASE ServerAnswers /\ UNCHANGED <<machineVars, io, uiVars>>
  BY <1>36, <1>1 DEF ServerAnswers, uiVars, machineVars, chatVars, cleanupVars, NamePlaces,
     AcceptedStates
<1>37. CASE LinkLost /\ UNCHANGED <<machineVars, io, uiVars>>
  BY <1>37, <1>1 DEF LinkLost, uiVars, machineVars, chatVars, cleanupVars, NamePlaces,
     AcceptedStates
<1>38. CASE WriteMessage
  BY <1>38, <1>1 DEF WriteMessage, ChatAt, machineVars, chatVars, cleanupVars, NamePlaces,
     AcceptedStates
<1> QED
  BY <1>2, <1>3, <1>4, <1>5, <1>6, <1>7, <1>8, <1>9, <1>10, <1>11, <1>12, <1>13, <1>14, <1>15,
     <1>16, <1>17, <1>18, <1>19, <1>20, <1>21, <1>22, <1>23, <1>24, <1>25, <1>26, <1>27, <1>28,
     <1>29, <1>30, <1>31, <1>32, <1>33, <1>34, <1>35, <1>36, <1>37, <1>38 DEF ClientNext, MainStep,
     IoStep, ChatStep, UserStep, Environment, Enter, LineCut

\* A name is under way as soon as nothing is.
LEMMA SettledUnderWay ==
    ASSUME Settled, NEW name, NEW user
    PROVE  /\ requests \in Seq(LoginsOf(name))
           /\ lines \in Seq(AnswersTo(name, user)) /\ buffered \in Seq(AnswersTo(name, user))
<1>1. MessageRequests \subseteq LoginsOf(name) /\ OtherAnswers \subseteq AnswersTo(name, user)
  BY DEF MessageRequests, LoginsOf, OtherAnswers, AnswersTo
<1> QED
  BY <1>1, SeqMonotonic DEF Settled

\* While the main thread waits, neither name changes.
LEMMA EnteredKept ==
    ASSUME [ClientNext]_clientVars, main' = main, main \in {"login sent", "waiting"}
    PROVE  entered' = entered /\ currentUsername' = currentUsername
<1>1. CASE UNCHANGED clientVars
  BY <1>1 DEF clientVars, machineVars, uiVars, chatVars, cleanupVars
<1>2. CASE ConnectToServer
  BY <1>2 DEF ConnectToServer, TryConnect, GoTo, machineVars, chatVars, cleanupVars
<1>3. CASE CannotConnect
  BY <1>3 DEF CannotConnect, GoTo, machineVars, chatVars, cleanupVars
<1>4. CASE Listen
  BY <1>4 DEF Listen, StartListening, GoTo, machineVars, chatVars, cleanupVars
<1>5. CASE ShowMenu
  BY <1>5 DEF ShowMenu, GoTo, machineVars, chatVars, cleanupVars
<1>6. CASE EnterChat
  BY <1>6 DEF EnterChat, machineVars, chatVars, cleanupVars
<1>7. CASE SendLogin
  BY <1>7 DEF SendLogin, GoTo, machineVars, chatVars, cleanupVars
<1>8. CASE StoreName
  BY <1>8 DEF StoreName, GoTo, machineVars, chatVars, cleanupVars
<1>9. CASE SendRegister
  BY <1>9 DEF SendRegister, GoTo, machineVars, chatVars, cleanupVars
<1>10. CASE WaitOver
  BY <1>10 DEF WaitOver, machineVars, chatVars, cleanupVars
<1>11. CASE BeginChat
  BY <1>11 DEF BeginChat, StartChat, GoTo, machineVars, chatVars, cleanupVars
<1>12. CASE StopIo
  BY <1>12 DEF StopIo, GoTo, machineVars, chatVars, cleanupVars
<1>13. CASE StopChatThread
  BY <1>13 DEF StopChatThread, machineVars, chatVars, cleanupVars
<1>14. CASE ChatThreadJoined
  BY <1>14 DEF ChatThreadJoined, machineVars, chatVars, cleanupVars
<1>15. CASE CleanupThreadJoined
  BY <1>15 DEF CleanupThreadJoined, Logout, GoTo, machineVars, chatVars, cleanupVars
<1>16. CASE LinesRead /\ UNCHANGED uiVars
  BY <1>16 DEF LinesRead, uiVars, machineVars, chatVars, cleanupVars
<1>17. CASE LoginAnswered /\ UNCHANGED uiVars
  BY <1>17 DEF LoginAnswered, uiVars, machineVars, chatVars, cleanupVars
<1>18. CASE RegisterAnswered /\ UNCHANGED uiVars
  BY <1>18 DEF RegisterAnswered, uiVars, machineVars, chatVars, cleanupVars
<1>19. CASE SecondTransition /\ UNCHANGED uiVars
  BY <1>19 DEF SecondTransition, uiVars, machineVars, chatVars, cleanupVars
<1>20. CASE MessageAnswered /\ UNCHANGED uiVars
  BY <1>20 DEF MessageAnswered, uiVars, machineVars, chatVars, cleanupVars
<1>21. CASE GarbledLine /\ UNCHANGED uiVars
  BY <1>21 DEF GarbledLine, uiVars, machineVars, chatVars, cleanupVars
<1>22. CASE ConnectionFails /\ UNCHANGED uiVars
  BY <1>22 DEF ConnectionFails, uiVars, machineVars, chatVars, cleanupVars
<1>23. CASE NextLine
  BY <1>23 DEF NextLine, ChatAt, machineVars, chatVars, cleanupVars
<1>24. CASE EndLine
  BY <1>24 DEF EndLine, ChatAt, machineVars, chatVars, cleanupVars
<1>25. CASE SubmitLine
  BY <1>25 DEF SubmitLine, ChatAt, machineVars, chatVars, cleanupVars
<1>26. CASE StopsItself
  BY <1>26 DEF StopsItself, machineVars, chatVars, cleanupVars
<1>27. CASE JoinsItself
  BY <1>27 DEF JoinsItself, machineVars, chatVars, cleanupVars
<1>28. CASE ExitChatMode
  BY <1>28 DEF ExitChatMode, ChatAt, machineVars, chatVars, cleanupVars
<1>29. CASE CleanupEnds
  BY <1>29 DEF CleanupEnds, machineVars, chatVars, cleanupVars
<1>30. CASE ChooseOther
  BY <1>30 DEF ChooseOther, GoTo, machineVars, chatVars, cleanupVars
<1>31. CASE ChooseLogin
  BY <1>31 DEF ChooseLogin, GoTo, machineVars, chatVars, cleanupVars
<1>32. CASE ChooseChat
  BY <1>32 DEF ChooseChat, GoTo, machineVars, chatVars, cleanupVars
<1>33. CASE ChooseLogout
  BY <1>33 DEF ChooseLogout, Logout, GoTo, machineVars, chatVars, cleanupVars
<1>34. CASE NoticeFails
  BY <1>34 DEF NoticeFails, uiVars, machineVars, chatVars, cleanupVars
<1>35. CASE ServerAnswers /\ UNCHANGED <<machineVars, io, uiVars>>
  BY <1>35 DEF ServerAnswers, uiVars, machineVars, chatVars, cleanupVars
<1>36. CASE LinkLost /\ UNCHANGED <<machineVars, io, uiVars>>
  BY <1>36 DEF LinkLost, uiVars, machineVars, chatVars, cleanupVars
<1>37. CASE WriteMessage
  BY <1>37 DEF WriteMessage, ChatAt, machineVars, chatVars, cleanupVars
<1> QED
  BY <1>1, <1>2, <1>3, <1>4, <1>5, <1>6, <1>7, <1>8, <1>9, <1>10, <1>11, <1>12, <1>13, <1>14,
     <1>15, <1>16, <1>17, <1>18, <1>19, <1>20, <1>21, <1>22, <1>23, <1>24, <1>25, <1>26, <1>27,
     <1>28, <1>29, <1>30, <1>31, <1>32, <1>33, <1>34, <1>35, <1>36, <1>37 DEF ClientNext, MainStep,
     IoStep, ChatStep, UserStep, Environment, Enter, LineCut

\* The invariant about the name is kept.
LEMMA NameStep ==
    ASSUME ClientTypeOK, NameInv, ChatInv, [ClientNext]_clientVars
    PROVE  NameInv'
<1> SUFFICES ASSUME ~late'
             PROVE  /\ main' \notin {"login sent", "waiting"} => Settled'
                    /\ main' = "login sent" => UnderWay(entered)'
                    /\ main' = "waiting" => UnderWay(currentUsername)'
                    /\ NamePlaces'
  BY DEF NameInv
<1>1. ~late
  BY DEF ClientTypeOK, ClientNext, MainStep, IoStep, ChatStep, UserStep, Environment, clientVars,
     uiVars, ConnectToServer, CannotConnect, Listen, ShowMenu, EnterChat, SendLogin, StoreName,
     SendRegister, WaitOver, BeginChat, StopIo, StopChatThread, ChatThreadJoined,
     CleanupThreadJoined, NextLine, LineCut, Enter, EndLine, SubmitLine, WriteMessage,
     StopsItself, JoinsItself, ExitChatMode, ChatAt, GoTo, CleanupEnds, ChooseOther, ChooseLogin,
     ChooseChat, ChooseLogout, NoticeFails
<1>2. CASE main \notin {"login sent", "waiting"}
  <2>1. Settled /\ NamePlaces
    BY <1>1, <1>2 DEF NameInv
  <2>2. NamePlaces'
    BY <1>2, <2>1, PlacesKept
  <2>3. CASE main' \notin {"login sent", "waiting"}
    <3>1. Settled'
      BY <2>1, <2>3, SettledKept
    <3> QED BY <2>2, <2>3, <3>1
  <2>4. CASE SendLogin
    <3>1. main' = "login sent" /\ entered' = entered /\ io' = io /\ state' = "AwaitingLogin"
             /\ Sent([type |-> "login", name |-> entered]) /\ main = "login"
      BY <2>1, <2>4, SendSends DEF SendLogin, GoTo, machineVars, NamePlaces
    <3>2. /\ requests \in Seq(LoginsOf(entered)) /\ lines \in Seq(AnswersTo(entered, serverUser))
          /\ buffered \in Seq(AnswersTo(entered, serverUser))
      BY <2>1, SettledUnderWay
    <3>3. [type |-> "login", name |-> entered] \in LoginsOf(entered)
      BY DEF LoginsOf, Request, ClientTypeOK
    <3>4. /\ requests' \in Seq(LoginsOf(entered)) /\ lines' \in Seq(AnswersTo(entered, serverUser))
          /\ buffered' \in Seq(AnswersTo(entered, serverUser)) /\ serverUser' = serverUser
      BY <3>1, <3>2, <3>3, AppendType DEF Sent
    <3>5. UnderWay(entered)'
      BY <2>1, <3>1, <3>4 DEF UnderWay, Settled, AcceptedStates
    <3> QED BY <2>2, <3>1, <3>5
  <2>5. CASE SendRegister
    <3>1. /\ main' = "waiting" /\ io' = io /\ currentUsername' = currentUsername /\ state' = state
          /\ Sent([type |-> "register", name |-> NoName]) /\ main = "register"
      BY <2>5, SendSends DEF SendRegister, GoTo, machineVars
    <3>2. /\ requests \in Seq(LoginsOf(currentUsername))
          /\ lines \in Seq(AnswersTo(currentUsername, serverUser))
          /\ buffered \in Seq(AnswersTo(currentUsername, serverUser))
      BY <2>1, SettledUnderWay
    <3>3. [type |-> "register", name |-> NoName] \in LoginsOf(currentUsername)
      BY DEF LoginsOf, Request
    <3>4. /\ requests' \in Seq(LoginsOf(currentUsername))
          /\ lines' \in Seq(AnswersTo(currentUsername, serverUser))
          /\ buffered' \in Seq(AnswersTo(currentUsername, serverUser)) /\ serverUser' = serverUser
      BY <3>1, <3>2, <3>3, AppendType DEF Sent
    <3>5. UnderWay(currentUsername)'
      BY <2>1, <3>1, <3>4 DEF UnderWay, Settled, NamePlaces
    <3> QED BY <2>2, <3>1, <3>5
  <2>6. CASE ChooseLogin
    <3>1. /\ main' # "login sent" /\ main = "login menu"
          /\ io' = io /\ currentUsername' = currentUsername /\ state' = state
      BY <2>6 DEF ChooseLogin, GoTo, machineVars
    <3>2. Settled'
      BY <2>1, <3>1, SettledKept
    <3>3. /\ requests' \in Seq(LoginsOf(currentUsername))
          /\ lines' \in Seq(AnswersTo(currentUsername, serverUser))
          /\ buffered' \in Seq(AnswersTo(currentUsername, serverUser)) /\ serverUser' = serverUser
      BY <2>1, <2>6, SettledUnderWay DEF ChooseLogin, connectionVars, wireVars
    <3>4. UnderWay(currentUsername)'
      BY <2>1, <3>1, <3>3 DEF UnderWay, Settled, NamePlaces
    <3> QED BY <2>2, <3>1, <3>2, <3>4
  <2> QED
    <3>1. (main' # main /\ ~StoreName /\ ~WaitOver) \/ main' \notin {"login sent", "waiting"}
      BY <1>2 DEF StoreName, WaitOver
    <3> QED BY <1>1, <2>3, <2>4, <2>5, <2>6, <3>1, WaitSteps
<1>3. CASE main = "login sent"
  <2>1. UnderWay(entered)
    BY <1>1, <1>3 DEF NameInv
  <2>2. /\ requests' \in Seq(LoginsOf(entered))
        /\ lines' \in Seq(AnswersTo(entered, serverUser'))
        /\ buffered' \in Seq(AnswersTo(entered, serverUser'))
        /\ io' = "logged in" \/ state' \in AcceptedStates => serverUser' = entered
    BY <1>3, <2>1, UnderWayKept, UnderWayAccepted
  <2>3. CASE main' = main
    <3>1. entered' = entered
      BY <1>3, <2>3, EnteredKept
    <3>2. UnderWay(entered)'
      BY <2>2, <3>1 DEF UnderWay
    <3> QED BY <1>3, <2>3, <3>2 DEF NamePlaces
  <2>4. CASE main' # main
    <3>1. StoreName
      BY <1>1, <1>3, <2>4, WaitSteps DEF WaitOver, SendLogin, SendRegister, ChooseLogin
    <3>2. main' = "waiting" /\ currentUsername' = entered
      BY <3>1 DEF StoreName, GoTo
    <3>3. UnderWay(currentUsername)'
      BY <2>2, <3>2 DEF UnderWay
    <3>4. NamePlaces'
      BY <2>2, <3>2 DEF NamePlaces
    <3> QED BY <3>2, <3>3, <3>4
  <2> QED BY <2>3, <2>4
<1>4. CASE main = "waiting"
  <2>1. UnderWay(currentUsername)
    BY <1>1, <1>4 DEF NameInv
  <2>2. /\ requests' \in Seq(LoginsOf(currentUsername))
        /\ lines' \in Seq(AnswersTo(currentUsername, serverUser'))
        /\ buffered' \in Seq(AnswersTo(currentUsername, serverUser'))
        /\ io' = "logged in" \/ state' \in AcceptedStates => serverUser' = currentUsername
    BY <1>4, <2>1, UnderWayKept, UnderWayAccepted
  <2>3. CASE main' = main
    <3>1. currentUsername' = currentUsername
      BY <1>4, <2>3, EnteredKept
    <3>2. UnderWay(currentUsername)'
      BY <2>2, <3>1 DEF UnderWay
    <3> QED BY <1>4, <2>2, <2>3, <3>1, <3>2 DEF NamePlaces
  <2>4. CASE main' # main
    <3>1. WaitOver
      BY <1>1, <1>4, <2>4, WaitSteps DEF StoreName, SendLogin, SendRegister, ChooseLogin
    <3>2. main' = "loop" /\ AllAnswered /\ state' = state /\ currentUsername' = currentUsername
          /\ requests' = requests /\ lines' = lines /\ buffered' = buffered /\ io' = io
      BY <1>1, <3>1 DEF WaitOver, connectionVars, wireVars, machineVars
    <3>3. Settled'
      BY <3>2, EmptyType DEF AllAnswered, Settled
    <3>4. NamePlaces'
      BY <2>2, <3>2 DEF NamePlaces
    <3> QED BY <3>2, <3>3, <3>4
  <2> QED BY <2>3, <2>4
<1> QED
  BY <1>2, <1>3, <1>4

-----------------------------------------------------------------------------
(* The chat thread and the main thread.                                     *)

\* The invariant about the chat is kept.
LEMMA ChatStepKept ==
    ASSUME ClientTypeOK, NameInv, ChatInv, [ClientNext]_clientVars
    PROVE  ChatInv'
<1>1. ~late /\ (inChat \/ chat # "none") =>
         Settled /\ ~LoginAnswered /\ ~RegisterAnswered /\ ~SecondTransition
  BY SettledQuiet DEF NameInv, ChatInv
<1>2. CASE UNCHANGED clientVars
  BY <1>2, <1>1 DEF clientVars, machineVars, uiVars, chatVars, cleanupVars, ChatInv
<1>3. CASE ConnectToServer
  BY <1>3, <1>1 DEF ConnectToServer, TryConnect, GoTo, machineVars, chatVars, cleanupVars,
     ChatInv
<1>4. CASE CannotConnect
  BY <1>4, <1>1 DEF CannotConnect, GoTo, machineVars, chatVars, cleanupVars, ChatInv
<1>5. CASE Listen
  BY <1>5, <1>1 DEF Listen, StartListening, GoTo, machineVars, chatVars, cleanupVars, ChatInv
<1>6. CASE ShowMenu
  BY <1>6, <1>1 DEF ShowMenu, GoTo, machineVars, chatVars, cleanupVars, ChatInv
<1>7. CASE EnterChat
  BY <1>7, <1>1 DEF EnterChat, machineVars, chatVars, cleanupVars, ChatInv
<1>8. CASE SendLogin
  BY <1>8, <1>1 DEF SendLogin, GoTo, machineVars, chatVars, cleanupVars, ChatInv
<1>9. CASE StoreName
  BY <1>9, <1>1 DEF StoreName, GoTo, machineVars, chatVars, cleanupVars, ChatInv
<1>10. CASE SendRegister
  BY <1>10, <1>1 DEF SendRegister, GoTo, machineVars, chatVars, cleanupVars, ChatInv
<1>11. CASE WaitOver
  BY <1>11, <1>1 DEF WaitOver, machineVars, chatVars, cleanupVars, ChatInv
<1>12. CASE BeginChat
  BY <1>12, <1>1 DEF BeginChat, StartChat, GoTo, machineVars, chatVars, cleanupVars, ChatInv
<1>13. CASE StopIo
  BY <1>13, <1>1 DEF StopIo, GoTo, machineVars, chatVars, cleanupVars, ChatInv
<1>14. CASE StopChatThread
  BY <1>14, <1>1 DEF StopChatThread, machineVars, chatVars, cleanupVars, ChatInv
<1>15. CASE ChatThreadJoined
  BY <1>15, <1>1 DEF ChatThreadJoined, machineVars, chatVars, cleanupVars, ChatInv
<1>16. CASE CleanupThreadJoined
  BY <1>16, <1>1 DEF CleanupThreadJoined, Logout, GoTo, machineVars, chatVars, cleanupVars,
     ChatInv
<1>17. CASE LinesRead /\ UNCHANGED uiVars
  BY <1>17, <1>1 DEF LinesRead, uiVars, machineVars, chatVars, cleanupVars, ChatInv
<1>18. CASE LoginAnswered /\ UNCHANGED uiVars
  BY <1>18, <1>1 DEF LoginAnswered, uiVars, machineVars, chatVars, cleanupVars, ChatInv
<1>19. CASE RegisterAnswered /\ UNCHANGED uiVars
  BY <1>19, <1>1 DEF RegisterAnswered, uiVars, machineVars, chatVars, cleanupVars, ChatInv
<1>20. CASE SecondTransition /\ UNCHANGED uiVars
  BY <1>20, <1>1 DEF SecondTransition, uiVars, machineVars, chatVars, cleanupVars, ChatInv
<1>21. CASE MessageAnswered /\ UNCHANGED uiVars
  BY <1>21, <1>1 DEF MessageAnswered, uiVars, machineVars, chatVars, cleanupVars, ChatInv
<1>22. CASE GarbledLine /\ UNCHANGED uiVars
  BY <1>22, <1>1 DEF GarbledLine, uiVars, machineVars, chatVars, cleanupVars, ChatInv
<1>23. CASE ConnectionFails /\ UNCHANGED uiVars
  BY <1>23, <1>1 DEF ConnectionFails, uiVars, machineVars, chatVars, cleanupVars, ChatInv
<1>24. CASE NextLine
  BY <1>24, <1>1 DEF NextLine, ChatAt, machineVars, chatVars, cleanupVars, ChatInv
<1>25. CASE EndLine
  BY <1>25, <1>1 DEF EndLine, ChatAt, machineVars, chatVars, cleanupVars, ChatInv
<1>26. CASE SubmitLine
  BY <1>26, <1>1 DEF SubmitLine, ChatAt, machineVars, chatVars, cleanupVars, ChatInv
<1>27. CASE StopsItself
  BY <1>27, <1>1 DEF StopsItself, machineVars, chatVars, cleanupVars, ChatInv
<1>28. CASE JoinsItself
  BY <1>28, <1>1 DEF JoinsItself, machineVars, chatVars, cleanupVars, ChatInv
<1>29. CASE ExitChatMode
  BY <1>29, <1>1 DEF ExitChatMode, ChatAt, machineVars, chatVars, cleanupVars, ChatInv
<1>30. CASE CleanupEnds
  BY <1>30, <1>1 DEF CleanupEnds, machineVars, chatVars, cleanupVars, ChatInv
<1>31. CASE ChooseOther
  BY <1>31, <1>1 DEF ChooseOther, GoTo, machineVars, chatVars, cleanupVars, ChatInv
<1>32. CASE ChooseLogin
  <2>1. main = "login menu" /\ late' = late /\ inChat' = inChat /\ chat' = chat
    BY <1>32 DEF ChooseLogin, GoTo, chatVars
  <2> QED
    BY <2>1 DEF ChatInv
<1>33. CASE ChooseChat
  BY <1>33, <1>1 DEF ChooseChat, GoTo, machineVars, chatVars, cleanupVars, ChatInv
<1>34. CASE ChooseLogout
  BY <1>34, <1>1 DEF ChooseLogout, Logout, GoTo, machineVars, chatVars, cleanupVars, ChatInv
<1>35. CASE NoticeFails
  BY <1>35, <1>1 DEF NoticeFails, uiVars, machineVars, chatVars, cleanupVars, ChatInv
<1>36. CASE ServerAnswers /\ UNCHANGED <<machineVars, io, uiVars>>
  BY <1>36, <1>1 DEF ServerAnswers, uiVars, machineVars, chatVars, cleanupVars, ChatInv
<1>37. CASE LinkLost /\ UNCHANGED <<machineVars, io, uiVars>>
  BY <1>37, <1>1 DEF LinkLost, uiVars, machineVars, chatVars, cleanupVars, ChatInv
<1>38. CASE WriteMessage
  BY <1>38, <1>1 DEF WriteMessage, ChatAt, machineVars, chatVars, cleanupVars, ChatInv
<1> QED
  BY <1>2, <1>3, <1>4, <1>5, <1>6, <1>7, <1>8, <1>9, <1>10, <1>11, <1>12, <1>13, <1>14, <1>15,
     <1>16, <1>17, <1>18, <1>19, <1>20, <1>21, <1>22, <1>23, <1>24, <1>25, <1>26, <1>27, <1>28,
     <1>29, <1>30, <1>31, <1>32, <1>33, <1>34, <1>35, <1>36, <1>37, <1>38 DEF ClientNext, MainStep,
     IoStep, ChatStep, UserStep, Environment, Enter, LineCut

-----------------------------------------------------------------------------
(* The theorems.                                                            *)

\* The initial state satisfies the invariant.
LEMMA InitInv == ClientInit => ClientInv
<1> SUFFICES ASSUME ClientInit PROVE ClientInv
  OBVIOUS
<1>1. ClientTypeOK
  BY InitTypes
<1>2. /\ requests = << >> /\ lines = << >> /\ buffered = << >>
      /\ io = "waiting" /\ state = "Disconnected" /\ main = "loop"
      /\ inChat = FALSE /\ chat = "none"
  BY DEF ClientInit, ConnectionInit, MachineInit
<1>3. LoginInv
  BY <1>2, EmptyType DEF LoginInv, StreamsAllowed, PlacesAllowed, AcceptedStates
<1>4. NameInv
  BY <1>2, EmptyType DEF NameInv, Settled, NamePlaces, AcceptedStates
<1>5. ChatInv
  BY <1>2 DEF ChatInv
<1> QED
  BY <1>1, <1>3, <1>4, <1>5 DEF ClientInv

\* The inductive invariant: every trace of a login is one of an accepted login,
\* in time it is one under the stored name, and a chat keeps the main thread in
\* its loop until the program is left.
THEOREM ClientInvariant == ClientSpec => []ClientInv
<1>1. ClientInit => ClientInv
  BY InitInv
<1>2. ASSUME ClientInv, [ClientNext]_clientVars
      PROVE  ClientInv'
  <2>1. ClientTypeOK /\ LoginInv /\ NameInv /\ ChatInv
    BY <1>2 DEF ClientInv
  <2>2. ClientTypeOK'
    BY <1>2, <2>1, TypeStep
  <2>3. LoginInv'
    BY <1>2, <2>1, LoginStreams, LoginPlaces DEF LoginInv
  <2>4. NameInv'
    BY <1>2, <2>1, NameStep
  <2>5. ChatInv'
    BY <1>2, <2>1, ChatStepKept
  <2> QED
    BY <2>2, <2>3, <2>4, <2>5 DEF ClientInv
<1> QED
  BY <1>1, <1>2, PTL DEF ClientSpec

\* A message is only ever under way over a connection whose login the server has
\* accepted: LoginInv says it of every request.
THEOREM MessagesOnlyAfterLogin == ClientSpec => []MessagesAfterLogin
<1>1. ClientInv => MessagesAfterLogin
  <2> SUFFICES ASSUME ClientInv, NEW i \in DOMAIN requests, requests[i].type = "message"
               PROVE  serverUser # NoName
    BY DEF MessagesAfterLogin
  <2>1. requests \in Seq(RequestsAllowed)
    BY DEF ClientInv, LoginInv, StreamsAllowed
  <2>2. requests[i] \in RequestsAllowed
    BY <2>1, ElementOfSeq, LenProperties
  <2> QED
    BY <2>2 DEF RequestsAllowed
<1> QED
  BY <1>1, ClientInvariant, PTL

\* The menu of the main thread and the chat thread never read the terminal
\* together, as long as the answers arrive in time.
THEOREM OneReaderOfTheTerminal == ClientSpec => []OneReader
<1>1. ClientInv => OneReader
  BY DEF ClientInv, ChatInv, OneReader
<1> QED
  BY <1>1, ClientInvariant, PTL

\* The name stored before the answer is known is the one the server has logged in,
\* as long as the answers arrive in time.
THEOREM StoredNameIsLoggedIn == ClientSpec => []NamedAsLoggedIn
<1>1. ClientInv => NamedAsLoggedIn
  BY DEF ClientInv, NameInv, NamePlaces, AcceptedStates, NamedAsLoggedIn
<1> QED
  BY <1>1, ClientInvariant, PTL

\* A chat sends to the partner it shows, as long as the answers arrive in time.
THEOREM ShownPartnerIsTarget == ClientSpec => []PartnerShown
<1>1. ClientInv => PartnerShown
  BY DEF ClientInv, ChatInv, PartnerShown
<1> QED
  BY <1>1, ClientInvariant, PTL

=============================================================================
