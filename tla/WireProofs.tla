----------------------------- MODULE WireProofs -----------------------------
(***************************************************************************)
(* Theorems of Wire: its variables have their types, the stream that is not *)
(* torn is a LineStream, and the bytes of each line of a client arrive in   *)
(* order.                                                                  *)
(***************************************************************************)
EXTENDS WireLemmas

\* The numbers of lines and cells.
LEMMA Numbers ==
    /\ Len(Sizes) \in Nat /\ Lines = 1..Len(Sizes)
    /\ MaxTransfer \in Nat \ {0} /\ Room \in Nat \ {0}
    /\ \A n \in Lines : Sizes[n] \in Nat /\ Sizes[n] >= 2
BY WireAssumption, LenProperties, LineCellsType DEF Lines

\* What a write takes from a line: k cells that follow those already written.
LEMMA BytesType ==
    ASSUME NEW n \in Lines, NEW k \in Nat, written[n] \in Nat, written[n] + k <= Sizes[n],
           NEW alive \in BOOLEAN, NEW cells \in Bytes(n, k, alive)
    PROVE  cells \in Seq(Cells) /\ Len(cells) = k
<1> DEFINE w == written[n]
           s == SubSeq(LineCells(n), w + 1, w + k)
<1>1. s \in Seq(Cells) /\ Len(s) = k /\ \A i \in 1..k : s[i] \in Cells
  <2> DEFINE l == LineCells(n)
             z == Sizes[n]
  <2>1. l \in Seq(Cells) /\ Len(l) = z /\ z \in Nat /\ w \in Nat /\ w + k <= z
    BY LineCellsType
  <2> HIDE DEF l, w, z
  <2>2. \A i \in (w + 1)..(w + k) : l[i] \in Cells
    BY <2>1, ElementOfSeq
  <2>3. SubSeq(l, w + 1, w + k) \in Seq(Cells) /\ Len(SubSeq(l, w + 1, w + k)) = k
    BY <2>1, <2>2, SubSeqProperties
  <2>4. \A i \in 1..k : SubSeq(l, w + 1, w + k)[i] \in Cells
    BY <2>3, ElementOfSeq
  <2> QED BY <2>3, <2>4 DEF l
<1>2. CASE alive
  BY <1>1, <1>2 DEF Bytes
<1>3. CASE ~alive
  <2>1. PICK hit \in [1..k -> 0..2] :
            cells = [i \in 1..k |-> IF hit[i] = 2 THEN s[i] ELSE Junk(hit[i])]
    BY <1>3 DEF Bytes
  <2> HIDE DEF s
  <2>2. ASSUME NEW i \in 1..k
        PROVE  (IF hit[i] = 2 THEN s[i] ELSE Junk(hit[i])) \in Cells
    <3>1. CASE hit[i] = 2
      BY <1>1, <3>1
    <3>2. CASE hit[i] # 2
      <4>1. hit[i] \in {0, 1}
        BY <3>2
      <4> QED BY <3>2, <4>1 DEF Cells
    <3> QED BY <3>1, <3>2
  <2>3. cells \in [1..k -> Cells]
    BY <2>1, <2>2
  <2> QED BY <2>3, SeqDef, LenProperties
<1> QED BY <1>2, <1>3

\* A transfer writes k cells of the line, one at least and no more than there
\* are; with the connection up they are appended to those on their way.
LEMMA TransferStep ==
    ASSUME WireTypeOK, NEW n \in Lines, NEW alive \in BOOLEAN, Transfer(n, alive)
    PROVE  /\ transit' \in Seq(Cells) /\ Len(transit') <= Room
           /\ link # "up" => transit' = transit
           /\ \E k \in 1..(Sizes[n] - written[n]) :
                 /\ written' = [written EXCEPT ![n] = written[n] + k]
                 /\ link = "up" => \E cells \in Bytes(n, k, alive) : transit' = transit \o cells
<1> DEFINE k == IF link = "up" THEN Least(Offered(n), Vacant) ELSE Offered(n)
<1>1. /\ written[n] \in Nat /\ written[n] <= Sizes[n] /\ Sizes[n] \in Nat
      /\ transit \in Seq(Cells) /\ Len(transit) \in Nat /\ Len(transit) <= Room
      /\ MaxTransfer \in Nat /\ Room \in Nat
  BY Numbers, LenProperties DEF WireTypeOK
<1>2. k \in 1..(Sizes[n] - written[n]) /\ (link = "up" => Len(transit) + k <= Room)
  <2>1. k > 0
    BY DEF Transfer
  <2> QED BY <1>1, <2>1 DEF Offered, Vacant, Least
<1>3. /\ written' = [written EXCEPT ![n] = written[n] + k]
      /\ \E cells \in Bytes(n, k, alive) :
            transit' = IF link = "up" THEN transit \o cells ELSE transit
  BY DEF Transfer
<1> HIDE DEF k
<1>4. PICK cells \in Bytes(n, k, alive) :
          transit' = IF link = "up" THEN transit \o cells ELSE transit
  BY <1>3
<1>5. cells \in Seq(Cells) /\ Len(cells) = k
  BY <1>1, <1>2, BytesType
<1>6. transit' \in Seq(Cells) /\ Len(transit') <= Room
  <2>1. CASE link = "up"
    BY <1>1, <1>2, <1>4, <1>5, <2>1, ConcatProperties
  <2>2. CASE link # "up"
    BY <1>1, <1>4, <2>2
  <2> QED BY <2>1, <2>2
<1> QED BY <1>2, <1>3, <1>4, <1>6

-----------------------------------------------------------------------------
(* Types.                                                                   *)

Results(b) == [line : 1..b, ok : BOOLEAN]

\* What one write may change, when n is the line that it writes.
WriteTypes(n) ==
    /\ written' \in [Lines -> Nat]
    /\ \A m \in Lines : written'[m] <= Sizes[m] /\ (m # n => written'[m] = written[m])
    /\ speculative' \in BOOLEAN /\ torn' \in BOOLEAN
    /\ transit' \in Seq(Cells) /\ Len(transit') <= Room

\* A transfer keeps the types, and writes one line only.
LEMMA TransferType ==
    ASSUME WireTypeOK, NEW n \in Lines, NEW alive \in BOOLEAN, Transfer(n, alive)
    PROVE  WriteTypes(n)
<1>1. PICK k \in 1..(Sizes[n] - written[n]) : written' = [written EXCEPT ![n] = written[n] + k]
  BY TransferStep
<1>2. /\ written \in [Lines -> Nat] /\ \A m \in Lines : written[m] <= Sizes[m]
      /\ \A m \in Lines : Sizes[m] \in Nat
      /\ torn \in BOOLEAN
  BY Numbers DEF WireTypeOK
<1>3. written' \in [Lines -> Nat]
  BY <1>1, <1>2
<1>4. ASSUME NEW m \in Lines
      PROVE  written'[m] <= Sizes[m] /\ (m # n => written'[m] = written[m])
  <2>1. CASE m = n
    <3>1. written'[m] = written[n] + k
      BY <1>1, <1>2, <2>1
    <3> QED BY <1>2, <2>1, <3>1
  <2>2. CASE m # n
    BY <1>1, <1>2, <2>2
  <2> QED BY <2>1, <2>2
<1>5. speculative' \in BOOLEAN /\ torn' \in BOOLEAN
  BY <1>2 DEF Transfer
<1>6. transit' \in Seq(Cells) /\ Len(transit') <= Room
  BY TransferStep
<1> QED BY <1>3, <1>4, <1>5, <1>6 DEF WriteTypes

\* So does a step that transfers nothing.
LEMMA NoTransferType ==
    ASSUME WireTypeOK, NEW n, UNCHANGED <<written, speculative, transit, torn>>
    PROVE  WriteTypes(n)
BY DEF WireTypeOK, WriteTypes

\* A write that the reactor performs keeps the types and the link.
LEMMA PerformType ==
    ASSUME WireTypeOK, NEW b \in Nat, NEW n \in Lines, n \in 1..b, NEW alive \in BOOLEAN,
           NEW results \in Seq(Results(b)), Perform(n, alive, results)
    PROVE  WriteTypes(n) /\ posted' \in Seq(Results(b)) /\ link' = link
<1>1. link' = link
  BY DEF Perform
<1>2. CASE Transfer(n, alive) /\ posted' = Append(results, [line |-> n, ok |-> TRUE])
  <2>1. [line |-> n, ok |-> TRUE] \in Results(b)
    BY DEF Results
  <2> QED BY <1>1, <1>2, <2>1, TransferType, AppendProperties
<1>3. CASE /\ posted' = Append(results, [line |-> n, ok |-> FALSE])
           /\ UNCHANGED <<written, speculative, transit, torn>>
  <2>1. [line |-> n, ok |-> FALSE] \in Results(b)
    BY DEF Results
  <2> QED BY <1>1, <1>3, <2>1, NoTransferType, AppendProperties
<1> QED BY <1>2, <1>3 DEF Perform

\* So does a write that is performed at once or waits in the queue.
LEMMA AsyncType ==
    ASSUME WireTypeOK, NEW b \in Nat, NEW n \in Lines, n \in 1..b, NEW alive \in BOOLEAN,
           queued \in Seq(1..b),
           NEW results \in Seq(Results(b)), AsyncWriteSome(n, alive, results)
    PROVE  /\ WriteTypes(n) /\ posted' \in Seq(Results(b)) /\ link' = link
           /\ queued' \in Seq(1..b)
<1>1. CASE link = "up" /\ (queued # << >> \/ ~speculative \/ Vacant = 0)
  <2>1. /\ queued' = Append(queued, n) /\ posted' = results
        /\ UNCHANGED <<written, speculative, link, transit, torn>>
    BY <1>1 DEF AsyncWriteSome
  <2> QED BY <2>1, NoTransferType, AppendProperties
<1>2. CASE ~(link = "up" /\ (queued # << >> \/ ~speculative \/ Vacant = 0))
  <2>1. Perform(n, alive, results) /\ queued' = queued
    BY <1>2 DEF AsyncWriteSome
  <2> QED BY <2>1, PerformType
<1> QED BY <1>1, <1>2

\* The types of what a write does not change and of what it does.
LEMMA TypeAfterWrite ==
    ASSUME WireTypeOK, NEW n, WriteTypes(n), begun' \in 0..Len(Sizes), begun <= begun',
           n \in 1..begun', ended' \subseteq 1..begun',
           queued' \in Seq(1..begun'), posted' \in Seq(Results(begun')),
           link' \in {"up", "lost", "closed"}, UNCHANGED <<writer, readVars>>
    PROVE  WireTypeOK'
<1>1. /\ writer \in Writers /\ begun \in 0..Len(Sizes)
      /\ buffer \in Seq(CutParts) /\ handled \in Seq(Seq(CutParts)) /\ reading \in BOOLEAN
      /\ \A m \in Lines : m > begun => written[m] = 0
  BY DEF WireTypeOK, CutParts
<1>2. \A m \in Lines : m > begun' => written'[m] = 0
  <2>1. Len(Sizes) \in Nat /\ Lines = 1..Len(Sizes)
    BY Numbers
  <2>2. ASSUME NEW m \in Lines, m > begun' PROVE written'[m] = 0
    <3>1. m # n /\ m > begun
      BY <1>1, <2>1, <2>2
    <3> QED BY <1>1, <3>1 DEF WriteTypes
  <2> QED BY <2>2
<1>3. writer' = writer /\ buffer' = buffer /\ handled' = handled /\ reading' = reading
  BY DEF readVars
<1> QED BY <1>1, <1>2, <1>3 DEF WireTypeOK, WriteTypes, Results, CutParts

\* Queued lines and results stay such when more lines have begun.
LEMMA SeqOfMore ==
    ASSUME NEW b \in Nat, NEW c \in Nat, b <= c
    PROVE  /\ \A s \in Seq(1..b) : s \in Seq(1..c)
           /\ \A s \in Seq(Results(b)) : s \in Seq(Results(c))
<1>1. 1..b \subseteq 1..c /\ Results(b) \subseteq Results(c)
  BY DEF Results
<1> QED BY <1>1, SeqMonotonic

\* What is taken from the front of a queue, and what stays in it.
LEMMA TailType ==
    ASSUME NEW S, NEW s \in Seq(S), s # << >>
    PROVE  Head(s) \in S /\ Tail(s) \in Seq(S)
BY HeadTailProperties

\* Each action keeps the types: first those of the writers.
LEMMA SessionSendType == WireTypeOK /\ SessionSend => WireTypeOK'
<1> SUFFICES ASSUME WireTypeOK, SessionSend PROVE WireTypeOK'
  OBVIOUS
<1> DEFINE b == begun + 1
<1>1. /\ begun < Len(Sizes) /\ begun' = b /\ AsyncWriteSome(b, TRUE, posted)
      /\ UNCHANGED <<writer, ended, readVars>>
  BY DEF SessionSend
<1>2. /\ begun \in Nat /\ begun <= Len(Sizes) /\ ended \subseteq 1..begun /\ Len(Sizes) \in Nat
      /\ queued \in Seq(1..begun) /\ posted \in Seq(Results(begun))
      /\ link \in {"up", "lost", "closed"}
  BY Numbers DEF WireTypeOK, Results
<1>3. b \in Nat /\ b \in 1..b /\ b \in Lines /\ begun <= b /\ b \in 0..Len(Sizes)
      /\ ended \subseteq 1..b
  BY <1>1, <1>2, Numbers
<1>4. queued \in Seq(1..b) /\ posted \in Seq(Results(b))
  <2> HIDE DEF b
  <2> QED BY <1>2, <1>3, SeqOfMore
<1> HIDE DEF b
<1>5. /\ WriteTypes(b) /\ posted' \in Seq(Results(b)) /\ link' = link /\ queued' \in Seq(1..b)
  BY <1>1, <1>3, <1>4, AsyncType
<1> QED BY <1>1, <1>2, <1>3, <1>5, TypeAfterWrite

LEMMA ConnectionSendType == WireTypeOK /\ ConnectionSend => WireTypeOK'
<1> SUFFICES ASSUME WireTypeOK, ConnectionSend PROVE WireTypeOK'
  OBVIOUS
<1> DEFINE b == begun + 1
<1>1. /\ begun < Len(Sizes) /\ begun' = b
      /\ UNCHANGED <<writer, ended, written, queued, posted, speculative, link, transit, readVars,
                     torn>>
  BY DEF ConnectionSend
<1>2. /\ begun \in Nat /\ begun <= Len(Sizes) /\ ended \subseteq 1..begun /\ Len(Sizes) \in Nat
      /\ queued \in Seq(1..begun) /\ posted \in Seq(Results(begun))
      /\ link \in {"up", "lost", "closed"}
  BY Numbers DEF WireTypeOK, Results
<1>3. b \in Nat /\ b \in 1..b /\ begun <= b /\ b \in 0..Len(Sizes) /\ ended \subseteq 1..b
  BY <1>1, <1>2
<1>4. queued \in Seq(1..b) /\ posted \in Seq(Results(b))
  <2> HIDE DEF b
  <2> QED BY <1>2, <1>3, SeqOfMore
<1> HIDE DEF b
<1>5. WriteTypes(b)
  BY <1>1, NoTransferType
<1> QED BY <1>1, <1>2, <1>3, <1>4, <1>5, TypeAfterWrite

LEMMA WritableType == WireTypeOK /\ Writable => WireTypeOK'
<1> SUFFICES ASSUME WireTypeOK, Writable PROVE WireTypeOK'
  OBVIOUS
<1> DEFINE n == Head(queued)
<1>1. /\ queued # << >> /\ queued' = Tail(queued) /\ Perform(n, FALSE, posted)
      /\ UNCHANGED <<writer, begun, ended, readVars>>
  BY DEF Writable
<1>2. /\ begun \in Nat /\ begun <= Len(Sizes) /\ ended \subseteq 1..begun /\ Len(Sizes) \in Nat
      /\ queued \in Seq(1..begun) /\ posted \in Seq(Results(begun))
      /\ link \in {"up", "lost", "closed"} /\ begun \in 0..Len(Sizes)
  BY Numbers DEF WireTypeOK, Results
<1>3. n \in 1..begun /\ Tail(queued) \in Seq(1..begun)
  BY <1>1, <1>2, TailType
<1> HIDE DEF n
<1>4. n \in Lines
  BY <1>2, <1>3, Numbers
<1>5. WriteTypes(n) /\ posted' \in Seq(Results(begun)) /\ link' = link
  BY <1>1, <1>2, <1>3, <1>4, PerformType
<1> QED BY <1>1, <1>2, <1>3, <1>5, TypeAfterWrite

LEMMA WriteGoesOnType == WireTypeOK /\ WriteGoesOn => WireTypeOK'
<1> SUFFICES ASSUME WireTypeOK, WriteGoesOn PROVE WireTypeOK'
  OBVIOUS
<1> DEFINE n == Result.line
<1>1. /\ posted # << >> /\ AsyncWriteSome(n, FALSE, Tail(posted))
      /\ UNCHANGED <<writer, begun, ended, readVars>>
  BY DEF WriteGoesOn
<1>2. /\ begun \in Nat /\ begun <= Len(Sizes) /\ ended \subseteq 1..begun /\ Len(Sizes) \in Nat
      /\ queued \in Seq(1..begun) /\ posted \in Seq(Results(begun))
      /\ link \in {"up", "lost", "closed"} /\ begun \in 0..Len(Sizes)
  BY Numbers DEF WireTypeOK, Results
<1>3. Head(posted) \in Results(begun) /\ Tail(posted) \in Seq(Results(begun))
  BY <1>1, <1>2, TailType
<1>4. n \in 1..begun
  BY <1>3 DEF Result, Results
<1> HIDE DEF n
<1>5. n \in Lines
  BY <1>2, <1>4, Numbers
<1>6. /\ WriteTypes(n) /\ posted' \in Seq(Results(begun)) /\ link' = link
      /\ queued' \in Seq(1..begun)
  BY <1>1, <1>2, <1>3, <1>4, <1>5, AsyncType
<1> QED BY <1>1, <1>2, <1>4, <1>6, TypeAfterWrite

LEMMA WriteHandledType == WireTypeOK /\ WriteHandled => WireTypeOK'
<1> SUFFICES ASSUME WireTypeOK, WriteHandled PROVE WireTypeOK'
  OBVIOUS
<1> DEFINE n == Result.line
<1>1. /\ posted # << >> /\ posted' = Tail(posted) /\ ended' = ended \cup {n}
      /\ link' \in {link, "closed"}
      /\ UNCHANGED <<writer, begun, written, queued, speculative, transit, readVars, torn>>
  BY DEF WriteHandled
<1>2. /\ begun \in Nat /\ begun <= Len(Sizes) /\ ended \subseteq 1..begun /\ Len(Sizes) \in Nat
      /\ queued \in Seq(1..begun) /\ posted \in Seq(Results(begun))
      /\ link \in {"up", "lost", "closed"} /\ begun \in 0..Len(Sizes)
  BY Numbers DEF WireTypeOK, Results
<1>3. Head(posted) \in Results(begun) /\ Tail(posted) \in Seq(Results(begun))
  BY <1>1, <1>2, TailType
<1>4. n \in 1..begun
  BY <1>3 DEF Result, Results
<1> HIDE DEF n
<1>5. WriteTypes(n)
  BY <1>1, NoTransferType
<1>6. /\ begun' \in 0..Len(Sizes) /\ begun <= begun' /\ n \in 1..begun'
      /\ ended' \subseteq 1..begun' /\ link' \in {"up", "lost", "closed"}
  BY <1>1, <1>2, <1>4
<1>7. queued' \in Seq(1..begun') /\ posted' \in Seq(Results(begun'))
  BY <1>1, <1>2, <1>3
<1> QED BY <1>1, <1>5, <1>6, <1>7, TypeAfterWrite

LEMMA ThreadWritesType ==
    ASSUME NEW n \in Lines
    PROVE  WireTypeOK /\ ThreadWrites(n) => WireTypeOK'
<1> SUFFICES ASSUME WireTypeOK, ThreadWrites(n) PROVE WireTypeOK'
  OBVIOUS
<1>1. /\ n \in 1..begun /\ UNCHANGED <<writer, begun, queued, posted, link, readVars>>
      /\ ended' \subseteq ended \cup {n}
  BY DEF ThreadWrites
<1>2. /\ begun \in Nat /\ begun <= Len(Sizes) /\ ended \subseteq 1..begun /\ Len(Sizes) \in Nat
      /\ queued \in Seq(1..begun) /\ posted \in Seq(Results(begun))
      /\ link \in {"up", "lost", "closed"} /\ begun \in 0..Len(Sizes)
  BY Numbers DEF WireTypeOK, Results
<1>3. WriteTypes(n)
  BY TransferType, NoTransferType DEF ThreadWrites
<1> QED BY <1>1, <1>2, <1>3, TypeAfterWrite

\* A sequence cut in two.
LEMMA CutInTwo ==
    ASSUME NEW S, NEW s \in Seq(S), NEW k \in 0..Len(s)
    PROVE  /\ SubSeq(s, 1, k) \in Seq(S) /\ SubSeq(s, k + 1, Len(s)) \in Seq(S)
           /\ Len(SubSeq(s, 1, k)) = k /\ Len(SubSeq(s, k + 1, Len(s))) = Len(s) - k
           /\ s = SubSeq(s, 1, k) \o SubSeq(s, k + 1, Len(s))
<1>1. Len(s) \in Nat /\ k \in Nat /\ 1 \in 1..(Len(s) + 1) /\ k \in (1 - 1)..Len(s)
      /\ Len(s) \in k..Len(s)
  BY LenProperties
<1>2. \A i \in 1..Len(s) : s[i] \in S
  BY ElementOfSeq
<1>3. SubSeq(s, 1, k) \in Seq(S) /\ Len(SubSeq(s, 1, k)) = k
  BY <1>1, <1>2, SubSeqProperties
<1>4. SubSeq(s, k + 1, Len(s)) \in Seq(S) /\ Len(SubSeq(s, k + 1, Len(s))) = Len(s) - k
  BY <1>1, <1>2, SubSeqProperties
<1>5. SubSeq(s, 1, k) \o SubSeq(s, k + 1, Len(s)) = SubSeq(s, 1, Len(s))
  BY <1>1, ConcatAdjacentSubSeq
<1>6. SubSeq(s, 1, Len(s)) = s
  BY SubSeqFull
<1> QED BY <1>3, <1>4, <1>5, <1>6

\* The chunk of a read, what stays on its way, and what is cut.
LEMMA ChunkType ==
    ASSUME WireTypeOK, NEW k \in 1..MaxRead, k <= Len(transit)
    PROVE  LET chunk == SubSeq(transit, 1, k)
               left == SubSeq(transit, k + 1, Len(transit))
           IN  /\ chunk \in Seq(Cells) /\ left \in Seq(Cells) /\ transit = chunk \o left
               /\ Len(left) <= Len(transit)
               /\ buffer \in Seq(Cells) /\ buffer \o chunk \in Seq(Cells)
<1>1. transit \in Seq(Cells) /\ buffer \in Seq(CutParts) /\ Len(transit) \in Nat /\ k \in Nat
  BY Numbers, LenProperties DEF WireTypeOK, CutParts
<1>2. buffer \in Seq(Cells)
  BY <1>1, PartsAreCells
<1>3. /\ SubSeq(transit, 1, k) \in Seq(Cells)
      /\ SubSeq(transit, k + 1, Len(transit)) \in Seq(Cells)
      /\ transit = SubSeq(transit, 1, k) \o SubSeq(transit, k + 1, Len(transit))
      /\ Len(SubSeq(transit, k + 1, Len(transit))) <= Len(transit)
  BY <1>1, CutInTwo
<1>4. buffer \o SubSeq(transit, 1, k) \in Seq(Cells)
  BY <1>2, <1>3, ConcatProperties
<1> QED BY <1>2, <1>3, <1>4

\* A chunk keeps the types: what is cut has no separator.
LEMMA ReadSomeType ==
    ASSUME NEW k \in 1..MaxRead
    PROVE  WireTypeOK /\ ReadSome(k) => WireTypeOK'
<1> SUFFICES ASSUME WireTypeOK, ReadSome(k) PROVE WireTypeOK'
  OBVIOUS
<1> DEFINE x == buffer \o SubSeq(transit, 1, k)
<1>1. /\ k <= Len(transit) /\ transit' = SubSeq(transit, k + 1, Len(transit))
      /\ handled' = handled \o Cut(x).lines /\ buffer' = Cut(x).rest
      /\ UNCHANGED <<writer, writeVars, link, reading, torn>>
  BY DEF ReadSome
<1>2. x \in Seq(Cells) /\ transit' \in Seq(Cells) /\ Len(transit') <= Len(transit)
  BY <1>1, ChunkType
<1>3. Len(transit') <= Room
  BY <1>1, <1>2, Numbers, LenProperties DEF WireTypeOK
<1> HIDE DEF x
<1>4. Cut(x).lines \in Seq(Seq(CutParts)) /\ Cut(x).rest \in Seq(CutParts)
  BY <1>2, CutType
<1>5. handled \in Seq(Seq(CutParts))
  BY DEF WireTypeOK, CutParts
<1>6. handled' \in Seq(Seq(CutParts)) /\ buffer' \in Seq(CutParts)
  BY <1>1, <1>4, <1>5, ConcatProperties
<1> QED BY <1>1, <1>2, <1>3, <1>6 DEF WireTypeOK, CutParts, writeVars

\* The reader's error keeps the types.
LEMMA ReadErrorType == WireTypeOK /\ ReadError => WireTypeOK'
BY DEF WireTypeOK, ReadError, writeVars

\* The loss of the connection keeps the types.
LEMMA LinkLostType == WireTypeOK /\ LinkLost => WireTypeOK'
<1> SUFFICES ASSUME WireTypeOK, LinkLost PROVE WireTypeOK'
  OBVIOUS
<1>1. PICK k \in 0..Len(transit) : transit' = SubSeq(transit, 1, k)
  BY DEF LinkLost
<1>2. transit \in Seq(Cells) /\ Len(transit) \in Nat /\ Len(transit) <= Room /\ Room \in Nat
  BY Numbers, LenProperties DEF WireTypeOK
<1>3. transit' \in Seq(Cells) /\ Len(transit') <= Room
  BY <1>1, <1>2, CutInTwo
<1>4. link' = "lost" /\ UNCHANGED <<writer, writeVars, readVars, torn>>
  BY DEF LinkLost
<1> QED BY <1>3, <1>4 DEF WireTypeOK, writeVars, readVars

\* The types hold at the start.
LEMMA WireInitType == WireInit => WireTypeOK
<1> SUFFICES ASSUME WireInit PROVE WireTypeOK
  OBVIOUS
<1>1. /\ writer \in Writers /\ begun = 0 /\ ended = {} /\ written = [n \in Lines |-> 0]
      /\ queued = << >> /\ posted = << >> /\ speculative = TRUE /\ link = "up"
      /\ transit = << >> /\ buffer = << >> /\ handled = << >> /\ reading = TRUE /\ torn = FALSE
  BY DEF WireInit
<1>2. begun \in 0..Len(Sizes) /\ ended \subseteq 1..begun
  BY <1>1, Numbers
<1>3. written \in [Lines -> Nat] /\ \A n \in Lines : written[n] = 0 /\ written[n] <= Sizes[n]
  BY <1>1, Numbers
<1>4. Len(transit) <= Room /\ transit \in Seq(Cells)
  BY <1>1, EmptySeq, Numbers
<1>5. /\ buffer \in Seq({c \in Cells : c.part # 0})
      /\ handled \in Seq(Seq({c \in Cells : c.part # 0}))
      /\ queued \in Seq(1..begun) /\ posted \in Seq([line : 1..begun, ok : BOOLEAN])
  BY <1>1, EmptySeq
<1> QED BY <1>1, <1>2, <1>3, <1>4, <1>5 DEF WireTypeOK

\* Every step keeps the types.
LEMMA WireNextType == WireTypeOK /\ [WireNext]_wireVars => WireTypeOK'
<1> SUFFICES ASSUME WireTypeOK, [WireNext]_wireVars PROVE WireTypeOK'
  OBVIOUS
<1>1. CASE WireNext
  BY <1>1, SessionSendType, ConnectionSendType, WritableType, WriteGoesOnType, WriteHandledType,
     ThreadWritesType, ReadSomeType, ReadErrorType, LinkLostType DEF WireNext, Write, Read
<1>2. CASE UNCHANGED wireVars
  BY <1>2 DEF WireTypeOK, wireVars, writeVars, readVars
<1> QED BY <1>1, <1>2

\* Session and ClientConnection keep their variables in their types: a line is
\* written only after its call of send(), no part of it twice, and what stays in
\* message_buffer_ between two handlers holds no separator, however the stream is
\* torn (session.cpp:18, session.cpp:74, client_connection.cpp:116).
THEOREM WireTypeCorrect == WireSpec => []WireTypeOK
BY WireInitType, WireNextType, PTL DEF WireSpec

-----------------------------------------------------------------------------
(* The bytes of a client's lines.                                           *)

\* The cells of line n that were written.
Start(n) == SubSeq(LineCells(n), 1, written[n])

\* Only a server's writes wait in the queues of the event loop.
NothingQueued == writer = "client" => queued = << >> /\ posted = << >>

\* Until the connection is lost, all that was written is in the stream.
AllWritten ==
    writer = "client" /\ link = "up" => \A n \in Lines : Arrived(n) = Parts(n, Start(n))

OwnInv == WireTypeOK /\ NothingQueued /\ AllWritten /\ OwnBytesInOrder

\* What is before a cut of the start of a text is a start of it as well.
LEMMA StartIsStart ==
    ASSUME NEW S, NEW p \in Seq(S), NEW q \in Seq(S), NEW t \in Seq(S),
           p \o q = SubSeq(t, 1, Len(p \o q))
    PROVE  p = SubSeq(t, 1, Len(p))
<1>1. Len(p) \in Nat /\ Len(q) \in Nat /\ Len(p \o q) = Len(p) + Len(q)
      /\ \A i \in 1..Len(p) : (p \o q)[i] = p[i]
  BY LenProperties, ConcatProperties
<1>2. \A i \in 1..Len(p) : SubSeq(t, 1, Len(p \o q))[i] = t[i]
  BY <1>1
<1>3. \A i \in 1..Len(p) : p[i] = t[i]
  BY <1>1, <1>2
<1>4. \A i \in 1..Len(p) : t[i] \in S
  BY <1>3, ElementOfSeq
<1>5. /\ SubSeq(t, 1, Len(p)) \in Seq(S) /\ Len(SubSeq(t, 1, Len(p))) = Len(p)
      /\ \A i \in 1..Len(p) : SubSeq(t, 1, Len(p))[i] = t[i]
  BY <1>1, <1>4, StartOfSeq
<1> QED BY <1>3, <1>5, SeqEqual

\* The stream as the cells handled, in the buffer and on their way.
LEMMA ArrivedType ==
    ASSUME WireTypeOK
    PROVE  /\ Joined(handled) \in Seq(Cells) /\ buffer \in Seq(Cells) /\ transit \in Seq(Cells)
           /\ Joined(handled) \o buffer \in Seq(Cells)
<1>1. handled \in Seq(Seq(CutParts)) /\ buffer \in Seq(CutParts) /\ transit \in Seq(Cells)
  BY DEF WireTypeOK, CutParts
<1>2. handled \in Seq(Seq(Cells)) /\ buffer \in Seq(Cells)
  BY <1>1, TextsType, PartsAreCells
<1>3. Joined(handled) \in Seq(Cells)
  BY <1>2, JoinedType
<1> QED BY <1>1, <1>2, <1>3, ConcatProperties

\* Cells that are appended to the stream bring their parts.
LEMMA ArrivedMore ==
    ASSUME WireTypeOK, NEW n \in Lines, NEW cells \in Seq(Cells),
           transit' = transit \o cells, UNCHANGED readVars
    PROVE  Arrived(n)' = Arrived(n) \o Parts(n, cells)
<1> DEFINE j == Joined(handled) \o buffer
<1>1. j \in Seq(Cells) /\ transit \in Seq(Cells)
  BY ArrivedType
<1>2. Arrived(n) = Parts(n, j \o transit) /\ Arrived(n)' = Parts(n, j \o (transit \o cells))
  BY DEF Arrived, readVars
<1> HIDE DEF j
<1>3. j \o (transit \o cells) = (j \o transit) \o cells /\ j \o transit \in Seq(Cells)
  BY <1>1, ConcatAssociative, ConcatProperties
<1>4. Parts(n, (j \o transit) \o cells) = Parts(n, j \o transit) \o Parts(n, cells)
  BY <1>3, PartsConcat
<1> QED BY <1>2, <1>3, <1>4

\* A read takes no part out of the stream and moves none.
LEMMA ArrivedRead ==
    ASSUME WireTypeOK, NEW n \in Lines, NEW k \in 1..MaxRead, ReadSome(k)
    PROVE  Arrived(n)' = Arrived(n)
<1> DEFINE chunk == SubSeq(transit, 1, k)
           left == SubSeq(transit, k + 1, Len(transit))
           x == buffer \o chunk
           l == Cut(x).lines
           r == Cut(x).rest
           h == Joined(handled)
<1>1. k <= Len(transit) /\ transit' = left /\ handled' = handled \o l /\ buffer' = r
  BY DEF ReadSome
<1>2. /\ chunk \in Seq(Cells) /\ left \in Seq(Cells) /\ transit = chunk \o left
      /\ buffer \in Seq(Cells) /\ x \in Seq(Cells)
  BY <1>1, ChunkType
<1>3. h \in Seq(Cells)
  BY ArrivedType
<1>4. l \in Seq(Seq(Cells)) /\ r \in Seq(Cells)
  <2> HIDE DEF x
  <2> QED BY <1>2, CutType, TextsType, PartsAreCells
<1>5. Joined(handled \o l) = h \o Joined(l) /\ Joined(l) \in Seq(Cells)
  <2>1. handled \in Seq(Seq(Cells))
    BY TextsType DEF WireTypeOK, CutParts
  <2> HIDE DEF l
  <2> QED BY <1>4, <2>1, JoinedConcat, JoinedType
<1>6. Parts(n, Joined(l) \o r) = Parts(n, x)
  <2> HIDE DEF x
  <2> QED BY <1>2, PartsCut
<1>7. Arrived(n) = Parts(n, (h \o buffer) \o transit)
      /\ Arrived(n)' = Parts(n, ((h \o Joined(l)) \o r) \o left)
  BY <1>1, <1>5 DEF Arrived
<1> DEFINE jl == Joined(l)
<1>8. Parts(n, ((h \o jl) \o r) \o left) = (Parts(n, h) \o Parts(n, jl \o r)) \o Parts(n, left)
  <2> HIDE DEF h, jl, r, left
  <2>0. jl \in Seq(Cells)
    BY <1>5 DEF jl
  <2>1. jl \o r \in Seq(Cells) /\ h \o (jl \o r) \in Seq(Cells)
    BY <1>3, <1>4, <2>0, ConcatProperties
  <2>2. (h \o jl) \o r = h \o (jl \o r)
    BY <1>3, <1>4, <2>0, ConcatAssociative
  <2>3. Parts(n, (h \o (jl \o r)) \o left) = Parts(n, h \o (jl \o r)) \o Parts(n, left)
    BY <1>2, <2>1, PartsConcat DEF left
  <2>4. Parts(n, h \o (jl \o r)) = Parts(n, h) \o Parts(n, jl \o r)
    BY <1>3, <2>1, PartsConcat
  <2> QED BY <2>2, <2>3, <2>4
<1>9. Parts(n, (h \o buffer) \o transit) = (Parts(n, h) \o Parts(n, x)) \o Parts(n, left)
  <2> HIDE DEF h, chunk, left
  <2>1. h \o x \in Seq(Cells)
    BY <1>2, <1>3, ConcatProperties
  <2> DEFINE hb == h \o buffer
  <2>2. hb \in Seq(Cells)
    BY <1>2, <1>3, ConcatProperties
  <2>3. (hb \o chunk) \o left = hb \o (chunk \o left)
    <3> HIDE DEF hb
    <3> QED BY <1>2, <2>2, ConcatAssociative
  <2>4. (h \o buffer) \o chunk = h \o x
    BY <1>2, <1>3, ConcatAssociative
  <2> HIDE DEF x
  <2>5. Parts(n, (h \o x) \o left) = Parts(n, h \o x) \o Parts(n, left)
    BY <1>2, <2>1, PartsConcat
  <2>6. Parts(n, h \o x) = Parts(n, h) \o Parts(n, x)
    BY <1>2, <1>3, PartsConcat
  <2> QED BY <1>2, <2>3, <2>4, <2>5, <2>6
<1> QED BY <1>6, <1>7, <1>8, <1>9

\* The parts of a line among its first cells are a start of its text.
LEMMA StartArrives ==
    ASSUME NEW n \in Lines, NEW w \in 0..Sizes[n],
           NEW a, a = Parts(n, SubSeq(LineCells(n), 1, w))
    PROVE  a = SubSeq(Text(n), 1, Len(a))
<1> DEFINE z == Sizes[n]
           v == IF w = z THEN z - 1 ELSE w
<1>1. z \in Nat /\ z >= 2 /\ w \in 0..z
  BY Numbers
<1>2. a = SubSeq(Text(n), 1, v)
  BY PartsLine
<1>3. Text(n) \in Seq(CutParts) /\ Len(Text(n)) = z - 1
  BY LineEnd
<1>4. v \in 0..(z - 1)
  <2> HIDE DEF z
  <2> QED BY <1>1
<1> HIDE DEF v, z
<1>5. Len(SubSeq(Text(n), 1, v)) = v
  BY <1>3, <1>4, CutInTwo
<1> QED BY <1>2, <1>5

\* How much of a line is written.
LEMMA WrittenRange ==
    ASSUME NEW f \in [Lines -> Nat], NEW n \in Lines, f[n] <= Sizes[n]
    PROVE  f[n] \in 0..Sizes[n]
<1>1. f[n] \in Nat
  OBVIOUS
<1>2. Sizes[n] \in Nat
  BY Numbers
<1> QED BY <1>1, <1>2

\* The k elements after the wth.
LEMMA MiddleOfSeq ==
    ASSUME NEW S, NEW s, NEW w \in Nat, NEW k \in Nat, \A i \in (w + 1)..(w + k) : s[i] \in S
    PROVE  LET t == SubSeq(s, w + 1, w + k)
           IN  t \in Seq(S) /\ Len(t) = k /\ \A i \in 1..k : t[i] = s[w + i]
OBVIOUS

\* A write appends the cells that follow in its line.
LEMMA OwnThreadWrites ==
    ASSUME OwnInv, writer = "client", link = "up", NEW n \in Lines, Transfer(n, TRUE),
           UNCHANGED readVars, NEW m \in Lines
    PROVE  Arrived(m)' = Parts(m, Start(m)')
<1>1. WireTypeOK /\ Arrived(m) = Parts(m, Start(m))
  BY DEF OwnInv, AllWritten
<1>2. PICK k \in 1..(Sizes[n] - written[n]) :
          /\ written' = [written EXCEPT ![n] = written[n] + k]
          /\ \E cells \in Bytes(n, k, TRUE) : transit' = transit \o cells
  BY <1>1, TransferStep
<1> DEFINE l == LineCells(n)
           z == Sizes[n]
           w == written[n]
           cells == SubSeq(l, w + 1, w + k)
<1>3. /\ z \in Nat /\ w \in Nat /\ w <= z /\ written \in [Lines -> Nat]
      /\ l \in Seq(Cells) /\ Len(l) = z
      /\ \A i \in 1..z : l[i] = [line |-> n, part |-> IF i = z THEN 0 ELSE i]
  BY <1>1, Numbers, LineCellsType DEF WireTypeOK
<1>4. k \in Nat /\ w + k <= z /\ k \in 1..(z - w)
  <2>1. k \in 1..(z - w)
    OBVIOUS
  <2> HIDE DEF w, z
  <2> QED BY <1>3, <2>1
<1>5. transit' = transit \o cells
  BY <1>2 DEF Bytes
<1>6. cells \in Seq(Cells) /\ Len(cells) = k /\ \A i \in 1..k : cells[i].line = n
  <2> HIDE DEF l, w, z
  <2>1. \A i \in (w + 1)..(w + k) : l[i] \in Cells
    BY <1>3, <1>4, ElementOfSeq
  <2>2. /\ cells \in Seq(Cells) /\ Len(cells) = k
        /\ \A i \in 1..k : cells[i] = l[w + i]
    <3>1. w \in Nat /\ k \in Nat
      BY <1>3, <1>4
    <3>2. /\ SubSeq(l, w + 1, w + k) \in Seq(Cells) /\ Len(SubSeq(l, w + 1, w + k)) = k
          /\ \A i \in 1..k : SubSeq(l, w + 1, w + k)[i] = l[w + i]
      BY <2>1, <3>1, MiddleOfSeq
    <3> QED BY <3>2 DEF cells
  <2>3. \A i \in 1..k : l[w + i].line = n
    BY <1>3, <1>4
  <2> QED BY <2>2, <2>3
<1> HIDE DEF cells
<1>7. Arrived(m)' = Arrived(m) \o Parts(m, cells)
  BY <1>1, <1>5, <1>6, ArrivedMore
<1>8. CASE m = n
  <2>1. Start(m)' = SubSeq(l, 1, w + k) /\ Start(m) = SubSeq(l, 1, w)
    BY <1>2, <1>3, <1>8 DEF Start
  <2>2. SubSeq(l, 1, w + k) = SubSeq(l, 1, w) \o cells /\ SubSeq(l, 1, w) \in Seq(Cells)
    <3> HIDE DEF l, w, z
    <3>1. 1 \in 1..(Len(l) + 1) /\ w \in (1 - 1)..Len(l) /\ w + k \in w..Len(l) /\ w \in 0..Len(l)
      BY <1>3, <1>4
    <3>2. SubSeq(l, 1, w) \o SubSeq(l, w + 1, w + k) = SubSeq(l, 1, w + k)
      BY <1>3, <3>1, ConcatAdjacentSubSeq
    <3>3. SubSeq(l, 1, w) \in Seq(Cells)
      BY <1>3, <3>1, CutInTwo
    <3> QED BY <3>2, <3>3 DEF cells
  <2> HIDE DEF l
  <2>3. Parts(n, SubSeq(l, 1, w) \o cells) = Parts(n, SubSeq(l, 1, w)) \o Parts(n, cells)
    BY <1>6, <2>2, PartsConcat
  <2> QED BY <1>1, <1>7, <1>8, <2>1, <2>2, <2>3
<1>9. CASE m # n
  <2>1. cells \in Seq({c \in Cells : c.line # m})
    <3>1. \A i \in 1..Len(cells) : cells[i] \in Cells /\ cells[i].line # m
      BY <1>6, <1>9, ElementOfSeq
    <3>2. cells \in [1..Len(cells) -> {c \in Cells : c.line # m}] /\ Len(cells) \in Nat
      BY <1>6, <3>1, LenProperties
    <3> QED BY <3>2, SeqDef
  <2>2. Parts(m, cells) = << >>
    BY <2>1, PartsOther
  <2>3. Start(m)' = Start(m)
    BY <1>2, <1>3, <1>9 DEF Start
  <2>4. Arrived(m) \in Seq(Cells)
    <3>1. (Joined(handled) \o buffer) \o transit \in Seq(Cells)
      BY <1>1, ArrivedType, ConcatProperties
    <3> QED BY <3>1, PartsType DEF Arrived
  <2>5. Arrived(m) \o << >> = Arrived(m)
    BY <2>4, ConcatEmptySeq
  <2> QED BY <1>1, <1>7, <2>2, <2>3, <2>5
<1> QED BY <1>8, <1>9

\* What arrives after a loss is what was in front.
LEMMA OwnLinkLost ==
    ASSUME WireTypeOK, OwnBytesInOrder, writer = "client", LinkLost, NEW n \in Lines
    PROVE  Arrived(n)' = SubSeq(Text(n), 1, Len(Arrived(n)'))
<1>1. PICK k \in 0..Len(transit) : transit' = SubSeq(transit, 1, k)
  BY DEF LinkLost
<1> DEFINE j == Joined(handled) \o buffer
           f == SubSeq(transit, 1, k)
           g == SubSeq(transit, k + 1, Len(transit))
<1>2. j \in Seq(Cells) /\ transit \in Seq(Cells)
  BY ArrivedType
<1>3. f \in Seq(Cells) /\ g \in Seq(Cells) /\ transit = f \o g
  BY <1>2, CutInTwo
<1>4. Arrived(n) = Parts(n, j \o transit) /\ Arrived(n)' = Parts(n, j \o f)
  BY <1>1 DEF Arrived, LinkLost, readVars
<1>5. Parts(n, j \o transit) = Parts(n, j \o f) \o Parts(n, g)
  <2> HIDE DEF j, f, g
  <2>1. (j \o f) \o g = j \o (f \o g) /\ j \o f \in Seq(Cells)
    BY <1>2, <1>3, ConcatAssociative, ConcatProperties
  <2>2. Parts(n, (j \o f) \o g) = Parts(n, j \o f) \o Parts(n, g)
    BY <1>3, <2>1, PartsConcat
  <2> QED BY <1>3, <2>1, <2>2
<1> DEFINE p == Parts(n, j \o f)
           q == Parts(n, g)
           t == Text(n)
<1>6. p \in Seq(Cells) /\ q \in Seq(Cells) /\ t \in Seq(Cells)
  <2>1. j \o f \in Seq(Cells)
    BY <1>2, <1>3, ConcatProperties
  <2> QED BY <1>3, <2>1, PartsType, LineEnd, PartsAreCells
<1>7. p \o q = SubSeq(t, 1, Len(p \o q))
  BY <1>4, <1>5 DEF OwnBytesInOrder
<1>8. p = SubSeq(t, 1, Len(p))
  <2> HIDE DEF p, q, t
  <2> QED BY <1>6, <1>7, StartIsStart
<1> QED BY <1>4, <1>8

\* Steps that change neither the stream nor what was written of it.
LEMMA OwnUnchanged ==
    ASSUME OwnInv, UNCHANGED <<writer, written, transit, buffer, handled>>,
           link' = "up" => link = "up"
    PROVE  AllWritten' /\ OwnBytesInOrder'
<1>1. \A n \in Lines : Arrived(n)' = Arrived(n) /\ Start(n)' = Start(n)
  BY DEF Arrived, Start
<1> QED BY <1>1 DEF OwnInv, AllWritten, OwnBytesInOrder

\* The invariant holds at the start.
LEMMA OwnInit == WireInit => OwnInv
<1> SUFFICES ASSUME WireInit PROVE OwnInv
  OBVIOUS
<1>1. WireTypeOK /\ NothingQueued
  BY WireInitType DEF WireInit, NothingQueued
<1>2. ASSUME NEW n \in Lines PROVE Arrived(n) = Parts(n, Start(n))
  <2>1. handled = << >> /\ buffer = << >> /\ transit = << >> /\ written[n] = 0
    BY DEF WireInit
  <2>2. (<< >> \o << >>) \o << >> = << >>
    BY EmptySeq, ConcatEmptySeq
  <2>3. Arrived(n) = Parts(n, << >>)
    BY <2>1, <2>2, JoinedEmpty DEF Arrived
  <2>4. Start(n) = << >>
    BY <2>1, SubSeqEmpty DEF Start
  <2> QED BY <2>3, <2>4
<1>3. OwnBytesInOrder
  <2>1. ASSUME NEW n \in Lines PROVE Arrived(n) = SubSeq(Text(n), 1, Len(Arrived(n)))
    <3>1. written[n] \in 0..Sizes[n]
      <4>1. written \in [Lines -> Nat] /\ written[n] <= Sizes[n]
        BY <1>1 DEF WireTypeOK
      <4> QED BY <4>1, WrittenRange
    <3> QED BY <1>2, <3>1, StartArrives DEF Start
  <2> QED BY <2>1 DEF OwnBytesInOrder
<1> QED BY <1>1, <1>2, <1>3 DEF OwnInv, AllWritten

\* A step of a client, whose queues in the event loop are empty.
LEMMA OwnClientStep ==
    ASSUME OwnInv, writer = "client", WireNext
    PROVE  NothingQueued' /\ AllWritten' /\ OwnBytesInOrder'
<1>1. WireTypeOK /\ queued = << >> /\ posted = << >>
  BY DEF OwnInv, NothingQueued
<1>2. WireTypeOK'
  BY <1>1, WireNextType
<1>3. CASE SessionSend
  BY <1>3 DEF SessionSend
<1>4. CASE ConnectionSend
  <2>1. UNCHANGED <<writer, written, queued, posted, link, transit, buffer, handled>>
    BY <1>4 DEF ConnectionSend, readVars
  <2> QED BY <1>1, <2>1, OwnUnchanged DEF NothingQueued
<1>5. CASE Writable \/ WriteGoesOn \/ WriteHandled
  BY <1>1, <1>5 DEF Writable, WriteGoesOn, WriteHandled
<1>6. ASSUME NEW n \in Lines, ThreadWrites(n)
      PROVE  NothingQueued' /\ AllWritten' /\ OwnBytesInOrder'
  <2>1. UNCHANGED <<writer, queued, posted, link, readVars>>
    BY <1>6 DEF ThreadWrites
  <2>2. NothingQueued'
    BY <1>1, <2>1 DEF NothingQueued
  <2>3. CASE link = "up"
    <3>1. Transfer(n, TRUE)
      BY <1>6, <2>3 DEF ThreadWrites
    <3>2. \A m \in Lines : Arrived(m)' = Parts(m, Start(m)')
      BY <2>1, <2>3, <3>1, OwnThreadWrites
    <3>3. \A m \in Lines : (Arrived(m) = SubSeq(Text(m), 1, Len(Arrived(m))))'
      <4>1. ASSUME NEW m \in Lines
            PROVE  (Arrived(m) = SubSeq(Text(m), 1, Len(Arrived(m))))'
        <5>1. Arrived(m)' = Parts(m, SubSeq(LineCells(m), 1, written'[m]))
          BY <3>2 DEF Start
        <5>2. written'[m] \in 0..Sizes[m]
          <6>1. written' \in [Lines -> Nat] /\ written'[m] <= Sizes[m]
            BY <1>2 DEF WireTypeOK
          <6> QED BY <6>1, WrittenRange
        <5> QED BY <5>1, <5>2, StartArrives
      <4> QED BY <4>1
    <3> QED BY <2>2, <3>2, <3>3 DEF AllWritten, OwnBytesInOrder
  <2>4. CASE link # "up"
    <3>1. transit' = transit
      BY <1>1, <1>6, <2>4, TransferStep DEF ThreadWrites
    <3>2. \A m \in Lines : Arrived(m)' = Arrived(m)
      BY <2>1, <3>1 DEF Arrived, readVars
    <3> QED BY <2>1, <2>2, <2>4, <3>2 DEF OwnInv, AllWritten, OwnBytesInOrder
  <2> QED BY <2>3, <2>4
<1>7. ASSUME NEW k \in 1..MaxRead, ReadSome(k)
      PROVE  NothingQueued' /\ AllWritten' /\ OwnBytesInOrder'
  <2>1. UNCHANGED <<writer, writeVars, link>>
    BY <1>7 DEF ReadSome
  <2>2. \A m \in Lines : Arrived(m)' = Arrived(m)
    BY <1>1, <1>7, ArrivedRead
  <2>3. \A m \in Lines : Start(m)' = Start(m)
    BY <2>1 DEF Start, writeVars
  <2> QED BY <1>1, <2>1, <2>2, <2>3
          DEF OwnInv, NothingQueued, AllWritten, OwnBytesInOrder, writeVars
<1>8. CASE ReadError
  <2>1. UNCHANGED <<writer, written, queued, posted, link, transit, buffer, handled>>
    BY <1>8 DEF ReadError, writeVars
  <2> QED BY <1>1, <2>1, OwnUnchanged DEF NothingQueued
<1>9. CASE LinkLost
  <2>1. link' = "lost" /\ UNCHANGED <<writer, writeVars>>
    BY <1>9 DEF LinkLost
  <2>2. OwnBytesInOrder'
    BY <1>1, <1>9, OwnLinkLost DEF OwnInv, OwnBytesInOrder
  <2> QED BY <1>1, <2>1, <2>2 DEF NothingQueued, AllWritten, writeVars
<1> QED BY <1>3, <1>4, <1>5, <1>6, <1>7, <1>8, <1>9 DEF WireNext, Write, Read

\* Nobody changes who writes.
LEMMA WriterStays == WireNext => writer' = writer
BY DEF WireNext, SessionSend, ConnectionSend, Write, Writable, WriteGoesOn, WriteHandled,
       ThreadWrites, Read, ReadError, ReadSome, LinkLost

\* Every step keeps it.
LEMMA OwnNext == OwnInv /\ [WireNext]_wireVars => OwnInv'
<1> SUFFICES ASSUME OwnInv, [WireNext]_wireVars PROVE OwnInv'
  OBVIOUS
<1>1. WireTypeOK'
  BY WireNextType DEF OwnInv
<1>2. CASE UNCHANGED wireVars
  <2>1. UNCHANGED <<writer, written, queued, posted, link, transit, buffer, handled>>
    BY <1>2 DEF wireVars, writeVars, readVars
  <2> QED BY <1>1, <2>1, OwnUnchanged DEF OwnInv, NothingQueued
<1>3. CASE WireNext /\ writer = "client"
  BY <1>1, <1>3, OwnClientStep DEF OwnInv
<1>4. CASE WireNext /\ writer # "client"
  BY <1>1, <1>4, WriterStays DEF OwnInv, NothingQueued, AllWritten, OwnBytesInOrder
<1> QED BY <1>2, <1>3, <1>4

\* The threads of a client write at once and may mix their lines, the reader cuts
\* the stream into chunks as it likes, and still the bytes of each line arrive in
\* order, none twice and none left out but at the end (client_connection.cpp:67).
THEOREM OwnBytesArriveInOrder == WireSpec => []OwnBytesInOrder
<1>1. OwnInv => OwnBytesInOrder
  BY DEF OwnInv
<1> QED BY <1>1, OwnInit, OwnNext, PTL DEF WireSpec

-----------------------------------------------------------------------------
(* A stream that is not torn is a LineStream.                               *)

\* A write fails only when the connection is lost.
FailedAfterLoss == \A i \in 1..Len(posted) : ~posted[i].ok => link # "up"

\* One line is written at a time.
OneUnfinished == \A m, n \in Unfinished : m = n

\* The lines that were cut, and those that will be, were sent.
AllWhole(texts) == \A i \in 1..Len(texts) : IsWhole(texts[i])

\* What will be left in the buffer is the start of the line being written.
RestIsStart ==
    link = "up" =>
        /\ Unfinished = {} => Cut(buffer \o transit).rest = << >>
        /\ \A n \in Unfinished : Cut(buffer \o transit).rest = Start(n)

WholeStream == OneUnfinished /\ AllWhole(handled) /\ AllWhole(Coming) /\ RestIsStart

StreamInv == WireTypeOK /\ FailedAfterLoss /\ (~torn => WholeStream)

\* The lines of texts, one for each.
LineNames == {LineOf(t) : t \in Seq(CutParts)}

\* A function on the first n numbers is a sequence.
LEMMA FunctionIsSeq ==
    ASSUME NEW S, NEW n \in Nat, NEW f \in [1..n -> S]
    PROVE  f \in Seq(S) /\ Len(f) = n
OBVIOUS

\* One line for each text.
LEMMA LinesOfType ==
    ASSUME NEW s \in Seq(Seq(CutParts))
    PROVE  /\ LinesOf(s) \in Seq(LineNames) /\ Len(LinesOf(s)) = Len(s) /\ Len(s) \in Nat
           /\ \A i \in 1..Len(s) : LinesOf(s)[i] = LineOf(s[i])
<1>1. Len(s) \in Nat /\ DOMAIN s = 1..Len(s) /\ \A i \in 1..Len(s) : s[i] \in Seq(CutParts)
  BY LenProperties, ElementOfSeq
<1>2. LinesOf(s) \in [1..Len(s) -> LineNames]
  BY <1>1 DEF LinesOf, LineNames
<1>3. LinesOf(s) \in Seq(LineNames) /\ Len(LinesOf(s)) = Len(s)
  BY <1>1, <1>2, FunctionIsSeq
<1> QED BY <1>1, <1>3 DEF LinesOf

\* No texts, no lines.
LEMMA LinesOfEmpty == LinesOf(<< >>) = << >>
<1>1. << >> \in Seq(Seq(CutParts)) /\ Len(<< >>) = 0
  BY EmptySeq
<1>2. LinesOf(<< >>) \in Seq(LineNames) /\ Len(LinesOf(<< >>)) = 0
  BY <1>1, LinesOfType
<1> QED BY <1>2, EmptySeq

\* The lines of texts before and after.
LEMMA LinesOfConcat ==
    ASSUME NEW p \in Seq(Seq(CutParts)), NEW q \in Seq(Seq(CutParts))
    PROVE  LinesOf(p \o q) = LinesOf(p) \o LinesOf(q)
<1> DEFINE a == LinesOf(p \o q)
           b == LinesOf(p) \o LinesOf(q)
<1>1. /\ p \o q \in Seq(Seq(CutParts)) /\ Len(p \o q) = Len(p) + Len(q)
      /\ Len(p) \in Nat /\ Len(q) \in Nat
      /\ \A i \in 1..(Len(p) + Len(q)) : (p \o q)[i] = IF i <= Len(p) THEN p[i] ELSE q[i - Len(p)]
  BY ConcatProperties, LenProperties
<1>2. /\ a \in Seq(LineNames) /\ Len(a) = Len(p) + Len(q)
      /\ \A i \in 1..(Len(p) + Len(q)) : a[i] = LineOf((p \o q)[i])
  BY <1>1, LinesOfType
<1>3. /\ LinesOf(p) \in Seq(LineNames) /\ Len(LinesOf(p)) = Len(p)
      /\ \A i \in 1..Len(p) : LinesOf(p)[i] = LineOf(p[i])
      /\ LinesOf(q) \in Seq(LineNames) /\ Len(LinesOf(q)) = Len(q)
      /\ \A i \in 1..Len(q) : LinesOf(q)[i] = LineOf(q[i])
  BY LinesOfType
<1>4. /\ b \in Seq(LineNames) /\ Len(b) = Len(p) + Len(q)
      /\ \A i \in 1..(Len(p) + Len(q)) :
            b[i] = IF i <= Len(p) THEN LinesOf(p)[i] ELSE LinesOf(q)[i - Len(p)]
  <2> DEFINE lp == LinesOf(p)
             lq == LinesOf(q)
  <2>1. lp \in Seq(LineNames) /\ lq \in Seq(LineNames) /\ Len(lp) = Len(p) /\ Len(lq) = Len(q)
    BY <1>3
  <2> HIDE DEF lp, lq
  <2>2. /\ lp \o lq \in Seq(LineNames) /\ Len(lp \o lq) = Len(lp) + Len(lq)
        /\ \A i \in 1..(Len(lp) + Len(lq)) :
              (lp \o lq)[i] = IF i <= Len(lp) THEN lp[i] ELSE lq[i - Len(lp)]
    BY <2>1, ConcatProperties
  <2> QED BY <2>1, <2>2 DEF lp, lq
<1> HIDE DEF a, b
<1>5. ASSUME NEW i \in 1..(Len(p) + Len(q)) PROVE a[i] = b[i]
  <2>1. CASE i <= Len(p)
    <3>1. i \in 1..Len(p)
      BY <1>1, <2>1
    <3> QED BY <1>1, <1>2, <1>3, <1>4, <2>1, <3>1
  <2>2. CASE ~(i <= Len(p))
    <3>1. i - Len(p) \in 1..Len(q)
      BY <1>1, <2>2
    <3>2. a[i] = LineOf(q[i - Len(p)]) /\ b[i] = LinesOf(q)[i - Len(p)]
      BY <1>1, <1>2, <1>4, <2>2
    <3> QED BY <1>3, <3>1, <3>2
  <2> QED BY <2>1, <2>2
<1>6. a = b
  BY <1>2, <1>4, <1>5, SeqEqual
<1> QED BY <1>6 DEF a, b

\* Whole lines before and after.
LEMMA WholeConcat ==
    ASSUME NEW p \in Seq(Seq(CutParts)), NEW q \in Seq(Seq(CutParts))
    PROVE  AllWhole(p \o q) <=> AllWhole(p) /\ AllWhole(q)
<1>1. /\ Len(p \o q) = Len(p) + Len(q) /\ Len(p) \in Nat /\ Len(q) \in Nat
      /\ \A i \in 1..(Len(p) + Len(q)) : (p \o q)[i] = IF i <= Len(p) THEN p[i] ELSE q[i - Len(p)]
  BY ConcatProperties, LenProperties
<1>2. ASSUME AllWhole(p \o q), NEW i \in 1..Len(p) PROVE IsWhole(p[i])
  <2>1. i \in 1..(Len(p) + Len(q)) /\ (p \o q)[i] = p[i]
    BY <1>1
  <2> QED BY <1>1, <1>2, <2>1 DEF AllWhole
<1>3. ASSUME AllWhole(p \o q), NEW i \in 1..Len(q) PROVE IsWhole(q[i])
  <2>1. Len(p) + i \in 1..(Len(p) + Len(q)) /\ (p \o q)[Len(p) + i] = q[i]
    <3>1. /\ Len(p) + i \in 1..(Len(p) + Len(q)) /\ ~(Len(p) + i <= Len(p))
          /\ (Len(p) + i) - Len(p) = i
      BY <1>1
    <3> QED BY <1>1, <3>1
  <2> QED BY <1>1, <1>3, <2>1 DEF AllWhole
<1>4. ASSUME AllWhole(p), AllWhole(q), NEW i \in 1..(Len(p) + Len(q)) PROVE IsWhole((p \o q)[i])
  <2>1. CASE i <= Len(p)
    <3>1. i \in 1..Len(p) /\ (p \o q)[i] = p[i]
      BY <1>1, <2>1
    <3> QED BY <1>4, <3>1 DEF AllWhole
  <2>2. CASE ~(i <= Len(p))
    <3>1. i - Len(p) \in 1..Len(q) /\ (p \o q)[i] = q[i - Len(p)]
      BY <1>1, <2>2
    <3> QED BY <1>4, <3>1 DEF AllWhole
  <2> QED BY <2>1, <2>2
<1> QED BY <1>1, <1>2, <1>3, <1>4 DEF AllWhole

\* What is cut out of the first cells of a line.
LEMMA CutStart ==
    ASSUME NEW n \in Lines, NEW v \in 0..Sizes[n]
    PROVE  Cut(SubSeq(LineCells(n), 1, v))
           = IF v = Sizes[n] THEN [lines |-> <<Text(n)>>, rest |-> << >>]
             ELSE [lines |-> << >>, rest |-> SubSeq(LineCells(n), 1, v)]
<1> DEFINE l == LineCells(n)
           z == Sizes[n]
<1>1. l \in Seq(Cells) /\ Len(l) = z /\ z \in Nat /\ v \in 0..z
  BY LineCellsType
<1>2. CASE v = z
  <2>1. SubSeq(l, 1, v) = l
    <3> HIDE DEF l, z
    <3> QED BY <1>1, <1>2, SubSeqFull
  <2> QED BY <1>2, <2>1, CutLine
<1>3. CASE v # z
  <2>1. v \in 0..(z - 1)
    <3> HIDE DEF z
    <3> QED BY <1>1, <1>3
  <2>2. SubSeq(l, 1, v) \in Seq(CutParts)
    BY <2>1, LineStart
  <2> HIDE DEF l
  <2>3. Cut(SubSeq(l, 1, v)) = [lines |-> << >>, rest |-> SubSeq(l, 1, v)]
    BY <2>2, CutParts1
  <2> QED BY <1>3, <2>3 DEF l
<1> QED BY <1>2, <1>3

\* Cells x that end with the first w cells of line n, and the k that follow.
LEMMA CutFurther ==
    ASSUME NEW x \in Seq(Cells), NEW n \in Lines, NEW w \in Nat, NEW k \in Nat,
           w + k <= Sizes[n], Cut(x).rest = SubSeq(LineCells(n), 1, w)
    PROVE  LET y == x \o SubSeq(LineCells(n), w + 1, w + k)
           IN  /\ Cut(y).lines = IF w + k = Sizes[n] THEN Cut(x).lines \o <<Text(n)>>
                                 ELSE Cut(x).lines
               /\ Cut(y).rest = IF w + k = Sizes[n] THEN << >>
                                ELSE SubSeq(LineCells(n), 1, w + k)
<1> DEFINE l == LineCells(n)
           z == Sizes[n]
           c == SubSeq(l, w + 1, w + k)
           s == SubSeq(l, 1, w)
           t == SubSeq(l, 1, w + k)
           y == x \o c
<1>1. l \in Seq(Cells) /\ Len(l) = z /\ z \in Nat /\ w + k <= z
  BY LineCellsType
<1>2. c \in Seq(Cells) /\ s \o c = t
  <2> HIDE DEF l, z
  <2>1. 1 \in 1..(Len(l) + 1) /\ w \in (1 - 1)..Len(l) /\ w + k \in w..Len(l)
    BY <1>1
  <2>2. \A i \in (w + 1)..(w + k) : l[i] \in Cells
    BY <1>1, ElementOfSeq
  <2>3. c \in Seq(Cells)
    BY <2>2, MiddleOfSeq
  <2> QED BY <1>1, <2>1, <2>3, ConcatAdjacentSubSeq
<1> DEFINE m == Cut(Cut(x).rest \o c)
           e == Cut(x).lines
           d == Cut(y)
<1>3. d.lines = e \o m.lines /\ d.rest = m.rest
  <2> HIDE DEF c
  <2> QED BY <1>2, CutChunks
<1>4. m = Cut(t)
  BY <1>2
<1>5. Cut(t) = IF w + k = z THEN [lines |-> <<Text(n)>>, rest |-> << >>]
               ELSE [lines |-> << >>, rest |-> t]
  <2>1. w + k \in 0..z
    <3> HIDE DEF z
    <3> QED BY <1>1
  <2> QED BY <2>1, CutStart
<1>6. e \o << >> = e
  BY CutType, ConcatEmptySeq
<1>7. /\ d.lines = IF w + k = z THEN e \o <<Text(n)>> ELSE e
      /\ d.rest = IF w + k = z THEN << >> ELSE t
  <2> HIDE DEF d, e, m, t, z
  <2>1. CASE w + k = z
    <3>1. m.lines = <<Text(n)>> /\ m.rest = << >>
      BY <1>4, <1>5, <2>1
    <3> QED BY <1>3, <2>1, <3>1
  <2>2. CASE w + k # z
    <3>1. m.lines = << >> /\ m.rest = t
      BY <1>4, <1>5, <2>2
    <3> QED BY <1>3, <1>6, <2>2, <3>1
  <2> QED BY <2>1, <2>2
<1> QED BY <1>7

\* The stream as cells to be cut.
LEMMA StreamCells ==
    ASSUME WireTypeOK
    PROVE  /\ buffer \in Seq(Cells) /\ transit \in Seq(Cells) /\ buffer \o transit \in Seq(Cells)
           /\ handled \in Seq(Seq(CutParts)) /\ Coming \in Seq(Seq(CutParts))
<1>1. buffer \in Seq(Cells) /\ transit \in Seq(Cells)
  BY ArrivedType
<1>2. buffer \o transit \in Seq(Cells)
  BY <1>1, ConcatProperties
<1>3. handled \in Seq(Seq(CutParts))
  BY DEF WireTypeOK, CutParts
<1> QED BY <1>1, <1>2, <1>3, CutType DEF Coming

-----------------------------------------------------------------------------
(* Writes that fail.                                                        *)

\* A result that is put behind others, and results of which the first is taken.
LEMMA FailedKept ==
    ASSUME NEW S, NEW results \in Seq(S), NEW r \in S, NEW lost,
           \A i \in 1..Len(results) : ~results[i].ok => lost
    PROVE  /\ (~r.ok => lost) => \A i \in 1..Len(Append(results, r)) :
                                    ~Append(results, r)[i].ok => lost
           /\ results # << >> => \A i \in 1..Len(Tail(results)) : ~Tail(results)[i].ok => lost
<1>1. Len(results) \in Nat
  BY LenProperties
<1>2. ASSUME ~r.ok => lost, NEW i \in 1..Len(Append(results, r)), ~Append(results, r)[i].ok
      PROVE  lost
  <2> DEFINE a == Append(results, r)
  <2>1. /\ Len(a) = Len(results) + 1 /\ a[Len(results) + 1] = r
        /\ \A j \in 1..Len(results) : a[j] = results[j]
    BY AppendProperties
  <2>2. i \in 1..Len(a) /\ ~a[i].ok
    BY <1>2
  <2> HIDE DEF a
  <2>3. i \in 1..Len(results) \/ i = Len(results) + 1
    BY <1>1, <2>1, <2>2
  <2> QED BY <1>2, <2>1, <2>2, <2>3
<1>3. ASSUME results # << >>, NEW i \in 1..Len(Tail(results)), ~Tail(results)[i].ok
      PROVE  lost
  <2> DEFINE t == Tail(results)
  <2>1. Len(t) = Len(results) - 1 /\ \A j \in 1..Len(t) : t[j] = results[j + 1]
    BY <1>3, HeadTailProperties
  <2>2. i \in 1..Len(t) /\ ~t[i].ok
    BY <1>3
  <2> HIDE DEF t
  <2>3. i + 1 \in 1..Len(results) /\ ~results[i + 1].ok
    BY <1>1, <2>1, <2>2
  <2> QED BY <2>3
<1> QED BY <1>2, <1>3

\* A write is posted as failed only without a connection.
LEMMA PerformFails ==
    ASSUME NEW b \in Nat, NEW n \in 1..b, NEW results \in Seq(Results(b)), NEW alive,
           \A i \in 1..Len(results) : ~results[i].ok => link # "up", Perform(n, alive, results)
    PROVE  FailedAfterLoss'
<1>1. link' = link
  BY DEF Perform
<1>2. PICK r \in Results(b) : posted' = Append(results, r) /\ (~r.ok => link # "up")
  <2>1. /\ [line |-> n, ok |-> TRUE] \in Results(b) /\ [line |-> n, ok |-> TRUE].ok
        /\ [line |-> n, ok |-> FALSE] \in Results(b)
    BY DEF Results
  <2>2. \/ posted' = Append(results, [line |-> n, ok |-> TRUE])
        \/ posted' = Append(results, [line |-> n, ok |-> FALSE]) /\ link # "up"
    BY DEF Perform
  <2> QED BY <2>1, <2>2
<1>3. \A i \in 1..Len(Append(results, r)) : ~Append(results, r)[i].ok => link # "up"
  <2> DEFINE lost == link # "up"
  <2>1. (\A i \in 1..Len(results) : ~results[i].ok => lost) /\ (~r.ok => lost)
    BY <1>2
  <2> HIDE DEF lost
  <2>2. \A i \in 1..Len(Append(results, r)) : ~Append(results, r)[i].ok => lost
    BY <2>1, FailedKept
  <2> QED BY <2>2 DEF lost
<1> QED BY <1>1, <1>2, <1>3 DEF FailedAfterLoss

\* The same of a write that may have to wait.
LEMMA AsyncFails ==
    ASSUME NEW b \in Nat, NEW n \in 1..b, NEW results \in Seq(Results(b)), NEW alive,
           \A i \in 1..Len(results) : ~results[i].ok => link # "up",
           AsyncWriteSome(n, alive, results)
    PROVE  FailedAfterLoss'
<1>1. CASE posted' = results /\ link' = link
  BY <1>1 DEF FailedAfterLoss
<1>2. CASE Perform(n, alive, results)
  BY <1>2, PerformFails
<1> QED BY <1>1, <1>2 DEF AsyncWriteSome

\* The results behind the first.
LEMMA FailedTail ==
    ASSUME WireTypeOK, FailedAfterLoss, posted # << >>
    PROVE  \A i \in 1..Len(Tail(posted)) : ~Tail(posted)[i].ok => link # "up"
<1> DEFINE lost == link # "up"
<1>1. posted \in Seq(Results(begun)) /\ \A i \in 1..Len(posted) : ~posted[i].ok => lost
  BY DEF WireTypeOK, Results, FailedAfterLoss
<1>2. [line |-> 1, ok |-> TRUE].ok
  OBVIOUS
<1> HIDE DEF lost
<1>3. Head(posted) \in Results(begun)
  BY <1>1, TailType
<1>4. \A i \in 1..Len(Tail(posted)) : ~Tail(posted)[i].ok => lost
  BY <1>1, <1>3, FailedKept
<1> QED BY <1>4 DEF lost

\* No step posts a failed write while the connection is up.
LEMMA FailedStep ==
    ASSUME WireTypeOK, FailedAfterLoss, WireNext
    PROVE  FailedAfterLoss'
<1>0. /\ begun \in Nat /\ posted \in Seq(Results(begun)) /\ queued \in Seq(1..begun)
      /\ \A i \in 1..Len(posted) : ~posted[i].ok => link # "up"
  BY Numbers DEF WireTypeOK, Results, FailedAfterLoss
<1>1. CASE SessionSend
  <2> DEFINE b == begun + 1
  <2>1. AsyncWriteSome(b, TRUE, posted)
    BY <1>1 DEF SessionSend
  <2>2. b \in Nat /\ b \in 1..b /\ begun <= b
    BY <1>0
  <2> HIDE DEF b
  <2>3. posted \in Seq(Results(b))
    BY <1>0, <2>2, SeqOfMore
  <2> QED BY <1>0, <2>1, <2>2, <2>3, AsyncFails
<1>2. CASE Writable
  <2>1. queued # << >> /\ Perform(Head(queued), FALSE, posted)
    BY <1>2 DEF Writable
  <2>2. Head(queued) \in 1..begun
    BY <1>0, <2>1, TailType
  <2> QED BY <1>0, <2>1, <2>2, PerformFails
<1>3. CASE WriteGoesOn
  <2>1. posted # << >> /\ AsyncWriteSome(Result.line, FALSE, Tail(posted))
    BY <1>3 DEF WriteGoesOn
  <2>2. Head(posted) \in Results(begun) /\ Tail(posted) \in Seq(Results(begun))
    BY <1>0, <2>1, TailType
  <2>3. Result.line \in 1..begun
    BY <2>2 DEF Result, Results
  <2>4. \A i \in 1..Len(Tail(posted)) : ~Tail(posted)[i].ok => link # "up"
    BY <2>1, FailedTail
  <2> QED BY <1>0, <2>1, <2>2, <2>3, <2>4, AsyncFails
<1>4. CASE WriteHandled
  <2>1. posted # << >> /\ posted' = Tail(posted) /\ link' \in {link, "closed"}
    BY <1>4 DEF WriteHandled
  <2> QED BY <2>1, FailedTail DEF FailedAfterLoss
<1>5. CASE \/ ConnectionSend \/ LinkLost \/ Read \/ \E n \in Lines : ThreadWrites(n)
  <2>1. posted' = posted /\ link' \in {link, "lost"}
    BY <1>5 DEF ConnectionSend, LinkLost, Read, ReadError, ReadSome, ThreadWrites, writeVars
  <2> QED BY <1>0, <2>1 DEF FailedAfterLoss
<1> QED BY <1>1, <1>2, <1>3, <1>4, <1>5 DEF WireNext, Write

-----------------------------------------------------------------------------
(* The steps of the stream.                                                 *)

StreamStep == [Stream!StreamNext]_(Stream!streamVars)

\* Steps that leave the bytes alone.
LEMMA StreamSame ==
    ASSUME UNCHANGED <<written, transit, buffer, handled, torn>>, link' = "up" <=> link = "up"
    PROVE  StreamStep /\ (WholeStream => WholeStream')
<1>1. Coming' = Coming /\ Unfinished' = Unfinished
  BY DEF Coming, Unfinished
<1>2. Finished' = Finished /\ OnTheWay' = OnTheWay /\ Received' = Received
  BY <1>1 DEF Finished, OnTheWay, Received, LinesOf, LineOf
<1>3. \A n \in Unfinished : Start(n)' = Start(n)
  BY DEF Start
<1>4. WholeStream => WholeStream'
  BY <1>1, <1>3 DEF WholeStream, OneUnfinished, AllWhole, RestIsStart
<1> QED BY <1>2, <1>4 DEF StreamStep, Stream!streamVars

\* A transfer that leaves the stream whole: the line was the only one unfinished,
\* and the cells that follow those already written are put behind them.
LEMMA WholeTransfer ==
    ASSUME WireTypeOK, WholeStream, ~torn, NEW n \in Lines, NEW alive \in BOOLEAN,
           Transfer(n, alive), UNCHANGED <<link, buffer>>, ~torn'
    PROVE  /\ n \notin Finished
           /\ Unfinished' = IF written'[n] = Sizes[n] THEN {} ELSE {n}
           /\ Finished' = IF written'[n] = Sizes[n] THEN Finished \cup {n} ELSE Finished
           /\ Coming' = IF written'[n] = Sizes[n] /\ link = "up" THEN Coming \o <<Text(n)>>
                        ELSE Coming
           /\ link = "up" => Cut(buffer \o transit)'.rest
                             = IF written'[n] = Sizes[n] THEN << >> ELSE Start(n)'
<1>1. alive = TRUE /\ Unfinished \ {n} = {}
  BY DEF Transfer
<1>2. PICK k \in 1..(Sizes[n] - written[n]) :
          /\ written' = [written EXCEPT ![n] = written[n] + k]
          /\ link = "up" => \E cells \in Bytes(n, k, alive) : transit' = transit \o cells
  BY TransferStep
<1>3. /\ Sizes[n] \in Nat /\ Sizes[n] >= 2 /\ written[n] \in Nat /\ written[n] <= Sizes[n]
      /\ written \in [Lines -> Nat]
  BY Numbers DEF WireTypeOK
<1>4. /\ k \in Nat /\ k > 0 /\ written[n] + k <= Sizes[n] /\ written'[n] = written[n] + k
  <2> DEFINE v == written[n]
             u == Sizes[n]
  <2>1. written'[n] = v + k
    BY <1>2, <1>3
  <2>2. v \in Nat /\ u \in Nat /\ k \in 1..(u - v)
    BY <1>3
  <2> HIDE DEF u, v
  <2>3. k \in Nat /\ k > 0 /\ v + k <= u
    BY <2>2
  <2> QED BY <2>1, <2>3 DEF u, v
<1>5. \A m \in Lines : m # n => written'[m] = written[m]
  BY <1>2, <1>3
<1> DEFINE w == written[n]
           z == Sizes[n]
<1>6. n \notin Finished
  BY <1>3, <1>4 DEF Finished
<1>7. Unfinished' = IF w + k = z THEN {} ELSE {n}
  <2>1. \A m \in Lines : m # n => m \notin Unfinished'
    BY <1>1, <1>5 DEF Unfinished
  <2>2. n \in Unfinished' <=> w + k # z
    BY <1>3, <1>4 DEF Unfinished
  <2> QED BY <2>1, <2>2 DEF Unfinished
<1>8. Finished' = IF w + k = z THEN Finished \cup {n} ELSE Finished
  BY <1>3, <1>4, <1>5, <1>6 DEF Finished
<1>9. CASE link # "up"
  <2>1. transit' = transit
    BY <1>9, TransferStep
  <2>2. Coming' = Coming
    BY <2>1 DEF Coming
  <2> QED BY <1>4, <1>6, <1>7, <1>8, <1>9, <2>2
<1>10. CASE link = "up"
  <2> DEFINE x == buffer \o transit
             s == SubSeq(LineCells(n), w + 1, w + k)
  <2>1. buffer \in Seq(Cells) /\ transit \in Seq(Cells) /\ x \in Seq(Cells)
    BY StreamCells
  <2>2. Bytes(n, k, alive) = {s}
    BY <1>1 DEF Bytes
  <2>3. transit' = transit \o s
    BY <1>2, <1>10, <2>2
  <2>4. s \in Seq(Cells)
    BY <1>3, <1>4, <2>2, BytesType
  <2>5. buffer' \o transit' = x \o s
    <3> HIDE DEF s
    <3>1. (buffer \o transit) \o s = buffer \o (transit \o s)
      BY <2>1, <2>4, ConcatAssociative
    <3> QED BY <2>3, <3>1
  <2>6. Cut(x).rest = SubSeq(LineCells(n), 1, w)
    <3>1. CASE n \in Unfinished
      BY <1>10, <3>1 DEF WholeStream, RestIsStart, Start
    <3>2. CASE n \notin Unfinished
      <4>1. Unfinished = {}
        BY <1>1, <3>2
      <4>2. w = 0
        <5>1. ~(w \in 1..(z - 1))
          BY <3>2 DEF Unfinished
        <5> HIDE DEF w, z
        <5>2. w \in Nat /\ z \in Nat /\ k \in Nat /\ k > 0 /\ w + k <= z
          BY <1>3, <1>4 DEF w, z
        <5> QED BY <5>1, <5>2
      <4>3. Cut(x).rest = << >>
        BY <1>10, <4>1 DEF WholeStream, RestIsStart
      <4>4. SubSeq(LineCells(n), 1, 0) = << >>
        BY SubSeqEmpty
      <4> QED BY <4>2, <4>3, <4>4
    <3> QED BY <3>1, <3>2
  <2> HIDE DEF x
  <2>7. /\ Cut(x \o s).lines = IF w + k = z THEN Cut(x).lines \o <<Text(n)>> ELSE Cut(x).lines
        /\ Cut(x \o s).rest = IF w + k = z THEN << >> ELSE SubSeq(LineCells(n), 1, w + k)
    BY <1>3, <1>4, <2>1, <2>6, CutFurther
  <2>8. Coming = Cut(x).lines /\ Coming' = Cut(x \o s).lines
    BY <2>5 DEF Coming, x
  <2>9. Cut(buffer \o transit)'.rest = Cut(x \o s).rest
    BY <2>5
  <2>10. Start(n)' = SubSeq(LineCells(n), 1, w + k)
    BY <1>4 DEF Start
  <2> HIDE DEF s, w, z
  <2>11. w = written[n] /\ z = Sizes[n]
    BY DEF w, z
  <2> QED BY <1>4, <1>6, <1>7, <1>8, <1>10, <2>7, <2>8, <2>9, <2>10, <2>11
<1> QED BY <1>9, <1>10

\* A sequence of one text, which is a whole line.
LEMMA OneWhole ==
    ASSUME NEW n \in Lines
    PROVE  /\ <<Text(n)>> \in Seq(Seq(CutParts)) /\ AllWhole(<<Text(n)>>)
           /\ LinesOf(<<Text(n)>>) = <<n>>
<1>1. Text(n) \in Seq(CutParts) /\ Text(n)[1].line = n
  BY LineEnd
<1> DEFINE t == Text(n)
<1>2. IsWhole(t) /\ LineOf(t) = n
  <2>1. IsWhole(t)
    BY DEF IsWhole
  <2> QED BY <1>1, <2>1 DEF LineOf
<1> HIDE DEF t
<1>3. <<t>> \in Seq(Seq(CutParts)) /\ Len(<<t>>) = 1 /\ <<t>>[1] = t /\ DOMAIN <<t>> = 1..1
  BY <1>1 DEF t
<1>4. AllWhole(<<t>>)
  BY <1>2, <1>3 DEF AllWhole
<1>5. LinesOf(<<t>>) = <<n>>
  <2>1. LinesOf(<<t>>) = [i \in 1..1 |-> n]
    BY <1>2, <1>3 DEF LinesOf
  <2> QED BY <2>1
<1> QED BY <1>3, <1>4, <1>5 DEF t

\* A transfer puts its line when it writes the last cell, tears the stream, or is
\* not seen.
LEMMA StreamTransfer ==
    ASSUME StreamInv, NEW n \in Lines, NEW alive \in BOOLEAN, Transfer(n, alive),
           UNCHANGED <<link, buffer, handled>>
    PROVE  StreamStep /\ (~torn' => WholeStream')
<1>0. WireTypeOK /\ torn \in BOOLEAN /\ torn' \in BOOLEAN /\ (torn => torn')
  BY DEF StreamInv, WireTypeOK, Transfer
<1>1. CASE torn
  <2>1. torn' = torn
    BY <1>0, <1>1
  <2>2. Finished' = Finished /\ OnTheWay' = OnTheWay /\ Received' = Received
    BY <1>1, <2>1 DEF Finished, OnTheWay, Received
  <2> QED BY <1>1, <2>1, <2>2 DEF StreamStep, Stream!streamVars
<1>2. CASE ~torn /\ torn'
  <2>1. Finished' = {} /\ OnTheWay' = << >> /\ Received' = << >>
    BY <1>2 DEF Finished, OnTheWay, Received
  <2>2. Stream!Tear
    BY <1>0, <1>2, <2>1 DEF Stream!Tear
  <2> QED BY <1>2, <2>2 DEF StreamStep, Stream!StreamNext
<1>3. CASE ~torn /\ ~torn'
  <2>1. WholeStream
    BY <1>3 DEF StreamInv
  <2>2. /\ n \notin Finished
        /\ Unfinished' = IF written'[n] = Sizes[n] THEN {} ELSE {n}
        /\ Finished' = IF written'[n] = Sizes[n] THEN Finished \cup {n} ELSE Finished
        /\ Coming' = IF written'[n] = Sizes[n] /\ link = "up" THEN Coming \o <<Text(n)>>
                     ELSE Coming
        /\ link = "up" => Cut(buffer \o transit)'.rest
                          = IF written'[n] = Sizes[n] THEN << >> ELSE Start(n)'
    BY <1>0, <1>3, <2>1, WholeTransfer
  <2>3. /\ handled \in Seq(Seq(CutParts)) /\ Coming \in Seq(Seq(CutParts))
        /\ <<Text(n)>> \in Seq(Seq(CutParts)) /\ AllWhole(<<Text(n)>>)
        /\ LinesOf(<<Text(n)>>) = <<n>>
    BY <1>0, StreamCells, OneWhole
  <2>4. AllWhole(Coming')
    <3>1. AllWhole(Coming)
      BY <2>1 DEF WholeStream
    <3>2. AllWhole(Coming \o <<Text(n)>>)
      BY <2>3, <3>1, WholeConcat
    <3> QED BY <2>2, <3>1, <3>2
  <2>5. WholeStream'
    <3>1. OneUnfinished'
      BY <2>2 DEF OneUnfinished
    <3>2. AllWhole(handled)' /\ AllWhole(Coming)'
      BY <2>1, <2>4 DEF WholeStream, AllWhole
    <3>3. RestIsStart'
      BY <2>2 DEF RestIsStart
    <3> QED BY <3>1, <3>2, <3>3 DEF WholeStream
  <2>6. torn' = torn /\ Received' = Received /\ Received = LinesOf(handled)
    BY <1>0, <1>3 DEF Received, LinesOf, LineOf
  <2>7. OnTheWay = LinesOf(Coming) /\ OnTheWay' = LinesOf(Coming')
    BY <1>3 DEF OnTheWay, LinesOf, LineOf
  <2>8. CASE written'[n] # Sizes[n]
    <3>1. Coming' = Coming /\ Finished' = Finished
      BY <2>2, <2>8
    <3>2. OnTheWay' = OnTheWay
      BY <2>7, <3>1
    <3> QED BY <2>5, <2>6, <3>1, <3>2 DEF StreamStep, Stream!streamVars
  <2>9. CASE written'[n] = Sizes[n]
    <3>1. Finished' = Finished \cup {n}
      BY <2>2, <2>9
    <3>2. OnTheWay' = IF link = "up" THEN Append(OnTheWay, n) ELSE OnTheWay
      <4>1. CASE link = "up"
        <5>1. Coming' = Coming \o <<Text(n)>>
          BY <2>2, <2>9, <4>1
        <5>2. LinesOf(Coming \o <<Text(n)>>) = LinesOf(Coming) \o <<n>>
          BY <2>3, LinesOfConcat
        <5>3. LinesOf(Coming) \in Seq(LineNames)
          BY <2>3, LinesOfType
        <5> DEFINE a == LinesOf(Coming)
        <5>4. a \o <<n>> = Append(a, n)
          <6> HIDE DEF a
          <6>1. a \in Seq(LineNames \cup {n}) /\ n \in LineNames \cup {n}
            BY <5>3, SeqMonotonic DEF a
          <6> QED BY <6>1, AppendIsConcat
        <5> QED BY <2>7, <4>1, <5>1, <5>2, <5>4
      <4>2. CASE link # "up"
        BY <2>2, <2>7, <4>2
      <4> QED BY <4>1, <4>2
    <3>3. Stream!Put(n)
      BY <1>3, <2>2, <2>6, <3>1, <3>2 DEF Stream!Put
    <3> QED BY <2>5, <3>3 DEF StreamStep, Stream!StreamNext
  <2> QED BY <2>8, <2>9
<1> QED BY <1>0, <1>1, <1>2, <1>3

\* The first part of a sequence, and the rest.
LEMMA TakenAndLeft ==
    ASSUME NEW S, NEW a \in Seq(S), NEW b \in Seq(S), NEW s, s = a \o b
    PROVE  /\ a = SubSeq(s, 1, Len(a)) /\ b = SubSeq(s, Len(a) + 1, Len(s))
           /\ Len(a) \in 0..Len(s)
<1>1. /\ Len(a) \in Nat /\ Len(b) \in Nat /\ s \in Seq(S) /\ Len(s) = Len(a) + Len(b)
      /\ \A i \in 1..(Len(a) + Len(b)) : s[i] = IF i <= Len(a) THEN a[i] ELSE b[i - Len(a)]
  BY LenProperties, ConcatProperties
<1>2. Len(a) \in 0..Len(s)
  BY <1>1
<1>3. /\ SubSeq(s, 1, Len(a)) \in Seq(S) /\ Len(SubSeq(s, 1, Len(a))) = Len(a)
      /\ SubSeq(s, Len(a) + 1, Len(s)) \in Seq(S)
      /\ Len(SubSeq(s, Len(a) + 1, Len(s))) = Len(s) - Len(a)
  BY <1>1, <1>2, CutInTwo
<1>4. /\ \A i \in 1..Len(a) : SubSeq(s, 1, Len(a))[i] = s[i]
      /\ \A i \in 1..Len(b) : SubSeq(s, Len(a) + 1, Len(s))[i] = s[Len(a) + i]
  <2>1. /\ 1 \in 1..(Len(s) + 1) /\ Len(a) \in (1 - 1)..Len(s)
        /\ Len(a) + 1 \in 1..(Len(s) + 1) /\ Len(s) \in ((Len(a) + 1) - 1)..Len(s)
    BY <1>1
  <2>2. \A i \in 1..(Len(a) - 1 + 1) : SubSeq(s, 1, Len(a))[i] = s[1 + i - 1]
    BY <1>1, <2>1, SubSeqProperties
  <2>3. \A i \in 1..(Len(s) - (Len(a) + 1) + 1) :
            SubSeq(s, Len(a) + 1, Len(s))[i] = s[(Len(a) + 1) + i - 1]
    BY <1>1, <2>1, SubSeqProperties
  <2> DEFINE v == SubSeq(s, 1, Len(a))
             w == SubSeq(s, Len(a) + 1, Len(s))
  <2> HIDE DEF v, w
  <2>4. \A i \in 1..Len(a) : v[i] = s[i]
    BY <1>1, <2>2 DEF v
  <2>5. ASSUME NEW i \in 1..Len(b) PROVE w[i] = s[Len(a) + i]
    <3>1. i \in 1..(Len(s) - (Len(a) + 1) + 1) /\ (Len(a) + 1) + i - 1 = Len(a) + i
      BY <1>1
    <3> QED BY <2>3, <3>1 DEF w
  <2> QED BY <2>4, <2>5 DEF v, w
<1>5. a = SubSeq(s, 1, Len(a))
  BY <1>1, <1>3, <1>4, SeqEqual
<1>6. b = SubSeq(s, Len(a) + 1, Len(s))
  <2>1. \A i \in 1..Len(b) : s[Len(a) + i] = b[i]
    BY <1>1
  <2>2. Len(SubSeq(s, Len(a) + 1, Len(s))) = Len(b)
    BY <1>1, <1>3
  <2> QED BY <1>3, <1>4, <2>1, <2>2, SeqEqual
<1> QED BY <1>2, <1>5, <1>6

\* A chunk takes the lines that it completes from those that are coming.
LEMMA StreamRead ==
    ASSUME StreamInv, NEW k \in 1..MaxRead, ReadSome(k)
    PROVE  StreamStep /\ (~torn' => WholeStream')
<1> DEFINE x == buffer \o SubSeq(transit, 1, k)
           left == SubSeq(transit, k + 1, Len(transit))
<1>0. WireTypeOK /\ WireTypeOK'
  BY ReadSomeType DEF StreamInv
<1>1. /\ k <= Len(transit) /\ transit' = left
      /\ handled' = handled \o Cut(x).lines /\ buffer' = Cut(x).rest
      /\ UNCHANGED <<writer, writeVars, link, reading, torn>>
  BY DEF ReadSome
<1>2. x \in Seq(Cells) /\ left \in Seq(Cells) /\ x \o left = buffer \o transit
  <2> DEFINE chunk == SubSeq(transit, 1, k)
  <2>1. /\ chunk \in Seq(Cells) /\ left \in Seq(Cells) /\ transit = chunk \o left
        /\ buffer \in Seq(Cells) /\ buffer \o chunk \in Seq(Cells)
    BY <1>0, <1>1, ChunkType
  <2> HIDE DEF chunk, left
  <2>2. (buffer \o chunk) \o left = buffer \o (chunk \o left)
    BY <2>1, ConcatAssociative
  <2> QED BY <2>1, <2>2 DEF chunk
<1>3. Unfinished' = Unfinished /\ Finished' = Finished /\ \A n \in Lines : Start(n)' = Start(n)
  BY <1>1 DEF Unfinished, Finished, Start, writeVars
<1>4. CASE torn
  <2>1. torn' = torn /\ link' = link
    BY <1>1
  <2>2. OnTheWay' = OnTheWay /\ Received' = Received
    BY <1>4, <2>1 DEF OnTheWay, Received
  <2> QED BY <1>3, <1>4, <2>1, <2>2 DEF StreamStep, Stream!streamVars
<1>5. CASE ~torn
  <2> DEFINE p == Cut(x).lines
             q == Coming'
  <2> HIDE DEF x, left
  <2>1. p \in Seq(Seq(CutParts)) /\ q \in Seq(Seq(CutParts)) /\ handled \in Seq(Seq(CutParts))
    <3>1. p \in Seq(Seq(CutParts)) /\ Cut(x).rest \in Seq(CutParts)
      BY <1>2, CutType
    <3>2. Cut(x).rest \o left \in Seq(Cells)
      BY <1>2, <3>1, PartsAreCells, ConcatProperties
    <3>3. q = Cut(Cut(x).rest \o left).lines
      BY <1>1 DEF Coming
    <3>4. q \in Seq(Seq(CutParts))
      <4> HIDE DEF q
      <4> QED BY <3>2, <3>3, CutType
    <3> QED BY <1>0, <3>1, <3>4, StreamCells
  <2>2. Coming = p \o q /\ Cut(buffer \o transit).rest = Cut(buffer \o transit)'.rest
    <3>1. /\ Cut(x \o left).lines = Cut(x).lines \o Cut(Cut(x).rest \o left).lines
          /\ Cut(x \o left).rest = Cut(Cut(x).rest \o left).rest
      BY <1>2, CutChunks
    <3>2. Cut(x \o left) = Cut(buffer \o transit)
      BY <1>2
    <3>3. Cut(Cut(x).rest \o left) = Cut(buffer \o transit)'
      BY <1>1
    <3> QED BY <3>1, <3>2, <3>3 DEF Coming
  <2>3. WholeStream
    BY <1>5 DEF StreamInv
  <2>4. AllWhole(p) /\ AllWhole(q) /\ AllWhole(handled)
    <3> HIDE DEF p, q
    <3>1. AllWhole(p \o q) /\ AllWhole(handled)
      BY <2>2, <2>3 DEF WholeStream
    <3> QED BY <2>1, <3>1, WholeConcat
  <2>5. WholeStream'
    <3>1. OneUnfinished'
      BY <1>3, <2>3 DEF WholeStream, OneUnfinished
    <3>2. AllWhole(handled')
      <4> HIDE DEF p
      <4>1. AllWhole(handled \o p)
        BY <2>1, <2>4, WholeConcat
      <4> QED BY <1>1, <4>1 DEF p
    <3>3. RestIsStart'
      <4>1. Unfinished \subseteq Lines
        BY DEF Unfinished
      <4>2. RestIsStart
        BY <2>3 DEF WholeStream
      <4> QED BY <1>1, <1>3, <2>2, <4>1, <4>2 DEF RestIsStart
    <3> QED BY <2>4, <3>1, <3>2, <3>3 DEF WholeStream, AllWhole
  <2>6. torn' = torn /\ link' = link
    BY <1>1
  <2>7. /\ Received = LinesOf(handled) /\ Received' = LinesOf(handled')
        /\ OnTheWay = LinesOf(Coming) /\ OnTheWay' = LinesOf(Coming')
    BY <1>5, <2>6 DEF Received, OnTheWay, LinesOf, LineOf
  <2> DEFINE a == LinesOf(p)
             b == LinesOf(q)
  <2>8. /\ Received' = Received \o a /\ OnTheWay = a \o b /\ OnTheWay' = b
        /\ a \in Seq(LineNames) /\ b \in Seq(LineNames)
    <3> HIDE DEF p, q
    <3>1. LinesOf(handled \o p) = LinesOf(handled) \o LinesOf(p)
      BY <2>1, LinesOfConcat
    <3>2. LinesOf(p \o q) = LinesOf(p) \o LinesOf(q)
      BY <2>1, LinesOfConcat
    <3>3. LinesOf(p) \in Seq(LineNames) /\ LinesOf(q) \in Seq(LineNames)
      BY <2>1, LinesOfType
    <3>4. handled' = handled \o p /\ Coming' = q
      BY <1>1 DEF p, q
    <3> QED BY <2>2, <2>7, <3>1, <3>2, <3>3, <3>4
  <2> HIDE DEF a, b, p, q
  <2>9. /\ a = SubSeq(OnTheWay, 1, Len(a))
        /\ b = SubSeq(OnTheWay, Len(a) + 1, Len(OnTheWay))
        /\ Len(a) \in 0..Len(OnTheWay)
    BY <2>8, TakenAndLeft
  <2>10. Stream!Take(Len(a))
    BY <1>3, <1>5, <2>6, <2>8, <2>9 DEF Stream!Take
  <2> QED BY <2>5, <2>9, <2>10 DEF StreamStep, Stream!StreamNext
<1> QED BY <1>4, <1>5

\* A loss keeps the lines that were in front.
LEMMA StreamLost ==
    ASSUME StreamInv, LinkLost
    PROVE  StreamStep /\ (~torn' => WholeStream')
<1>0. WireTypeOK
  BY DEF StreamInv
<1>1. PICK k \in 0..Len(transit) : transit' = SubSeq(transit, 1, k)
  BY DEF LinkLost
<1>2. link = "up" /\ link' = "lost" /\ UNCHANGED <<writer, writeVars, readVars, torn>>
  BY DEF LinkLost
<1>3. Unfinished' = Unfinished /\ Finished' = Finished /\ Received' = Received
  BY <1>2 DEF Unfinished, Finished, Received, LinesOf, LineOf, writeVars, readVars
<1>4. CASE torn
  <2>1. torn' = torn
    BY <1>2
  <2>2. OnTheWay' = OnTheWay
    BY <1>4, <2>1 DEF OnTheWay
  <2>3. Stream!LoseTorn
    BY <1>2, <1>3, <1>4, <2>1, <2>2 DEF Stream!LoseTorn
  <2> QED BY <1>4, <2>1, <2>3 DEF StreamStep, Stream!StreamNext
<1>5. CASE ~torn
  <2> DEFINE f == SubSeq(transit, 1, k)
             g == SubSeq(transit, k + 1, Len(transit))
             x == buffer \o f
             p == Coming'
             q == Cut(Cut(x).rest \o g).lines
  <2>1. buffer \in Seq(Cells) /\ f \in Seq(Cells) /\ g \in Seq(Cells) /\ transit = f \o g
    BY <1>0, StreamCells, CutInTwo
  <2>2. x \in Seq(Cells) /\ x \o g = buffer \o transit
    <3> HIDE DEF f, g
    <3>1. (buffer \o f) \o g = buffer \o (f \o g)
      BY <2>1, ConcatAssociative
    <3>2. buffer \o f \in Seq(Cells)
      BY <2>1, ConcatProperties
    <3> QED BY <2>1, <3>1, <3>2
  <2>3. p = Cut(x).lines
    BY <1>1, <1>2 DEF Coming, readVars
  <2> HIDE DEF f, g, x, p
  <2>4. Cut(x).lines \in Seq(Seq(CutParts)) /\ Cut(x).rest \in Seq(CutParts)
    BY <2>2, CutType
  <2>5. q \in Seq(Seq(CutParts))
    <3>1. Cut(x).rest \in Seq(Cells)
      BY <2>4, PartsAreCells
    <3>2. Cut(x).rest \o g \in Seq(Cells)
      BY <2>1, <3>1, ConcatProperties
    <3> QED BY <3>2, CutType
  <2>6. Coming = p \o q
    <3>1. Cut(x \o g).lines = Cut(x).lines \o Cut(Cut(x).rest \o g).lines
      BY <2>1, <2>2, CutChunks
    <3> QED BY <2>2, <2>3, <3>1 DEF Coming
  <2> HIDE DEF q
  <2>7. p \in Seq(Seq(CutParts))
    BY <2>3, <2>4
  <2>8. WholeStream
    BY <1>5 DEF StreamInv
  <2>9. AllWhole(p)
    <3>1. AllWhole(p \o q)
      BY <2>6, <2>8 DEF WholeStream
    <3> QED BY <2>5, <2>7, <3>1, WholeConcat
  <2>10. WholeStream'
    <3>1. OneUnfinished' /\ RestIsStart'
      BY <1>2, <1>3, <2>8 DEF WholeStream, OneUnfinished, RestIsStart
    <3>2. AllWhole(handled)' /\ AllWhole(Coming)'
      BY <1>2, <2>8, <2>9 DEF WholeStream, AllWhole, readVars, p
    <3> QED BY <3>1, <3>2 DEF WholeStream
  <2>11. torn' = torn
    BY <1>2
  <2>12. OnTheWay = LinesOf(p \o q) /\ OnTheWay' = LinesOf(p)
    BY <1>5, <2>6, <2>11 DEF OnTheWay, LinesOf, LineOf, p
  <2> DEFINE a == LinesOf(p)
             b == LinesOf(q)
  <2>13. /\ OnTheWay = a \o b /\ OnTheWay' = a
         /\ a \in Seq(LineNames) /\ b \in Seq(LineNames)
    BY <2>5, <2>7, <2>12, LinesOfConcat, LinesOfType
  <2> HIDE DEF a, b
  <2>14. a = SubSeq(OnTheWay, 1, Len(a)) /\ Len(a) \in 0..Len(OnTheWay)
    BY <2>13, TakenAndLeft
  <2>15. Stream!Lose(Len(a))
    BY <1>2, <1>3, <1>5, <2>11, <2>13, <2>14 DEF Stream!Lose
  <2> QED BY <2>10, <2>14, <2>15 DEF StreamStep, Stream!StreamNext
<1> QED BY <1>0, <1>4, <1>5 DEF WireTypeOK

\* A write that the reactor performs.
LEMMA StreamPerform ==
    ASSUME StreamInv, NEW n \in Lines, NEW alive \in BOOLEAN, NEW results,
           Perform(n, alive, results), UNCHANGED readVars
    PROVE  StreamStep /\ (~torn' => WholeStream')
<1>1. UNCHANGED <<link, buffer, handled>>
  BY DEF Perform, readVars
<1>2. CASE Transfer(n, alive)
  BY <1>1, <1>2, StreamTransfer
<1>3. CASE UNCHANGED <<written, transit, torn>>
  BY <1>1, <1>3, StreamSame DEF StreamInv
<1> QED BY <1>2, <1>3 DEF Perform

\* A write that is performed at once or waits in the queue.
LEMMA StreamAsync ==
    ASSUME StreamInv, NEW n \in Lines, NEW alive \in BOOLEAN, NEW results,
           AsyncWriteSome(n, alive, results), UNCHANGED readVars
    PROVE  StreamStep /\ (~torn' => WholeStream')
<1>1. CASE UNCHANGED <<written, link, transit, torn>>
  BY <1>1, StreamSame DEF StreamInv, readVars
<1>2. CASE Perform(n, alive, results)
  BY <1>2, StreamPerform
<1> QED BY <1>1, <1>2 DEF AsyncWriteSome

\* Every step of the wire is a step of the stream or is not seen in it.
LEMMA StreamNextStep ==
    ASSUME StreamInv, WireNext
    PROVE  StreamStep /\ (~torn' => WholeStream')
<1>0. /\ WireTypeOK /\ begun \in 0..Len(Sizes) /\ 1..begun \subseteq Lines
      /\ posted \in Seq(Results(begun)) /\ queued \in Seq(1..begun)
  BY Numbers DEF StreamInv, WireTypeOK, Results
<1>1. CASE SessionSend
  <2>1. begun < Len(Sizes) /\ AsyncWriteSome(begun + 1, TRUE, posted) /\ UNCHANGED readVars
    BY <1>1 DEF SessionSend
  <2>2. begun + 1 \in Lines
    BY <1>0, <2>1, Numbers
  <2> QED BY <2>1, <2>2, StreamAsync
<1>2. CASE ConnectionSend
  BY <1>2, StreamSame DEF ConnectionSend, StreamInv, readVars
<1>3. CASE Writable
  <2>1. queued # << >> /\ Perform(Head(queued), FALSE, posted) /\ UNCHANGED readVars
    BY <1>3 DEF Writable
  <2>2. Head(queued) \in Lines
    BY <1>0, <2>1, TailType
  <2> QED BY <2>1, <2>2, StreamPerform
<1>4. CASE WriteGoesOn
  <2>1. /\ posted # << >> /\ AsyncWriteSome(Result.line, FALSE, Tail(posted))
        /\ UNCHANGED readVars
    BY <1>4 DEF WriteGoesOn
  <2>2. Head(posted) \in Results(begun)
    BY <1>0, <2>1, TailType
  <2>3. Result.line \in Lines
    BY <1>0, <2>2 DEF Result, Results
  <2> QED BY <2>1, <2>3, StreamAsync
<1>5. CASE WriteHandled
  <2>1. /\ posted # << >> /\ link' = IF Result.ok THEN link ELSE "closed"
        /\ UNCHANGED <<written, transit, buffer, handled, torn>>
    BY <1>5 DEF WriteHandled, readVars
  <2>2. ~Result.ok => link # "up"
    <3>1. Len(posted) \in Nat /\ Len(posted) >= 1
      BY <1>0, <2>1, EmptySeq, LenProperties
    <3>2. Result = posted[1]
      BY <1>0, <2>1, HeadTailProperties DEF Result
    <3> QED BY <3>1, <3>2 DEF StreamInv, FailedAfterLoss
  <2>3. link' = "up" <=> link = "up"
    BY <2>1, <2>2
  <2> QED BY <2>1, <2>3, StreamSame DEF StreamInv
<1>6. ASSUME NEW n \in Lines, ThreadWrites(n)
      PROVE  StreamStep /\ (~torn' => WholeStream')
  <2>1. UNCHANGED <<link, buffer, handled>>
    BY <1>6 DEF ThreadWrites, readVars
  <2>2. CASE Transfer(n, TRUE)
    BY <2>1, <2>2, StreamTransfer
  <2>3. CASE UNCHANGED <<written, transit, torn>>
    BY <2>1, <2>3, StreamSame DEF StreamInv
  <2> QED BY <1>6, <2>2, <2>3 DEF ThreadWrites
<1>7. ASSUME NEW k \in 1..MaxRead, ReadSome(k)
      PROVE  StreamStep /\ (~torn' => WholeStream')
  BY <1>7, StreamRead
<1>8. CASE ReadError
  BY <1>8, StreamSame DEF ReadError, StreamInv, writeVars
<1>9. CASE LinkLost
  BY <1>9, StreamLost
<1> QED BY <1>1, <1>2, <1>3, <1>4, <1>5, <1>6, <1>7, <1>8, <1>9 DEF WireNext, Write, Read

\* The invariant of the stream is kept, and the steps are LineStream's.
LEMMA StreamInvNext ==
    ASSUME StreamInv, [WireNext]_wireVars
    PROVE  StreamInv' /\ StreamStep
<1>1. CASE WireNext
  <2>1. WireTypeOK' /\ FailedAfterLoss'
    BY <1>1, WireNextType, FailedStep DEF StreamInv
  <2> QED BY <1>1, <2>1, StreamNextStep DEF StreamInv
<1>2. CASE UNCHANGED wireVars
  <2>1. UNCHANGED <<written, transit, buffer, handled, torn, link, posted>>
    BY <1>2 DEF wireVars, writeVars, readVars
  <2>2. WireTypeOK'
    BY <1>2, WireNextType DEF StreamInv
  <2> QED BY <2>1, <2>2, StreamSame DEF StreamInv, FailedAfterLoss
<1> QED BY <1>1, <1>2

\* The wire starts as a LineStream does.
LEMMA StreamStart ==
    ASSUME WireInit
    PROVE  Stream!StreamInit /\ StreamInv
<1>1. /\ written = [n \in Lines |-> 0] /\ posted = << >> /\ link = "up" /\ torn = FALSE
      /\ transit = << >> /\ buffer = << >> /\ handled = << >>
  BY DEF WireInit
<1>2. Cut(buffer \o transit) = [lines |-> << >>, rest |-> << >>]
  <2>1. << >> \o << >> = << >>
    BY EmptySeq, ConcatEmptySeq
  <2> QED BY <1>1, <2>1, CutEmpty DEF NoCut
<1>3. Coming = << >>
  BY <1>2 DEF Coming
<1>4. Unfinished = {}
  BY <1>1 DEF Unfinished
<1>5. Finished = {}
  <2>1. \A n \in Lines : written[n] # Sizes[n]
    BY <1>1, Numbers
  <2> QED BY <2>1 DEF Finished
<1>6. OnTheWay = << >> /\ Received = << >>
  BY <1>1, <1>3, LinesOfEmpty DEF OnTheWay, Received
<1>7. WholeStream
  BY <1>1, <1>2, <1>3, <1>4 DEF WholeStream, OneUnfinished, AllWhole, RestIsStart
<1>8. FailedAfterLoss
  BY <1>1 DEF FailedAfterLoss
<1> QED BY <1>1, <1>5, <1>6, <1>7, <1>8, WireInitType DEF Stream!StreamInit, StreamInv

\* However the transfers are cut by the sockets and the chunks by the reader, whole
\* lines arrive, once each and in the order in which they were written, and only a
\* loss of the connection takes some from the end, unless a line was written from
\* freed memory or into another line (session.cpp:72-81, client_connection.cpp:114-125).
THEOREM LineStreamImplemented == WireSpec => ImplementsLineStream
<1>1. WireInit => Stream!StreamInit /\ StreamInv
  BY StreamStart
<1>2. StreamInv /\ [WireNext]_wireVars => StreamInv' /\ [Stream!StreamNext]_(Stream!streamVars)
  BY StreamInvNext DEF StreamStep
<1> QED BY <1>1, <1>2, PTL DEF WireSpec, ImplementsLineStream, Stream!StreamSpec
=============================================================================
