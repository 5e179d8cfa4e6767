----------------------------- MODULE WireLemmas -----------------------------
(***************************************************************************)
(* What Cut, Joined and Parts of Wire and WireProperties do to sequences of *)
(* any length.                                                             *)
(***************************************************************************)
EXTENDS WireProperties, Recursion

CutParts == {c \in Cells : c.part # 0}
Cuts == [lines : Seq(Seq(CutParts)), rest : Seq(CutParts)]
NoCut == [lines |-> << >>, rest |-> << >>]
CutStep == [p \in Cuts \X Cells |-> AddCell(p[1], p[2])]

\* Appending to the second of two sequences appends to both.
LEMMA AppendConcat ==
    ASSUME NEW S, NEW s \in Seq(S), NEW t \in Seq(S), NEW e \in S
    PROVE  s \o Append(t, e) = Append(s \o t, e)
<1>1. Append(t, e) = t \o <<e>> /\ Append(s \o t, e) = (s \o t) \o <<e>>
  BY AppendIsConcat, ConcatProperties
<1>2. <<e>> \in Seq(S)
  OBVIOUS
<1> QED BY <1>1, <1>2, ConcatAssociative

\* A cell is added to a cut of the right type.
LEMMA CutStepType == CutStep \in [Cuts \X Cells -> Cuts] /\ NoCut \in Cuts
<1>1. NoCut \in Cuts
  BY EmptySeq DEF NoCut, Cuts
<1>2. ASSUME NEW d \in Cuts, NEW c \in Cells PROVE AddCell(d, c) \in Cuts
  <2>1. d.lines \in Seq(Seq(CutParts)) /\ d.rest \in Seq(CutParts)
    BY DEF Cuts
  <2>2. CASE c.part # 0
    <3>1. Append(d.rest, c) \in Seq(CutParts)
      BY <2>1, <2>2, AppendProperties DEF CutParts
    <3>2. AddCell(d, c) = [lines |-> d.lines, rest |-> Append(d.rest, c)]
      BY <2>2 DEF AddCell, Cuts
    <3> QED BY <2>1, <3>1, <3>2 DEF Cuts
  <2>3. CASE c.part = 0
    <3>1. Append(d.lines, d.rest) \in Seq(Seq(CutParts))
      BY <2>1, AppendProperties
    <3> QED BY <2>1, <2>3, <3>1, EmptySeq DEF AddCell, Cuts
  <2> QED BY <2>2, <2>3
<1> QED BY <1>1, <1>2 DEF CutStep

\* Cut is folded along the cells.
LEMMA CutFolds ==
    ASSUME NEW s \in Seq(Cells)
    PROVE  FoldsTo(Cut(s), NoCut, CutStep, s)
<1> DEFINE E(f) == f = [k \in 0..Len(s) |->
                           IF k = 0 THEN NoCut ELSE AddCell(f[k - 1], s[k])]
           h == CHOOSE f : E(f)
<1>0. Len(s) \in Nat
  BY LenProperties
<1>1. PICK g : Folded(g, NoCut, CutStep, s)
  BY FoldedExists, CutStepType
<1>2. \A k \in 0..Len(s) : g[k] \in Cuts
  BY <1>1, FoldedType, CutStepType
<1>3. E(g)
  <2>1. ASSUME NEW k \in 0..Len(s), k # 0
        PROVE  CutStep[<<g[k - 1], s[k]>>] = AddCell(g[k - 1], s[k])
    <3>1. g[k - 1] \in Cuts /\ s[k] \in Cells
      BY <1>0, <1>2, <2>1, ElementOfSeq
    <3> QED BY <3>1 DEF CutStep
  <2> QED BY <1>1, <2>1 DEF Folded
<1>4. E(h)
  <2> HIDE DEF E
  <2> QED BY <1>3, Zenon
<1>5. Cut(s) = h[Len(s)]
  BY DEF Cut, NoCut
<1>6. Folded(h, NoCut, CutStep, s)
  <2> HIDE DEF h
  <2>1. IsFunction(h, 0..Len(s)) /\ h[0] = NoCut
    BY <1>0, <1>4 DEF IsFunction
  <2>2. ASSUME NEW k \in 1..Len(s), h[k - 1] \in Cuts PROVE h[k] = CutStep[<<h[k - 1], s[k]>>]
    <3>1. h[k] = AddCell(h[k - 1], s[k])
      BY <1>0, <1>4
    <3> QED BY <2>2, <3>1, ElementOfSeq DEF CutStep
  <2> HIDE DEF E
  <2> QED BY <2>1, <2>2, CutStepType, FoldedIf
<1> QED BY <1>5, <1>6 DEF FoldsTo

\* Nothing is cut out of nothing.
LEMMA CutEmpty == Cut(<< >>) = NoCut
BY CutFolds, FoldsToEmpty, EmptySeq

\* A cell at the end is added to what was cut before it.
LEMMA CutAppend ==
    ASSUME NEW s \in Seq(Cells), NEW c \in Cells
    PROVE  Cut(Append(s, c)) = AddCell(Cut(s), c) /\ Cut(s) \in Cuts
<1>1. FoldsTo(Cut(s), NoCut, CutStep, s)
  BY CutFolds
<1>2. FoldsTo(Cut(Append(s, c)), NoCut, CutStep, Append(s, c))
  BY CutFolds, AppendProperties
<1>3. NoCut \in Cuts /\ CutStep \in [Cuts \X Cells -> Cuts]
  BY CutStepType
<1>4. Cut(Append(s, c)) = CutStep[<<Cut(s), c>>] /\ Cut(s) \in Cuts
  BY <1>1, <1>2, <1>3, FoldsToAppend
<1> QED BY <1>4 DEF CutStep

\* What is cut are sequences of cells without a separator.
LEMMA CutType ==
    ASSUME NEW s \in Seq(Cells)
    PROVE  /\ Cut(s).lines \in Seq(Seq(CutParts)) /\ Cut(s).rest \in Seq(CutParts)
           /\ Cut(s) = [lines |-> Cut(s).lines, rest |-> Cut(s).rest]
<1>1. ASSUME Cells # {} PROVE Cut(s) \in Cuts
  BY <1>1, CutAppend
<1>2. Junk(0) \in Cells
  BY DEF Cells
<1> QED BY <1>1, <1>2 DEF Cuts

\* The cells without a separator are cells.
LEMMA PartsAreCells == CutParts \subseteq Cells /\ Seq(CutParts) \subseteq Seq(Cells)
BY SeqMonotonic DEF CutParts

\* Nothing is cut out of cells without a separator.
LEMMA CutParts1 ==
    ASSUME NEW r \in Seq(CutParts)
    PROVE  Cut(r) = [lines |-> << >>, rest |-> r]
<1> DEFINE T == {s \in Seq(CutParts) : Cut(s) = [lines |-> << >>, rest |-> s]}
<1>1. << >> \in T
  BY CutEmpty, EmptySeq DEF NoCut
<1>2. ASSUME NEW s \in T, NEW c \in CutParts PROVE Append(s, c) \in T
  <2>1. Cut(Append(s, c)) = AddCell(Cut(s), c)
    BY CutAppend, PartsAreCells
  <2>2. Cut(s) = [lines |-> << >>, rest |-> s]
    OBVIOUS
  <2>3. c.part # 0
    BY DEF CutParts
  <2>4. AddCell(Cut(s), c) = [lines |-> << >>, rest |-> Append(s, c)]
    BY <2>2, <2>3 DEF AddCell
  <2> QED BY <2>1, <2>4, AppendProperties
<1>3. T = Seq(CutParts)
  <2>1. T \subseteq Seq(CutParts)
    OBVIOUS
  <2> HIDE DEF T
  <2> QED BY <1>1, <1>2, <2>1, InductionOverSeq
<1> QED BY <1>3

\* The read handlers find the same lines wherever the chunks end: to cut what a
\* chunk has left in message_buffer_ together with the next chunk is to cut both
\* at once (session.cpp:71-81, client_connection.cpp:113-125).
THEOREM CutChunks ==
    ASSUME NEW p \in Seq(Cells), NEW q \in Seq(Cells)
    PROVE  /\ Cut(p \o q).lines = Cut(p).lines \o Cut(Cut(p).rest \o q).lines
           /\ Cut(p \o q).rest = Cut(Cut(p).rest \o q).rest
<1> DEFINE L == Cut(p).lines
           r == Cut(p).rest
           T == {t \in Seq(Cells) : /\ Cut(p \o t).lines = L \o Cut(r \o t).lines
                                    /\ Cut(p \o t).rest = Cut(r \o t).rest}
<1>0. L \in Seq(Seq(CutParts)) /\ r \in Seq(CutParts) /\ r \in Seq(Cells)
  BY CutType, PartsAreCells
<1> HIDE DEF L, r
<1>1. << >> \in T
  <2>1. Cut(r) = [lines |-> << >>, rest |-> r]
    BY <1>0, CutParts1
  <2>2. p \o << >> = p /\ r \o << >> = r /\ L \o << >> = L
    BY <1>0, ConcatEmptySeq
  <2>3. << >> \in Seq(Cells)
    BY EmptySeq
  <2>4. Cut(p \o << >>).lines = L /\ Cut(p \o << >>).rest = r
    BY <2>2 DEF L, r
  <2>5. Cut(r \o << >>).lines = << >> /\ Cut(r \o << >>).rest = r
    BY <2>1, <2>2
  <2> QED BY <2>2, <2>3, <2>4, <2>5
<1>2. ASSUME NEW t \in T, NEW c \in Cells PROVE Append(t, c) \in T
  <2> DEFINE d == Cut(p \o t)
             e == Cut(r \o t)
  <2>1. d.lines = L \o e.lines /\ d.rest = e.rest /\ t \in Seq(Cells)
    OBVIOUS
  <2>2. p \o t \in Seq(Cells) /\ r \o t \in Seq(Cells)
    BY <1>0, <2>1, ConcatProperties
  <2>3. /\ d.lines \in Seq(Seq(CutParts)) /\ e.lines \in Seq(Seq(CutParts))
        /\ e.rest \in Seq(CutParts)
    BY <2>2, CutType
  <2>4. p \o Append(t, c) = Append(p \o t, c) /\ r \o Append(t, c) = Append(r \o t, c)
    BY <1>0, <2>1, <2>2, AppendConcat
  <2>5. Cut(Append(p \o t, c)) = AddCell(d, c) /\ Cut(Append(r \o t, c)) = AddCell(e, c)
    BY <2>2, CutAppend
  <2>6. d = [lines |-> d.lines, rest |-> d.rest] /\ e = [lines |-> e.lines, rest |-> e.rest]
    BY <2>2, CutType
  <2> HIDE DEF d, e
  <2>7. AddCell(d, c).lines = L \o AddCell(e, c).lines /\ AddCell(d, c).rest = AddCell(e, c).rest
    <3>1. CASE c.part # 0
      <4>1. AddCell(d, c) = [lines |-> d.lines, rest |-> Append(d.rest, c)]
        BY <2>6, <3>1 DEF AddCell
      <4>2. AddCell(e, c) = [lines |-> e.lines, rest |-> Append(e.rest, c)]
        BY <2>6, <3>1 DEF AddCell
      <4> QED BY <2>1, <4>1, <4>2
    <3>2. CASE c.part = 0 /\ e.rest = << >>
      BY <2>1, <3>2 DEF AddCell
    <3>3. CASE c.part = 0 /\ e.rest # << >>
      <4> DEFINE els == e.lines
                 er == e.rest
      <4>0. L \in Seq(Seq(CutParts)) /\ els \in Seq(Seq(CutParts)) /\ er \in Seq(CutParts)
        BY <1>0, <2>3
      <4>1. L \o Append(els, er) = Append(L \o els, er)
        <5> HIDE DEF els, er
        <5> QED BY <4>0, AppendConcat
      <4>2. AddCell(d, c).lines = Append(d.lines, d.rest) /\ AddCell(d, c).rest = << >>
        BY <2>1, <3>3 DEF AddCell
      <4>3. AddCell(e, c).lines = Append(els, er) /\ AddCell(e, c).rest = << >>
        BY <2>1, <3>3 DEF AddCell
      <4> QED BY <2>1, <4>1, <4>2, <4>3
    <3> QED BY <3>1, <3>2, <3>3
  <2>8. Append(t, c) \in Seq(Cells)
    BY <2>1, AppendProperties
  <2> QED BY <2>4, <2>5, <2>7, <2>8
<1>3. T = Seq(Cells)
  <2>1. T \subseteq Seq(Cells)
    OBVIOUS
  <2> HIDE DEF T
  <2> QED BY <1>1, <1>2, <2>1, InductionOverSeq
<1> QED BY <1>3 DEF L, r

-----------------------------------------------------------------------------
(* The cells of a line.                                                     *)

\* A line has two cells or more: the last is a separator, the others are not.
LEMMA LineCellsType ==
    ASSUME NEW n \in Lines
    PROVE  /\ Sizes[n] \in Nat /\ Sizes[n] >= 2
           /\ LineCells(n) \in Seq(Cells) /\ Len(LineCells(n)) = Sizes[n]
           /\ \A k \in 1..Sizes[n] :
                 LineCells(n)[k] = [line |-> n, part |-> IF k = Sizes[n] THEN 0 ELSE k]
<1>1. Sizes[n] \in Nat /\ Sizes[n] >= 2
  <2>1. Sizes[n] \in Nat \ {0, 1}
    BY WireAssumption, LenProperties, ElementOfSeq DEF Lines
  <2> QED BY <2>1
<1>2. ASSUME NEW k \in 1..Sizes[n] PROVE LineCells(n)[k] \in Cells
  BY DEF Cells
<1>3. LineCells(n) \in [1..Sizes[n] -> Cells]
  <2>1. LineCells(n) = [k \in 1..Sizes[n] |-> LineCells(n)[k]]
    BY DEF LineCells
  <2> QED BY <1>2, <2>1
<1>4. LineCells(n) \in Seq(Cells) /\ Len(LineCells(n)) = Sizes[n]
  BY <1>1, <1>3, LenProperties
<1>5. \A k \in 1..Sizes[n] :
          LineCells(n)[k] = [line |-> n, part |-> IF k = Sizes[n] THEN 0 ELSE k]
  BY DEF LineCells
<1> QED BY <1>1, <1>4, <1>5

\* The first elements of a sequence.
LEMMA StartOfSeq ==
    ASSUME NEW S, NEW s, NEW w \in Nat, \A k \in 1..w : s[k] \in S
    PROVE  /\ SubSeq(s, 1, w) \in Seq(S) /\ Len(SubSeq(s, 1, w)) = w
           /\ \A k \in 1..w : SubSeq(s, 1, w)[k] = s[k]
OBVIOUS

\* The first cells of a line that are not all of it hold no separator.
LEMMA LineStart ==
    ASSUME NEW n \in Lines, NEW w \in 0..(Sizes[n] - 1)
    PROVE  /\ SubSeq(LineCells(n), 1, w) \in Seq(CutParts)
           /\ Len(SubSeq(LineCells(n), 1, w)) = w
           /\ \A k \in 1..w : SubSeq(LineCells(n), 1, w)[k] = [line |-> n, part |-> k]
<1>1. Sizes[n] \in Nat /\ Sizes[n] >= 2 /\ LineCells(n) \in Seq(Cells)
      /\ Len(LineCells(n)) = Sizes[n]
  BY LineCellsType
<1>2. \A k \in 1..w : LineCells(n)[k] = [line |-> n, part |-> k] /\ LineCells(n)[k] \in CutParts
  <2>1. ASSUME NEW k \in 1..w
        PROVE  LineCells(n)[k] = [line |-> n, part |-> k] /\ LineCells(n)[k] \in CutParts
    <3>1. k \in 1..Sizes[n] /\ k # Sizes[n] /\ k # 0
      BY <1>1
    <3>2. LineCells(n)[k] = [line |-> n, part |-> k]
      BY <3>1, LineCellsType
    <3>3. LineCells(n)[k] \in Cells
      BY <1>1, <3>1, ElementOfSeq
    <3> QED BY <3>1, <3>2, <3>3 DEF CutParts
  <2> QED BY <2>1
<1>3. /\ SubSeq(LineCells(n), 1, w) \in Seq(CutParts)
      /\ Len(SubSeq(LineCells(n), 1, w)) = w
      /\ \A k \in 1..w : SubSeq(LineCells(n), 1, w)[k] = LineCells(n)[k]
  <2> DEFINE l == LineCells(n)
  <2>0. w \in Nat
    OBVIOUS
  <2>1. \A k \in 1..w : l[k] \in CutParts
    BY <1>2
  <2> HIDE DEF l
  <2>2. /\ SubSeq(l, 1, w) \in Seq(CutParts)
        /\ Len(SubSeq(l, 1, w)) = w
        /\ \A k \in 1..w : SubSeq(l, 1, w)[k] = l[k]
    BY <2>0, <2>1, StartOfSeq
  <2> QED BY <2>2 DEF l
<1> QED BY <1>2, <1>3

\* A sequence is its front and its last element.
LEMMA FrontAndLast ==
    ASSUME NEW S, NEW s \in Seq(S), Len(s) >= 2
    PROVE  /\ s = Append(SubSeq(s, 1, Len(s) - 1), s[Len(s)]) /\ s[Len(s)] \in S
           /\ Len(s) \in Nat /\ Len(s) - 1 \in 0..(Len(s) - 1)
<1>1. Len(s) \in Nat /\ 1 \in 1..Len(s) /\ Len(s) \in 1..Len(s)
  BY LenProperties
<1>2. s[Len(s)] \in S
  BY <1>1, ElementOfSeq
<1>3. SubSeq(s, 1, Len(s)) = s
  BY SubSeqFull
<1>4. SubSeq(s, 1, Len(s)) = SubSeq(s, 1, Len(s) - 1) \o <<s[Len(s)]>>
  BY <1>1, SubSeqRecursiveSecond
<1>5. SubSeq(s, 1, Len(s) - 1) \in Seq(S)
  <2>1. \A i \in 1..(Len(s) - 1) : s[i] \in S
    BY <1>1, ElementOfSeq
  <2>2. Len(s) - 1 \in Nat
    BY <1>1
  <2> QED BY <2>1, <2>2, StartOfSeq
<1>6. Append(SubSeq(s, 1, Len(s) - 1), s[Len(s)]) = SubSeq(s, 1, Len(s) - 1) \o <<s[Len(s)]>>
  BY <1>2, <1>5, AppendIsConcat
<1>7. s = Append(SubSeq(s, 1, Len(s) - 1), s[Len(s)])
  BY <1>3, <1>4, <1>6
<1>8. Len(s) \in Nat /\ Len(s) - 1 \in 0..(Len(s) - 1)
  BY <1>1
<1> QED BY <1>2, <1>7, <1>8

\* What is left of a line after its text is the separator.
LEMMA LineEnd ==
    ASSUME NEW n \in Lines
    PROVE  /\ Text(n) \in Seq(CutParts) /\ Len(Text(n)) = Sizes[n] - 1
           /\ Text(n) # << >> /\ Text(n)[1].line = n
           /\ [line |-> n, part |-> 0] \in Cells
           /\ LineCells(n) = Append(Text(n), [line |-> n, part |-> 0])
<1> DEFINE l == LineCells(n)
           z == Sizes[n]
<1>1. l \in Seq(Cells) /\ Len(l) = z /\ z >= 2 /\ z \in Nat
  BY LineCellsType
<1>2. z \in 1..z
  <2> HIDE DEF z
  <2> QED BY <1>1
<1>3. l[z] = [line |-> n, part |-> 0]
  BY <1>2, LineCellsType
<1>4. l = Append(SubSeq(l, 1, z - 1), l[z]) /\ l[z] \in Cells
  <2> HIDE DEF l, z
  <2> QED BY <1>1, FrontAndLast
<1>5. z - 1 \in 0..(z - 1) /\ z - 1 # 0 /\ 1 \in 1..(z - 1)
  <2> HIDE DEF z
  <2> QED BY <1>1
<1>6. /\ Text(n) \in Seq(CutParts) /\ Len(Text(n)) = z - 1
      /\ \A k \in 1..(z - 1) : Text(n)[k] = [line |-> n, part |-> k]
  BY <1>5, LineStart DEF Text
<1>7. Text(n) # << >>
  BY <1>5, <1>6, EmptySeq
<1>8. Text(n)[1].line = n
  <2>1. Text(n)[1] = [line |-> n, part |-> 1]
    BY <1>5, <1>6
  <2> QED BY <2>1
<1> QED BY <1>3, <1>4, <1>6, <1>7, <1>8 DEF Text

\* One line is cut out of the cells of one line.
LEMMA CutLine ==
    ASSUME NEW n \in Lines
    PROVE  Cut(LineCells(n)) = [lines |-> <<Text(n)>>, rest |-> << >>]
<1> DEFINE sep == [line |-> n, part |-> 0]
<1>1. Cut(Text(n)) = [lines |-> << >>, rest |-> Text(n)]
  BY LineEnd, CutParts1
<1>2. Cut(LineCells(n)) = AddCell(Cut(Text(n)), sep)
  <2>1. Text(n) \in Seq(Cells) /\ sep \in Cells /\ LineCells(n) = Append(Text(n), sep)
    BY LineEnd, PartsAreCells
  <2> HIDE DEF sep
  <2> QED BY <2>1, CutAppend
<1>3. Append(<< >>, Text(n)) = <<Text(n)>>
  OBVIOUS
<1>4. AddCell(Cut(Text(n)), sep) = [lines |-> Append(<< >>, Text(n)), rest |-> << >>]
  <2>1. Text(n) # << >> /\ sep.part = 0
    BY LineEnd
  <2> HIDE DEF sep
  <2> QED BY <1>1, <2>1 DEF AddCell
<1> QED BY <1>2, <1>3, <1>4

-----------------------------------------------------------------------------
(* The parts of a line among other cells, and the cells of several texts.    *)

PartsStep(n) == [p \in Seq(Cells) \X Cells |-> AddPart(n, p[1], p[2])]

\* The step of Parts adds to a sequence of cells.
LEMMA PartsStepType ==
    ASSUME NEW n
    PROVE  PartsStep(n) \in [Seq(Cells) \X Cells -> Seq(Cells)] /\ << >> \in Seq(Cells)
<1>1. ASSUME NEW p \in Seq(Cells) \X Cells
      PROVE  AddPart(n, p[1], p[2]) \in Seq(Cells)
  BY AppendProperties DEF AddPart
<1> QED BY <1>1, EmptySeq DEF PartsStep

\* Parts is folded along the cells.
LEMMA PartsFolds ==
    ASSUME NEW n, NEW s \in Seq(Cells)
    PROVE  FoldsTo(Parts(n, s), << >>, PartsStep(n), s)
<1> DEFINE E(f) == f = [k \in 0..Len(s) |->
                           IF k = 0 THEN << >> ELSE AddPart(n, f[k - 1], s[k])]
           h == CHOOSE f : E(f)
<1>0. Len(s) \in Nat
  BY LenProperties
<1>1. PICK g : Folded(g, << >>, PartsStep(n), s)
  BY FoldedExists, PartsStepType
<1>2. \A k \in 0..Len(s) : g[k] \in Seq(Cells)
  BY <1>1, FoldedType, PartsStepType
<1>3. E(g)
  <2>1. ASSUME NEW k \in 0..Len(s), k # 0
        PROVE  PartsStep(n)[<<g[k - 1], s[k]>>] = AddPart(n, g[k - 1], s[k])
    <3>1. g[k - 1] \in Seq(Cells) /\ s[k] \in Cells
      BY <1>0, <1>2, <2>1, ElementOfSeq
    <3> QED BY <3>1 DEF PartsStep
  <2> QED BY <1>1, <2>1 DEF Folded
<1>4. E(h)
  <2> HIDE DEF E
  <2> QED BY <1>3, Zenon
<1>5. Parts(n, s) = h[Len(s)]
  BY DEF Parts
<1>6. Folded(h, << >>, PartsStep(n), s)
  <2> HIDE DEF h
  <2>1. IsFunction(h, 0..Len(s)) /\ h[0] = << >>
    BY <1>0, <1>4 DEF IsFunction
  <2>2. ASSUME NEW k \in 1..Len(s), h[k - 1] \in Seq(Cells)
        PROVE  h[k] = PartsStep(n)[<<h[k - 1], s[k]>>]
    <3>1. h[k] = AddPart(n, h[k - 1], s[k])
      BY <1>0, <1>4
    <3> QED BY <2>2, <3>1, ElementOfSeq DEF PartsStep
  <2> HIDE DEF E
  <2> QED BY <2>1, <2>2, PartsStepType, FoldedIf
<1> QED BY <1>5, <1>6 DEF FoldsTo

\* No cells, no parts.
LEMMA PartsEmpty ==
    ASSUME NEW n
    PROVE  Parts(n, << >>) = << >>
BY PartsFolds, FoldsToEmpty, EmptySeq

\* A cell at the end is one of the parts or it is left out.
LEMMA PartsAppend ==
    ASSUME NEW n, NEW s \in Seq(Cells), NEW c \in Cells
    PROVE  Parts(n, Append(s, c)) = AddPart(n, Parts(n, s), c) /\ Parts(n, s) \in Seq(Cells)
<1>1. FoldsTo(Parts(n, s), << >>, PartsStep(n), s)
  BY PartsFolds
<1>2. FoldsTo(Parts(n, Append(s, c)), << >>, PartsStep(n), Append(s, c))
  BY PartsFolds, AppendProperties
<1>3. PartsStep(n) \in [Seq(Cells) \X Cells -> Seq(Cells)] /\ << >> \in Seq(Cells)
  BY PartsStepType
<1>4. Parts(n, Append(s, c)) = PartsStep(n)[<<Parts(n, s), c>>] /\ Parts(n, s) \in Seq(Cells)
  BY <1>1, <1>2, <1>3, FoldsToAppend
<1> QED BY <1>4 DEF PartsStep

\* The parts are cells.
LEMMA PartsType ==
    ASSUME NEW n, NEW s \in Seq(Cells)
    PROVE  Parts(n, s) \in Seq(Cells)
<1>1. Junk(0) \in Cells
  BY DEF Cells
<1> QED BY <1>1, PartsAppend

\* The parts in two sequences are the parts in the first and those in the second.
LEMMA PartsConcat ==
    ASSUME NEW n, NEW p \in Seq(Cells), NEW q \in Seq(Cells)
    PROVE  Parts(n, p \o q) = Parts(n, p) \o Parts(n, q)
<1> DEFINE T == {t \in Seq(Cells) : Parts(n, p \o t) = Parts(n, p) \o Parts(n, t)}
<1>0. Parts(n, p) \in Seq(Cells)
  BY PartsType
<1>1. << >> \in T
  BY <1>0, PartsEmpty, EmptySeq, ConcatEmptySeq
<1>2. ASSUME NEW t \in T, NEW c \in Cells PROVE Append(t, c) \in T
  <2>1. t \in Seq(Cells) /\ p \o t \in Seq(Cells) /\ Parts(n, t) \in Seq(Cells)
    BY ConcatProperties, PartsType
  <2>2. Parts(n, p \o t) = Parts(n, p) \o Parts(n, t)
    OBVIOUS
  <2>3. p \o Append(t, c) = Append(p \o t, c)
    BY <2>1, AppendConcat
  <2>4. Parts(n, p) \o Append(Parts(n, t), c) = Append(Parts(n, p) \o Parts(n, t), c)
    BY <1>0, <2>1, AppendConcat
  <2>5. Parts(n, Append(p \o t, c)) = AddPart(n, Parts(n, p \o t), c)
    BY <2>1, PartsAppend
  <2>6. Parts(n, Append(t, c)) = AddPart(n, Parts(n, t), c)
    BY <2>1, PartsAppend
  <2>7. Append(t, c) \in Seq(Cells)
    BY <2>1, AppendProperties
  <2>8. Parts(n, p \o Append(t, c)) = Parts(n, p) \o Parts(n, Append(t, c))
    BY <2>2, <2>3, <2>4, <2>5, <2>6 DEF AddPart
  <2> QED BY <2>7, <2>8
<1>3. T = Seq(Cells)
  <2>1. T \subseteq Seq(Cells)
    OBVIOUS
  <2> HIDE DEF T
  <2> QED BY <1>1, <1>2, <2>1, InductionOverSeq
<1> QED BY <1>3

JoinedStep == [p \in Seq(Cells) \X Seq(Cells) |-> p[1] \o p[2]]

\* The step of Joined adds to a sequence of cells.
LEMMA JoinedStepType ==
    JoinedStep \in [Seq(Cells) \X Seq(Cells) -> Seq(Cells)] /\ << >> \in Seq(Cells)
<1>1. ASSUME NEW p \in Seq(Cells) \X Seq(Cells) PROVE p[1] \o p[2] \in Seq(Cells)
  BY ConcatProperties
<1> QED BY <1>1, EmptySeq DEF JoinedStep

\* Joined is folded along the texts.
LEMMA JoinedFolds ==
    ASSUME NEW s \in Seq(Seq(Cells))
    PROVE  FoldsTo(Joined(s), << >>, JoinedStep, s)
<1> DEFINE E(f) == f = [k \in 0..Len(s) |-> IF k = 0 THEN << >> ELSE f[k - 1] \o s[k]]
           h == CHOOSE f : E(f)
<1>0. Len(s) \in Nat
  BY LenProperties
<1>1. PICK g : Folded(g, << >>, JoinedStep, s)
  BY FoldedExists, JoinedStepType
<1>2. \A k \in 0..Len(s) : g[k] \in Seq(Cells)
  BY <1>1, FoldedType, JoinedStepType
<1>3. E(g)
  <2>1. ASSUME NEW k \in 0..Len(s), k # 0
        PROVE  JoinedStep[<<g[k - 1], s[k]>>] = g[k - 1] \o s[k]
    <3>1. g[k - 1] \in Seq(Cells) /\ s[k] \in Seq(Cells)
      BY <1>0, <1>2, <2>1, ElementOfSeq
    <3> QED BY <3>1 DEF JoinedStep
  <2> QED BY <1>1, <2>1 DEF Folded
<1>4. E(h)
  <2> HIDE DEF E
  <2> QED BY <1>3, Zenon
<1>5. Joined(s) = h[Len(s)]
  BY DEF Joined
<1>6. Folded(h, << >>, JoinedStep, s)
  <2> HIDE DEF h
  <2>1. IsFunction(h, 0..Len(s)) /\ h[0] = << >>
    BY <1>0, <1>4 DEF IsFunction
  <2>2. ASSUME NEW k \in 1..Len(s), h[k - 1] \in Seq(Cells)
        PROVE  h[k] = JoinedStep[<<h[k - 1], s[k]>>]
    <3>0. k \in 0..Len(s) /\ k # 0
      BY <1>0
    <3>1. h[k] = h[k - 1] \o s[k]
      BY <1>4, <3>0, Zenon
    <3>2. s[k] \in Seq(Cells)
      BY ElementOfSeq
    <3> QED BY <2>2, <3>1, <3>2 DEF JoinedStep
  <2> HIDE DEF E
  <2> QED BY <2>1, <2>2, JoinedStepType, FoldedIf
<1> QED BY <1>5, <1>6 DEF FoldsTo

\* No texts, no cells.
LEMMA JoinedEmpty == Joined(<< >>) = << >>
BY JoinedFolds, FoldsToEmpty, EmptySeq

\* A text at the end is joined to those before it.
LEMMA JoinedAppend ==
    ASSUME NEW s \in Seq(Seq(Cells)), NEW t \in Seq(Cells)
    PROVE  Joined(Append(s, t)) = Joined(s) \o t /\ Joined(s) \in Seq(Cells)
<1>1. FoldsTo(Joined(s), << >>, JoinedStep, s)
  BY JoinedFolds
<1>2. FoldsTo(Joined(Append(s, t)), << >>, JoinedStep, Append(s, t))
  <2>1. Append(s, t) \in Seq(Seq(Cells))
    BY AppendProperties
  <2> QED BY <2>1, JoinedFolds
<1>3. JoinedStep \in [Seq(Cells) \X Seq(Cells) -> Seq(Cells)] /\ << >> \in Seq(Cells)
  BY JoinedStepType
<1>4. Joined(Append(s, t)) = JoinedStep[<<Joined(s), t>>] /\ Joined(s) \in Seq(Cells)
  BY <1>1, <1>2, <1>3, FoldsToAppend
<1> QED BY <1>4 DEF JoinedStep

\* The cells of texts are cells.
LEMMA JoinedType ==
    ASSUME NEW s \in Seq(Seq(Cells))
    PROVE  Joined(s) \in Seq(Cells)
BY JoinedAppend, EmptySeq

\* The cells of two sequences of texts.
LEMMA JoinedConcat ==
    ASSUME NEW p \in Seq(Seq(Cells)), NEW q \in Seq(Seq(Cells))
    PROVE  Joined(p \o q) = Joined(p) \o Joined(q)
<1> DEFINE T == {t \in Seq(Seq(Cells)) : Joined(p \o t) = Joined(p) \o Joined(t)}
<1>0. Joined(p) \in Seq(Cells)
  BY JoinedType
<1>1. << >> \in T
  <2>1. p \o << >> = p /\ Joined(p) \o << >> = Joined(p) /\ << >> \in Seq(Seq(Cells))
    BY <1>0, EmptySeq, ConcatEmptySeq
  <2> QED BY <2>1, JoinedEmpty
<1>2. ASSUME NEW t \in T, NEW c \in Seq(Cells) PROVE Append(t, c) \in T
  <2>1. t \in Seq(Seq(Cells)) /\ p \o t \in Seq(Seq(Cells)) /\ Joined(t) \in Seq(Cells)
    BY ConcatProperties, JoinedType
  <2>2. p \o Append(t, c) = Append(p \o t, c)
    BY <2>1, AppendConcat
  <2>3. Joined(Append(p \o t, c)) = Joined(p \o t) \o c /\ Joined(Append(t, c)) = Joined(t) \o c
    BY <2>1, JoinedAppend
  <2>4. (Joined(p) \o Joined(t)) \o c = Joined(p) \o (Joined(t) \o c)
    BY <1>0, <2>1, ConcatAssociative
  <2>5. Append(t, c) \in Seq(Seq(Cells))
    BY <2>1, AppendProperties
  <2>6. Joined(p \o t) = Joined(p) \o Joined(t)
    OBVIOUS
  <2>7. Joined(p \o Append(t, c)) = Joined(p) \o Joined(Append(t, c))
    BY <2>2, <2>3, <2>4, <2>6
  <2> QED BY <2>5, <2>7
<1>3. T = Seq(Seq(Cells))
  <2>1. T \subseteq Seq(Seq(Cells))
    OBVIOUS
  <2> HIDE DEF T
  <2> QED BY <1>1, <1>2, <2>1, InductionOverSeq
<1> QED BY <1>3

\* Texts without separators are texts.
LEMMA TextsType == Seq(Seq(CutParts)) \subseteq Seq(Seq(Cells))
BY PartsAreCells, SeqMonotonic

\* Cutting loses no part of a line and moves none.
LEMMA PartsCut ==
    ASSUME NEW n, NEW x \in Seq(Cells)
    PROVE  Parts(n, Joined(Cut(x).lines) \o Cut(x).rest) = Parts(n, x)
<1> DEFINE T == {s \in Seq(Cells) : Parts(n, Joined(Cut(s).lines) \o Cut(s).rest) = Parts(n, s)}
<1>1. << >> \in T
  <2>1. << >> \o << >> = << >> /\ << >> \in Seq(Cells)
    BY EmptySeq, ConcatEmptySeq
  <2>2. Cut(<< >>).lines = << >> /\ Cut(<< >>).rest = << >>
    BY CutEmpty DEF NoCut
  <2>3. Joined(Cut(<< >>).lines) \o Cut(<< >>).rest = << >>
    BY <2>1, <2>2, JoinedEmpty
  <2> QED BY <2>1, <2>3
<1>2. ASSUME NEW s \in T, NEW c \in Cells PROVE Append(s, c) \in T
  <2> DEFINE d == Cut(s)
             l == d.lines
             r == d.rest
             e == Cut(Append(s, c))
  <2>1. s \in Seq(Cells) /\ Append(s, c) \in Seq(Cells)
    BY AppendProperties
  <2>2. l \in Seq(Seq(Cells)) /\ r \in Seq(Cells) /\ d = [lines |-> l, rest |-> r]
    BY <2>1, CutType, PartsAreCells, TextsType
  <2>3. Parts(n, Joined(l) \o r) = Parts(n, s)
    OBVIOUS
  <2>4. e = AddCell(d, c)
    BY <2>1, CutAppend
  <2>5. Parts(n, Append(s, c)) = AddPart(n, Parts(n, s), c)
    BY <2>1, PartsAppend
  <2>6. Joined(l) \in Seq(Cells) /\ Joined(l) \o r \in Seq(Cells)
    BY <2>2, JoinedType, ConcatProperties
  <2> HIDE DEF d, e, l, r
  <2>7. CASE c.part # 0
    <3>1. e.lines = l /\ e.rest = Append(r, c)
      BY <2>2, <2>4, <2>7 DEF AddCell
    <3>2. Joined(l) \o Append(r, c) = Append(Joined(l) \o r, c)
      BY <2>2, <2>6, AppendConcat
    <3>3. Parts(n, Append(Joined(l) \o r, c)) = AddPart(n, Parts(n, Joined(l) \o r), c)
      BY <2>6, PartsAppend
    <3> QED BY <2>1, <2>3, <2>5, <3>1, <3>2, <3>3 DEF e
  <2>8. CASE c.part = 0
    <3>1. Parts(n, Append(s, c)) = Parts(n, s)
      BY <2>5, <2>8 DEF AddPart
    <3>2. Joined(e.lines) \o e.rest = Joined(l) \o r
      <4>1. CASE r = << >>
        <5>1. e.lines = l /\ e.rest = r
          BY <2>2, <2>4, <2>8, <4>1 DEF AddCell
        <5> QED BY <5>1
      <4>2. CASE r # << >>
        <5>1. e.lines = Append(l, r) /\ e.rest = << >>
          BY <2>2, <2>4, <2>8, <4>2 DEF AddCell
        <5>2. Joined(Append(l, r)) = Joined(l) \o r
          BY <2>2, JoinedAppend
        <5>3. (Joined(l) \o r) \o << >> = Joined(l) \o r
          BY <2>6, ConcatEmptySeq
        <5> QED BY <5>1, <5>2, <5>3
      <4> QED BY <4>1, <4>2
    <3> QED BY <2>1, <2>3, <3>1, <3>2 DEF e
  <2> QED BY <2>7, <2>8
<1>3. T = Seq(Cells)
  <2>1. T \subseteq Seq(Cells)
    OBVIOUS
  <2> HIDE DEF T
  <2> QED BY <1>1, <1>2, <2>1, InductionOverSeq
<1> QED BY <1>3

\* No parts of a line among the cells of others.
LEMMA PartsOther ==
    ASSUME NEW n, NEW s \in Seq({c \in Cells : c.line # n})
    PROVE  Parts(n, s) = << >>
<1> DEFINE D == {c \in Cells : c.line # n}
           T == {t \in Seq(D) : Parts(n, t) = << >>}
<1>0. D \subseteq Cells /\ Seq(D) \subseteq Seq(Cells)
  BY SeqMonotonic
<1>1. << >> \in T
  BY PartsEmpty, EmptySeq
<1>2. ASSUME NEW t \in T, NEW c \in D PROVE Append(t, c) \in T
  <2>1. t \in Seq(Cells) /\ c \in Cells /\ c.line # n /\ Parts(n, t) = << >>
    BY <1>0
  <2>2. Parts(n, Append(t, c)) = << >>
    BY <2>1, PartsAppend DEF AddPart
  <2>3. Append(t, c) \in Seq(D)
    BY AppendProperties
  <2> QED BY <2>2, <2>3
<1>3. T = Seq(D)
  <2>1. T \subseteq Seq(D)
    OBVIOUS
  <2> HIDE DEF T, D
  <2> QED BY <1>1, <1>2, <2>1, InductionOverSeq
<1> QED BY <1>3

\* All the cells are parts of the line that has them all.
LEMMA PartsOwn ==
    ASSUME NEW n, NEW s \in Seq({c \in CutParts : c.line = n})
    PROVE  Parts(n, s) = s
<1> DEFINE D == {c \in CutParts : c.line = n}
           T == {t \in Seq(D) : Parts(n, t) = t}
<1>0. D \subseteq Cells /\ Seq(D) \subseteq Seq(Cells)
  BY SeqMonotonic, PartsAreCells
<1>1. << >> \in T
  BY PartsEmpty, EmptySeq
<1>2. ASSUME NEW t \in T, NEW c \in D PROVE Append(t, c) \in T
  <2>1. t \in Seq(Cells) /\ c \in Cells /\ c.line = n /\ c.part # 0 /\ Parts(n, t) = t
    BY <1>0 DEF CutParts
  <2>2. Parts(n, Append(t, c)) = Append(t, c)
    BY <2>1, PartsAppend DEF AddPart
  <2>3. Append(t, c) \in Seq(D)
    BY AppendProperties
  <2> QED BY <2>2, <2>3
<1>3. T = Seq(D)
  <2>1. T \subseteq Seq(D)
    OBVIOUS
  <2> HIDE DEF T, D
  <2> QED BY <1>1, <1>2, <2>1, InductionOverSeq
<1> QED BY <1>3

\* The beginning of a beginning.
LEMMA StartOfStart ==
    ASSUME NEW S, NEW s \in Seq(S), NEW v \in 0..Len(s), NEW w \in 0..v
    PROVE  SubSeq(SubSeq(s, 1, v), 1, w) = SubSeq(s, 1, w)
OBVIOUS

\* The parts among the first cells of a line: a start of its text.
LEMMA PartsLine ==
    ASSUME NEW n \in Lines, NEW w \in 0..Sizes[n]
    PROVE  Parts(n, SubSeq(LineCells(n), 1, w))
           = SubSeq(Text(n), 1, IF w = Sizes[n] THEN Sizes[n] - 1 ELSE w)
<1> DEFINE l == LineCells(n)
           z == Sizes[n]
           D == {c \in CutParts : c.line = n}
<1>1. l \in Seq(Cells) /\ Len(l) = z /\ z >= 2 /\ z \in Nat
  BY LineCellsType
<1>2. ASSUME NEW v \in 0..(z - 1)
      PROVE  Parts(n, SubSeq(l, 1, v)) = SubSeq(Text(n), 1, v)
  <2>1. SubSeq(Text(n), 1, v) = SubSeq(l, 1, v)
    <3>1. z - 1 \in 0..Len(l) /\ v \in 0..(z - 1)
      <4> HIDE DEF l, z
      <4> QED BY <1>1
    <3>2. SubSeq(SubSeq(l, 1, z - 1), 1, v) = SubSeq(l, 1, v)
      <4> HIDE DEF l, z
      <4> QED BY <1>1, <3>1, StartOfStart
    <3> QED BY <3>2 DEF Text
  <2>2. SubSeq(l, 1, v) \in Seq(D)
    <3> DEFINE s == SubSeq(l, 1, v)
    <3>1. /\ s \in Seq(CutParts) /\ Len(s) = v
          /\ \A k \in 1..v : s[k] = [line |-> n, part |-> k]
      BY LineStart
    <3> HIDE DEF s, l
    <3>2. \A k \in 1..v : s[k].line = n
      BY <3>1
    <3>3. \A k \in 1..Len(s) : s[k] \in D
      BY <3>1, <3>2, ElementOfSeq
    <3>4. s \in [1..Len(s) -> D] /\ Len(s) \in Nat
      BY <3>1, <3>3, LenProperties
    <3>5. s \in Seq(D)
      BY <3>4, SeqDef
    <3> QED BY <3>5 DEF s
  <2> QED BY <2>1, <2>2, PartsOwn
<1>3. CASE w = z
  <2>1. SubSeq(l, 1, w) = l
    <3> HIDE DEF l, z
    <3> QED BY <1>1, <1>3, SubSeqFull
  <2>2. Text(n) \in Seq(CutParts) /\ Len(Text(n)) = z - 1 /\ [line |-> n, part |-> 0] \in Cells
        /\ l = Append(Text(n), [line |-> n, part |-> 0])
    BY LineEnd
  <2>3. Parts(n, l) = Parts(n, Text(n))
    <3>1. Text(n) \in Seq(Cells)
      BY <2>2, PartsAreCells
    <3> HIDE DEF l
    <3>2. Parts(n, l) = AddPart(n, Parts(n, Text(n)), [line |-> n, part |-> 0])
      BY <2>2, <3>1, PartsAppend
    <3> QED BY <3>2 DEF AddPart
  <2>4. z - 1 \in 0..(z - 1)
    <3> HIDE DEF z
    <3> QED BY <1>1
  <2>5. Parts(n, SubSeq(l, 1, z - 1)) = SubSeq(Text(n), 1, z - 1)
    BY <1>2, <2>4
  <2>6. Text(n) = SubSeq(l, 1, z - 1)
    BY DEF Text
  <2> HIDE DEF l, z
  <2> QED BY <1>3, <2>1, <2>3, <2>5, <2>6 DEF l, z
<1>4. CASE w # z
  <2>1. w \in 0..(z - 1)
    <3>1. w \in 0..z
      OBVIOUS
    <3> HIDE DEF z
    <3> QED BY <1>1, <1>4, <3>1
  <2> QED BY <1>2, <1>4, <2>1
<1> QED BY <1>3, <1>4
=============================================================================
