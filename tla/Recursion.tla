----------------------------- MODULE Recursion -----------------------------
(***************************************************************************)
(* Induction over numbers and over sequences, and functions defined by      *)
(* recursion along a sequence.                                             *)
(*                                                                         *)
(* What is to be proved by induction is given as the set of the values for  *)
(* which it holds, and a step of a recursion as a function: no lemma here   *)
(* takes an operator as a parameter.                                       *)
(***************************************************************************)
EXTENDS Integers, WellFoundedInduction, SequenceTheorems, TLAPS

\* A set of natural numbers that is not empty has a least element.
LEMMA LeastElement ==
    ASSUME NEW T, T \subseteq Nat, T # {}
    PROVE  \E m \in T : \A n \in T : m <= n
<1>1. PICK m \in T : \A n \in T : ~(<<n, m>> \in OpToRel(<, Nat))
  BY NatLessThanWellFounded, WFMin
<1>2. ASSUME NEW n \in T PROVE m <= n
  <2>1. ~(<<n, m>> \in OpToRel(<, Nat))
    BY <1>1
  <2>2. <<n, m>> \in Nat \X Nat
    OBVIOUS
  <2> QED BY <2>1, <2>2 DEF OpToRel
<1> QED BY <1>1, <1>2

\* Induction over the natural numbers.
LEMMA InductionOverNat ==
    ASSUME NEW T, T \subseteq Nat, 0 \in T, \A n \in T : n + 1 \in T
    PROVE  T = Nat
<1>1. ASSUME Nat \ T # {} PROVE FALSE
  <2>1. PICK m \in Nat \ T : \A n \in Nat \ T : m <= n
    BY <1>1, LeastElement
  <2>2. m - 1 \in Nat /\ m - 1 \notin Nat \ T
    BY <2>1
  <2> QED BY <2>1, <2>2
<1> QED BY <1>1

\* Induction over the sequences, one element at a time at the end.
LEMMA InductionOverSeq ==
    ASSUME NEW C, NEW T, T \subseteq Seq(C), << >> \in T,
           \A s \in T, c \in C : Append(s, c) \in T
    PROVE  T = Seq(C)
<1> DEFINE L == {n \in Nat : \A s \in Seq(C) : Len(s) = n => s \in T}
<1>1. 0 \in L
  <2>1. ASSUME NEW s \in Seq(C), Len(s) = 0 PROVE s \in T
    BY <2>1, EmptySeq
  <2> QED BY <2>1
<1>2. ASSUME NEW n \in L PROVE n + 1 \in L
  <2>1. ASSUME NEW s \in Seq(C), Len(s) = n + 1 PROVE s \in T
    <3>1. s # << >>
      BY <2>1, EmptySeq
    <3>2. PICK t \in Seq(C), c \in C : s = Append(t, c)
      BY <3>1, SequenceEmptyOrAppend
    <3>3. Len(s) = Len(t) + 1 /\ Len(t) \in Nat
      BY <3>2, AppendProperties, LenProperties
    <3>4. t \in T
      BY <1>2, <2>1, <3>3
    <3> QED BY <3>2, <3>4
  <2> QED BY <2>1
<1>3. L = Nat
  <2> HIDE DEF L
  <2>1. L \subseteq Nat
    BY DEF L
  <2> QED BY <1>1, <1>2, <2>1, InductionOverNat
<1>4. ASSUME NEW s \in Seq(C) PROVE s \in T
  BY <1>3, LenProperties
<1> QED BY <1>4

-----------------------------------------------------------------------------
(* Recursion along a sequence: f is folded from a along s when its value at  *)
(* k is a step from its value at k - 1 and the kth element.                 *)

Folded(f, a, step, s) ==
    f = [k \in 0..Len(s) |-> IF k = 0 THEN a ELSE step[<<f[k - 1], s[k]>>]]

\* One value of such a function.
LEMMA FoldedAt ==
    ASSUME NEW a, NEW step, NEW s, NEW f, Folded(f, a, step, s), NEW k \in 0..Len(s)
    PROVE  f[k] = IF k = 0 THEN a ELSE step[<<f[k - 1], s[k]>>]
BY DEF Folded

\* Such a function has its values in the range of the steps.
LEMMA FoldedType ==
    ASSUME NEW A, NEW C, NEW a \in A, NEW step \in [A \X C -> A], NEW s \in Seq(C),
           NEW f, Folded(f, a, step, s)
    PROVE  \A k \in 0..Len(s) : f[k] \in A
<1> DEFINE T == {n \in Nat : n <= Len(s) => f[n] \in A}
<1>0. Len(s) \in Nat
  BY LenProperties
<1>1. 0 \in T
  BY <1>0 DEF Folded
<1>2. ASSUME NEW n \in T PROVE n + 1 \in T
  <2>1. ASSUME n + 1 <= Len(s) PROVE f[n + 1] \in A
    <3>1. n \in Nat /\ n + 1 \in 0..Len(s) /\ n + 1 # 0 /\ n + 1 \in 1..Len(s) /\ (n + 1) - 1 = n
      BY <1>0, <2>1
    <3>2. f[n + 1] = step[<<f[n], s[n + 1]>>]
      BY <3>1 DEF Folded
    <3>3. s[n + 1] \in C /\ f[n] \in A
      BY <1>0, <2>1, <3>1, ElementOfSeq
    <3> QED BY <3>2, <3>3
  <2> QED BY <2>1
<1>3. T = Nat
  <2> HIDE DEF T
  <2>1. T \subseteq Nat
    BY DEF T
  <2> QED BY <1>1, <1>2, <2>1, InductionOverNat
<1> QED BY <1>0, <1>3

\* One function is folded further by one element.
LEMMA FoldedAppend ==
    ASSUME NEW A, NEW C, NEW a \in A, NEW step \in [A \X C -> A],
           NEW s \in Seq(C), NEW c \in C, NEW f, Folded(f, a, step, s)
    PROVE  \E g : Folded(g, a, step, Append(s, c))
<1> DEFINE t == Append(s, c)
           g == [k \in 0..Len(t) |-> IF k <= Len(s) THEN f[k] ELSE step[<<f[Len(s)], c>>]]
<1>0. Len(s) \in Nat /\ Len(t) = Len(s) + 1 /\ t[Len(s) + 1] = c
      /\ \A k \in 1..Len(s) : t[k] = s[k]
  BY LenProperties, AppendProperties
<1>1. ASSUME NEW k \in 0..Len(t)
      PROVE  g[k] = IF k = 0 THEN a ELSE step[<<g[k - 1], t[k]>>]
  <2>1. CASE k = 0
    BY <1>0, <2>1 DEF Folded
  <2>2. CASE k # 0 /\ k <= Len(s)
    <3>1. f[k] = step[<<f[k - 1], s[k]>>]
      BY <1>0, <2>2 DEF Folded
    <3>2. g[k] = f[k] /\ g[k - 1] = f[k - 1] /\ t[k] = s[k]
      BY <1>0, <2>2
    <3> QED BY <2>2, <3>1, <3>2
  <2>3. CASE k = Len(s) + 1
    <3>1. g[k] = step[<<f[Len(s)], c>>] /\ g[k - 1] = f[Len(s)]
      BY <1>0, <2>3
    <3>2. t[k] = c /\ k # 0
      BY <1>0, <2>3
    <3> HIDE DEF t, g
    <3> QED BY <3>1, <3>2
  <2>4. k = 0 \/ (k # 0 /\ k <= Len(s)) \/ k = Len(s) + 1
    <3> HIDE DEF t, g
    <3> QED BY <1>0
  <2> HIDE DEF t, g
  <2> QED BY <2>1, <2>2, <2>3, <2>4
<1>2. g = [k \in 0..Len(t) |-> IF k = 0 THEN a ELSE step[<<g[k - 1], t[k]>>]]
  <2> HIDE DEF t
  <2>1. g = [k \in 0..Len(t) |-> g[k]]
    OBVIOUS
  <2> HIDE DEF g
  <2> QED BY <1>1, <2>1
<1> QED BY <1>2 DEF Folded

\* There is one for every sequence.
LEMMA FoldedExists ==
    ASSUME NEW A, NEW C, NEW a \in A, NEW step \in [A \X C -> A], NEW s \in Seq(C)
    PROVE  \E f : Folded(f, a, step, s)
<1> DEFINE T == {t \in Seq(C) : \E f : Folded(f, a, step, t)}
<1>1. << >> \in T
  <2>1. Len(<< >>) = 0 /\ << >> \in Seq(C)
    BY EmptySeq
  <2>2. [k \in 0..0 |-> a] = [k \in 0..0 |-> IF k = 0 THEN a
                                             ELSE step[<<[l \in 0..0 |-> a][k - 1], << >>[k]>>]]
    OBVIOUS
  <2>3. Folded([k \in 0..0 |-> a], a, step, << >>)
    BY <2>1, <2>2 DEF Folded
  <2> QED BY <2>1, <2>3
<1>2. ASSUME NEW t \in T, NEW c \in C PROVE Append(t, c) \in T
  <2>1. PICK f : Folded(f, a, step, t)
    OBVIOUS
  <2>2. Append(t, c) \in Seq(C)
    BY AppendProperties
  <2>3. \E g : Folded(g, a, step, Append(t, c))
    BY <2>1, FoldedAppend
  <2> QED BY <2>2, <2>3
<1>3. T = Seq(C)
  <2> HIDE DEF T
  <2>1. T \subseteq Seq(C)
    BY DEF T
  <2> QED BY <1>1, <1>2, <2>1, InductionOverSeq
<1> QED BY <1>3
IsFunction(f, D) == f = [k \in D |-> f[k]]

\* A function with the right values is one.
LEMMA FoldedIf ==
    ASSUME NEW A, NEW C, NEW a \in A, NEW step \in [A \X C -> A], NEW s \in Seq(C),
           NEW f, IsFunction(f, 0..Len(s)), f[0] = a,
           \A k \in 1..Len(s) : f[k - 1] \in A => f[k] = step[<<f[k - 1], s[k]>>]
    PROVE  Folded(f, a, step, s)
<1> DEFINE T == {n \in Nat : n <= Len(s) => f[n] \in A}
<1>0. Len(s) \in Nat
  BY LenProperties
<1>1. 0 \in T
  BY <1>0
<1>2. ASSUME NEW n \in T PROVE n + 1 \in T
  <2>1. ASSUME n + 1 <= Len(s) PROVE f[n + 1] \in A
    <3>1. n \in Nat /\ n + 1 \in 1..Len(s) /\ (n + 1) - 1 = n /\ f[n] \in A
      BY <1>0, <2>1
    <3>2. f[n + 1] = step[<<f[n], s[n + 1]>>] /\ s[n + 1] \in C
      BY <3>1, ElementOfSeq
    <3> QED BY <3>1, <3>2
  <2> QED BY <2>1
<1>3. T = Nat
  <2> HIDE DEF T
  <2>1. T \subseteq Nat
    BY DEF T
  <2> QED BY <1>1, <1>2, <2>1, InductionOverNat
<1>4. ASSUME NEW k \in 0..Len(s)
      PROVE  f[k] = IF k = 0 THEN a ELSE step[<<f[k - 1], s[k]>>]
  <2>1. CASE k = 0
    BY <2>1
  <2>2. CASE k # 0
    <3>1. k \in 1..Len(s) /\ k - 1 \in T /\ k - 1 <= Len(s)
      BY <1>0, <1>3, <2>2
    <3> QED BY <2>2, <3>1
  <2> QED BY <2>1, <2>2
<1>5. f = [k \in 0..Len(s) |-> IF k = 0 THEN a ELSE step[<<f[k - 1], s[k]>>]]
  BY <1>4 DEF IsFunction
<1> QED BY <1>5 DEF Folded

\* The value at the end of a longer sequence is one step further.
LEMMA FoldedEnd ==
    ASSUME NEW A, NEW C, NEW a \in A, NEW step \in [A \X C -> A],
           NEW s \in Seq(C), NEW c \in C,
           NEW f, Folded(f, a, step, s), NEW g, Folded(g, a, step, Append(s, c))
    PROVE  g[Len(Append(s, c))] = step[<<f[Len(s)], c>>] /\ f[Len(s)] \in A
<1> DEFINE t == Append(s, c)
           T == {n \in Nat : n <= Len(s) => f[n] = g[n]}
<1>0. Len(s) \in Nat /\ Len(t) = Len(s) + 1 /\ t[Len(s) + 1] = c
      /\ \A k \in 1..Len(s) : t[k] = s[k]
  BY LenProperties, AppendProperties
<1>1. 0 \in T
  BY <1>0 DEF Folded
<1>2. ASSUME NEW n \in T PROVE n + 1 \in T
  <2>1. ASSUME n + 1 <= Len(s) PROVE f[n + 1] = g[n + 1]
    <3>1. n \in Nat /\ n + 1 \in 0..Len(s) /\ n + 1 \in 0..Len(t) /\ n + 1 # 0
          /\ n + 1 \in 1..Len(s) /\ (n + 1) - 1 = n
      BY <1>0, <2>1
    <3>2. f[n + 1] = step[<<f[n], s[n + 1]>>] /\ g[n + 1] = step[<<g[n], t[n + 1]>>]
      <4>1. f[n + 1] = step[<<f[n], s[n + 1]>>]
        BY <3>1, FoldedAt
      <4>2. Folded(g, a, step, t)
        OBVIOUS
      <4> HIDE DEF t
      <4>3. g[n + 1] = step[<<g[n], t[n + 1]>>]
        BY <3>1, <4>2, FoldedAt
      <4> QED BY <4>1, <4>3
    <3>3. f[n] = g[n]
      BY <1>0, <2>1, <3>1
    <3> QED BY <1>0, <3>1, <3>2, <3>3
  <2> QED BY <2>1
<1>3. T = Nat
  <2> HIDE DEF T
  <2>1. T \subseteq Nat
    BY DEF T
  <2> QED BY <1>1, <1>2, <2>1, InductionOverNat
<1>4. g[Len(s)] = f[Len(s)]
  BY <1>0, <1>3
<1>5. f[Len(s)] \in A
  <2>1. \A k \in 0..Len(s) : f[k] \in A
    BY FoldedType
  <2> QED BY <1>0, <2>1
<1>6. g[Len(t)] = step[<<g[Len(t) - 1], t[Len(t)]>>]
  <2>1. Folded(g, a, step, t)
    OBVIOUS
  <2> HIDE DEF t
  <2>2. Len(t) \in 0..Len(t) /\ Len(t) # 0
    BY <1>0
  <2> QED BY <2>1, <2>2, FoldedAt
<1>7. Len(t) - 1 = Len(s)
  BY <1>0
<1> HIDE DEF t
<1>8. g[Len(t)] = step[<<f[Len(s)], c>>]
  BY <1>0, <1>4, <1>6, <1>7
<1> QED BY <1>5, <1>8 DEF t

-----------------------------------------------------------------------------
(* What a sequence is folded to.                                            *)

FoldsTo(v, a, step, s) == \E f : Folded(f, a, step, s) /\ v = f[Len(s)]

\* Along the empty sequence nothing is folded.
LEMMA FoldsToEmpty ==
    ASSUME NEW a, NEW step, NEW v, FoldsTo(v, a, step, << >>)
    PROVE  v = a
<1>1. PICK f : Folded(f, a, step, << >>) /\ v = f[Len(<< >>)]
  BY DEF FoldsTo
<1>2. Len(<< >>) = 0
  BY EmptySeq
<1>3. 0 \in 0..Len(<< >>)
  BY <1>2
<1>4. f[0] = a
  BY <1>1, <1>3 DEF Folded
<1> QED BY <1>1, <1>2, <1>4

\* One more element is one more step.
LEMMA FoldsToAppend ==
    ASSUME NEW A, NEW C, NEW a \in A, NEW step \in [A \X C -> A],
           NEW s \in Seq(C), NEW c \in C,
           NEW v, FoldsTo(v, a, step, s), NEW w, FoldsTo(w, a, step, Append(s, c))
    PROVE  w = step[<<v, c>>] /\ v \in A
<1>1. PICK f : Folded(f, a, step, s) /\ v = f[Len(s)]
  BY DEF FoldsTo
<1>2. PICK g : Folded(g, a, step, Append(s, c)) /\ w = g[Len(Append(s, c))]
  BY DEF FoldsTo
<1>3. Folded(f, a, step, s)
  BY <1>1
<1>4. Folded(g, a, step, Append(s, c))
  BY <1>2
<1>5. g[Len(Append(s, c))] = step[<<f[Len(s)], c>>] /\ f[Len(s)] \in A
  BY <1>3, <1>4, FoldedEnd
<1> QED BY <1>1, <1>2, <1>5
=============================================================================
