--------------------------- MODULE SequenceLemmas ---------------------------
(***************************************************************************)
(* What the operators on sequences and on sets of numbers return, and the  *)
(* induction these lemmas need.                                            *)
(***************************************************************************)
EXTENDS Integers, FiniteSetsExt, SequencesExt, SequenceTheorems, WellFoundedInduction, TLAPS

(* A non-empty set of naturals has a least element, which Min returns.     *)
LEMMA MinProperties ==
  ASSUME NEW S \in SUBSET Nat, S # {}
  PROVE  Min(S) \in S /\ \A y \in S : Min(S) <= y
<1> DEFINE R == OpToRel(<, Nat)
<1>1. IsWellFoundedOn(R, Nat)
  BY NatLessThanWellFounded
<1>2. \A x, y \in Nat : y < x => <<y, x>> \in R
  BY Zenon DEF OpToRel
<1> HIDE DEF R
<1>3. PICK x \in S : \A y \in S : ~ (<<y, x>> \in R)
  BY <1>1, WFMin
<1>4. \A y \in S : y \in Nat /\ x \in Nat
  OBVIOUS
<1>5. \A y \in S : ~ (y < x)
  BY <1>2, <1>3, <1>4
<1>6. \A y \in S : x <= y
  BY <1>4, <1>5
<1> QED
  BY <1>6 DEF Min

(* Induction over the natural numbers, for a set.                          *)
LEMMA SetInduction ==
  ASSUME NEW T \in SUBSET Nat, 0 \in T, \A n \in T : n + 1 \in T
  PROVE  T = Nat
<1> DEFINE Bad == Nat \ T
<1> SUFFICES ASSUME Bad # {}
             PROVE  FALSE
  OBVIOUS
<1>1. PICK n \in Bad : \A m \in Bad : ~(m < n)
  <2>1. IsWellFoundedOn(OpToRel(<, Nat), Nat)
    BY NatLessThanWellFounded
  <2>2. PICK x \in Bad : \A y \in Bad : ~(<<y, x>> \in OpToRel(<, Nat))
    BY <2>1, WFMin
  <2> QED BY <2>2 DEF OpToRel
<1>2. n \in Nat /\ n # 0 /\ n - 1 \in Nat /\ n - 1 < n
  BY <1>1
<1>3. n - 1 \in T
  BY <1>1, <1>2
<1>4. (n - 1) + 1 = n
  BY <1>2
<1> QED BY <1>1, <1>3, <1>4

(* The function FlattenSeq() is defined with.                              *)
Flattened(seqs) ==
  CHOOSE g : g = [i \in 1 .. Len(seqs) |-> IF i = 1 THEN seqs[i] ELSE g[i - 1] \o seqs[i]]

LEMMA FlattenUnfolds ==
  ASSUME NEW seqs, Len(seqs) # 0
  PROVE  FlattenSeq(seqs) = Flattened(seqs)[Len(seqs)]
BY DEF FlattenSeq, Flattened

(* The function exists, and its values are the concatenations.             *)
LEMMA FlattenedUnfolds ==
  ASSUME NEW S, NEW seqs \in Seq(Seq(S)), seqs # <<>>
  PROVE  /\ \A i \in 1 .. Len(seqs) :
              Flattened(seqs)[i] = IF i = 1 THEN seqs[i] ELSE Flattened(seqs)[i - 1] \o seqs[i]
         /\ FlattenSeq(seqs) = Flattened(seqs)[Len(seqs)]
<1> DEFINE n == Len(seqs)
           Is(g, m) == g = [i \in 1 .. m |-> IF i = 1 THEN seqs[i] ELSE g[i - 1] \o seqs[i]]
           T == {m \in Nat : \E g : Is(g, m)}
<1>1. n \in Nat /\ n # 0
  OBVIOUS
<1>2. 0 \in T
  <2>1. \A g : 1 .. 0 = {}
    OBVIOUS
  <2> DEFINE e == [i \in 1 .. 0 |-> 0]
  <2>2. Is(e, 0)
    BY <2>1
  <2> QED BY <2>2
<1>3. ASSUME NEW m \in T
      PROVE  m + 1 \in T
  <2>1. m \in Nat /\ m + 1 \in Nat
    BY <1>3
  <2>2. PICK g : Is(g, m)
    BY <1>3
  <2> DEFINE h == [i \in 1 .. m + 1 |-> IF i = 1 THEN seqs[i] ELSE g[i - 1] \o seqs[i]]
  <2>3. \A i \in 1 .. m : g[i] = IF i = 1 THEN seqs[i] ELSE g[i - 1] \o seqs[i]
    BY ONLY <2>2
  <2>4. /\ h = [i \in 1 .. m + 1 |-> IF i = 1 THEN seqs[i] ELSE g[i - 1] \o seqs[i]]
        /\ \A i \in 1 .. m + 1 : h[i] = IF i = 1 THEN seqs[i] ELSE g[i - 1] \o seqs[i]
    OBVIOUS
  <2> HIDE DEF h
  <2>5. \A i \in 1 .. m : i \in 1 .. m + 1
    BY ONLY <2>1
  <2>6. \A i \in 1 .. m : h[i] = g[i]
    BY ONLY <2>3, <2>4, <2>5
  <2>7. \A i \in 1 .. m + 1 : i # 1 => i - 1 \in 1 .. m
    BY ONLY <2>1
  <2>8. \A i \in 1 .. m + 1 : i # 1 => h[i - 1] = g[i - 1]
    BY ONLY <2>6, <2>7
  <2>9. h = [i \in 1 .. m + 1 |-> IF i = 1 THEN seqs[i] ELSE h[i - 1] \o seqs[i]]
    BY ONLY <2>4, <2>8
  <2> QED BY <2>1, <2>9
<1>4. n \in T
  <2>1. T \in SUBSET Nat
    OBVIOUS
  <2> HIDE DEF T
  <2>2. T = Nat
    BY ONLY <1>2, <1>3, <2>1, SetInduction
  <2> QED BY <1>1, <2>2
<1>5. Is(Flattened(seqs), n)
  <2>1. \E g : Is(g, n)
    BY <1>4
  <2>2. Flattened(seqs) = CHOOSE g : Is(g, n)
    BY DEF Flattened
  <2> HIDE DEF Is
  <2> QED BY <2>1, <2>2
<1>6. \A i \in 1 .. n :
        Flattened(seqs)[i] = IF i = 1 THEN seqs[i] ELSE Flattened(seqs)[i - 1] \o seqs[i]
  BY <1>5
<1>7. FlattenSeq(seqs) = Flattened(seqs)[n]
  BY <1>1, FlattenUnfolds
<1> QED BY <1>6, <1>7

(* Where the i-th of the sequences ends in the flattened one.              *)
EndOfPiece(seqs, i) == IF i = 0 THEN 0 ELSE Len(Flattened(seqs)[i])

(* The sequences stand one behind the other in the flattened one.          *)
LEMMA FlattenProperties ==
  ASSUME NEW S, NEW seqs \in Seq(Seq(S)), seqs # <<>>
  PROVE  /\ FlattenSeq(seqs) \in Seq(S)
         /\ Len(FlattenSeq(seqs)) = EndOfPiece(seqs, Len(seqs))
         /\ EndOfPiece(seqs, 0) = 0
         /\ \A i \in 0 .. Len(seqs) : EndOfPiece(seqs, i) \in Nat
         /\ \A i \in 1 .. Len(seqs) :
              /\ EndOfPiece(seqs, i) = EndOfPiece(seqs, i - 1) + Len(seqs[i])
              /\ \A j \in 1 .. Len(seqs[i]) :
                   /\ EndOfPiece(seqs, i - 1) + j <= Len(FlattenSeq(seqs))
                   /\ FlattenSeq(seqs)[EndOfPiece(seqs, i - 1) + j] = seqs[i][j]
<1> DEFINE k == Len(seqs)
           fl == Flattened(seqs)
           Starts(m) == \A i \in 1 .. m : \A j \in 1 .. Len(seqs[i]) :
                          /\ EndOfPiece(seqs, i - 1) + j <= Len(fl[m])
                          /\ fl[m][EndOfPiece(seqs, i - 1) + j] = seqs[i][j]
           Typed == {m \in Nat : m \in 1 .. k => fl[m] \in Seq(S)}
           Right == {m \in Nat : m \in 1 .. k => Starts(m)}
<1>1. k \in Nat /\ k # 0 /\ \A i \in 1 .. k : seqs[i] \in Seq(S) /\ Len(seqs[i]) \in Nat
  OBVIOUS
<1>2. /\ fl[1] = seqs[1]
      /\ \A i \in 1 .. k : i # 1 => fl[i] = fl[i - 1] \o seqs[i]
      /\ FlattenSeq(seqs) = fl[k]
  <2>1. 1 \in 1 .. k
    BY <1>1
  <2> QED BY <2>1, FlattenedUnfolds
<1>3. \A i \in 0 .. k : EndOfPiece(seqs, i) = IF i = 0 THEN 0 ELSE Len(fl[i])
  BY DEF EndOfPiece
<1> HIDE DEF fl, k
<1>4. \A i \in 1 .. k : fl[i] \in Seq(S)
  <2>1. 0 \in Typed
    OBVIOUS
  <2>2. ASSUME NEW m \in Typed
        PROVE  m + 1 \in Typed
    <3>1. m \in Nat /\ m + 1 \in Nat /\ (m + 1) - 1 = m
      OBVIOUS
    <3>2. SUFFICES ASSUME m + 1 \in 1 .. k
                   PROVE  fl[m + 1] \in Seq(S)
      BY <3>1
    <3>3. CASE m = 0
      <4>1. m + 1 = 1
        BY <3>3
      <4> QED BY <1>1, <1>2, <3>2, <4>1
    <3>4. CASE m # 0
      <4>1. m \in 1 .. k /\ m + 1 # 1
        BY <1>1, <3>1, <3>2, <3>4
      <4>2. fl[m] \in Seq(S) /\ seqs[m + 1] \in Seq(S) /\ fl[m + 1] = fl[m] \o seqs[m + 1]
        BY <1>1, <1>2, <3>1, <3>2, <4>1
      <4> QED BY ONLY <4>2, ConcatProperties
    <3> QED BY <3>3, <3>4
  <2>3. Typed \in SUBSET Nat
    OBVIOUS
  <2> HIDE DEF Typed
  <2>4. Typed = Nat
    BY ONLY <2>1, <2>2, <2>3, SetInduction
  <2> QED BY <1>1, <2>4 DEF Typed
<1>5. /\ EndOfPiece(seqs, 0) = 0
      /\ \A i \in 0 .. k : EndOfPiece(seqs, i) \in Nat
      /\ \A i \in 1 .. k : EndOfPiece(seqs, i) = EndOfPiece(seqs, i - 1) + Len(seqs[i])
  <2>1. EndOfPiece(seqs, 0) = 0
    BY DEF EndOfPiece
  <2>2. \A i \in 1 .. k : EndOfPiece(seqs, i) = Len(fl[i]) /\ Len(fl[i]) \in Nat
    BY <1>1, <1>3, <1>4
  <2>3. \A i \in 0 .. k : i = 0 \/ i \in 1 .. k
    BY <1>1
  <2>4. ASSUME NEW i \in 1 .. k
        PROVE  EndOfPiece(seqs, i) = EndOfPiece(seqs, i - 1) + Len(seqs[i])
    <3>1. CASE i = 1
      BY <1>1, <1>2, <2>1, <2>2, <3>1
    <3>2. CASE i # 1
      <4>1. i - 1 \in 1 .. k
        BY <1>1, <3>2
      <4>2. fl[i - 1] \in Seq(S) /\ seqs[i] \in Seq(S) /\ fl[i] = fl[i - 1] \o seqs[i]
        BY <1>1, <1>2, <1>4, <3>2, <4>1
      <4>3. Len(fl[i]) = Len(fl[i - 1]) + Len(seqs[i])
        BY ONLY <4>2, ConcatProperties
      <4> QED BY <2>2, <4>1, <4>3
    <3> QED BY <3>1, <3>2
  <2> QED BY <2>1, <2>2, <2>3, <2>4
<1>6. \A m \in 1 .. k : Starts(m)
  <2>1. 0 \in Right
    OBVIOUS
  <2>2. ASSUME NEW m \in Right
        PROVE  m + 1 \in Right
    <3>1. m \in Nat /\ m + 1 \in Nat /\ (m + 1) - 1 = m
      OBVIOUS
    <3>2. SUFFICES ASSUME m + 1 \in 1 .. k, NEW i \in 1 .. m + 1, NEW j \in 1 .. Len(seqs[i])
                   PROVE  /\ EndOfPiece(seqs, i - 1) + j <= Len(fl[m + 1])
                          /\ fl[m + 1][EndOfPiece(seqs, i - 1) + j] = seqs[i][j]
      BY <3>1
    <3> DEFINE x == EndOfPiece(seqs, i - 1) + j
               s == IF m = 0 THEN <<>> ELSE fl[m]
               t == seqs[m + 1]
    <3>3. i \in 1 .. k /\ i - 1 \in 0 .. k /\ seqs[i] \in Seq(S) /\ j \in Nat /\ j >= 1
          /\ j <= Len(seqs[i])
      BY <1>1, <3>1, <3>2
    <3>4. EndOfPiece(seqs, i - 1) \in Nat /\ x \in Nat /\ x >= 1
      BY <1>5, <3>3
    <3>5. s \in Seq(S) /\ t \in Seq(S) /\ fl[m + 1] = s \o t /\ Len(s) = EndOfPiece(seqs, m)
      <4>1. CASE m = 0
        BY <1>1, <1>2, <1>5, <3>2, <4>1
      <4>2. CASE m # 0
        <5>1. m \in 1 .. k /\ m + 1 # 1 /\ m \in 0 .. k
          BY <1>1, <3>1, <3>2, <4>2
        <5> QED BY <1>1, <1>2, <1>3, <1>4, <3>1, <3>2, <4>2, <5>1
      <4> QED BY <4>1, <4>2
    <3> HIDE DEF x, s, t
    <3>6. /\ Len(s \o t) = Len(s) + Len(t) /\ Len(s) \in Nat /\ Len(t) \in Nat
          /\ \A y \in 1 .. Len(s) + Len(t) :
               (s \o t)[y] = IF y <= Len(s) THEN s[y] ELSE t[y - Len(s)]
      <4>1. s \in Seq(S) /\ t \in Seq(S)
        BY <3>5
      <4>2. Len(s) \in Nat /\ Len(t) \in Nat
        BY ONLY <4>1, LenProperties
      <4> QED BY ONLY <4>1, <4>2, ConcatProperties
    <3>7. CASE i \in 1 .. m
      <4>1. m \in 1 .. k /\ s = fl[m]
        BY <1>1, <3>1, <3>2, <3>7 DEF s
      <4>2. x <= Len(s) /\ s[x] = seqs[i][j]
        BY <3>7, <4>1 DEF x
      <4>3. x \in 1 .. Len(s) + Len(t)
        BY ONLY <3>4, <3>6, <4>2
      <4> QED BY <3>5, <3>6, <4>2, <4>3 DEF x
    <3>8. CASE i = m + 1
      <4>1. x = Len(s) + j /\ t = seqs[i]
        BY <3>1, <3>5, <3>8 DEF x, t
      <4>2. x \in 1 .. Len(s) + Len(t) /\ ~(x <= Len(s)) /\ x - Len(s) = j /\ x <= Len(s) + Len(t)
        BY ONLY <3>3, <3>4, <3>6, <4>1
      <4> QED BY <3>5, <3>6, <4>1, <4>2 DEF x
    <3> QED BY <3>1, <3>7, <3>8
  <2>3. Right \in SUBSET Nat
    OBVIOUS
  <2> HIDE DEF Right
  <2>4. Right = Nat
    BY ONLY <2>1, <2>2, <2>3, SetInduction
  <2>5. \A m \in 1 .. k : m \in Right
    BY <1>1, <2>4
  <2> HIDE DEF Starts
  <2> QED BY <2>5 DEF Right
<1>7. /\ FlattenSeq(seqs) \in Seq(S)
      /\ Len(FlattenSeq(seqs)) = EndOfPiece(seqs, k)
      /\ \A i \in 1 .. k : \A j \in 1 .. Len(seqs[i]) :
           /\ EndOfPiece(seqs, i - 1) + j <= Len(FlattenSeq(seqs))
           /\ FlattenSeq(seqs)[EndOfPiece(seqs, i - 1) + j] = seqs[i][j]
  <2>1. k \in 1 .. k /\ k \in 0 .. k
    BY <1>1
  <2> QED BY <1>1, <1>2, <1>3, <1>4, <1>6, <2>1
<1> QED BY <1>5, <1>7 DEF k

(* Every element of the flattened sequence is one of one of the sequences. *)
LEMMA FlattenCovers ==
  ASSUME NEW S, NEW seqs \in Seq(Seq(S)), seqs # <<>>
  PROVE  \A x \in 1 .. Len(FlattenSeq(seqs)) :
           \E i \in 1 .. Len(seqs) : \E j \in 1 .. Len(seqs[i]) :
             x = EndOfPiece(seqs, i - 1) + j
<1> DEFINE k == Len(seqs)
           Found(x) == \E i \in 1 .. k : \E j \in 1 .. Len(seqs[i]) :
                         x = EndOfPiece(seqs, i - 1) + j
           T == {m \in Nat : m \in 0 .. k => \A x \in 1 .. EndOfPiece(seqs, m) : Found(x)}
<1>1. k \in Nat /\ \A i \in 1 .. k : Len(seqs[i]) \in Nat
  OBVIOUS
<1>2. /\ Len(FlattenSeq(seqs)) = EndOfPiece(seqs, k)
      /\ EndOfPiece(seqs, 0) = 0
      /\ \A i \in 0 .. k : EndOfPiece(seqs, i) \in Nat
      /\ \A i \in 1 .. k : EndOfPiece(seqs, i) = EndOfPiece(seqs, i - 1) + Len(seqs[i])
  BY FlattenProperties
<1> HIDE DEF k
<1>3. 0 \in T
  BY <1>2
<1>4. ASSUME NEW m \in T
      PROVE  m + 1 \in T
  <2>1. m \in Nat /\ m + 1 \in Nat /\ (m + 1) - 1 = m
    OBVIOUS
  <2>2. SUFFICES ASSUME m + 1 \in 0 .. k, NEW x \in 1 .. EndOfPiece(seqs, m + 1)
                 PROVE  Found(x)
    BY <2>1
  <2>3. m \in 0 .. k /\ m + 1 \in 1 .. k
    BY <1>1, <2>1, <2>2
  <2>4. EndOfPiece(seqs, m) \in Nat /\ Len(seqs[m + 1]) \in Nat
        /\ EndOfPiece(seqs, m + 1) = EndOfPiece(seqs, m) + Len(seqs[m + 1])
    BY <1>1, <1>2, <2>1, <2>3
  <2>5. CASE x \in 1 .. EndOfPiece(seqs, m)
    BY <2>3, <2>5
  <2>6. CASE x \notin 1 .. EndOfPiece(seqs, m)
    <3> DEFINE o == EndOfPiece(seqs, m)
               l == Len(seqs[m + 1])
    <3>1. x \in 1 .. o + l /\ x \notin 1 .. o /\ o \in Nat /\ l \in Nat
      BY <2>4, <2>6
    <3> HIDE DEF o, l
    <3>2. x - o \in 1 .. l /\ x = o + (x - o)
      BY ONLY <3>1
    <3>3. x - o \in 1 .. Len(seqs[m + 1]) /\ x = EndOfPiece(seqs, (m + 1) - 1) + (x - o)
      BY <2>1, <3>2 DEF o, l
    <3> QED BY <2>3, <3>3
  <2> QED BY <2>5, <2>6
<1>5. T \in SUBSET Nat
  OBVIOUS
<1> HIDE DEF T
<1>6. T = Nat
  BY ONLY <1>3, <1>4, <1>5, SetInduction
<1>7. k \in T /\ k \in 0 .. k
  BY <1>1, <1>6
<1> QED BY <1>2, <1>7 DEF T, k

(* vector::erase shifts the elements behind the erased one by one place.   *)
LEMMA RemoveAtProperties ==
  ASSUME NEW S, NEW s \in Seq(S), NEW i \in 1 .. Len(s)
  PROVE  /\ RemoveAt(s, i) \in Seq(S)
         /\ Len(RemoveAt(s, i)) = Len(s) - 1
         /\ \A j \in 1 .. Len(s) - 1 :
              RemoveAt(s, i)[j] = IF j < i THEN s[j] ELSE s[j + 1]
<1> DEFINE before == SubSeq(s, 1, i - 1)
           after == SubSeq(s, i + 1, Len(s))
<1>1. /\ before \in Seq(S) /\ Len(before) = i - 1
      /\ \A j \in 1 .. i - 1 : before[j] = s[j]
  BY SubSeqProperties, SMT
<1>2. /\ after \in Seq(S) /\ Len(after) = Len(s) - i
      /\ \A j \in 1 .. Len(s) - i : after[j] = s[i + j]
  BY SubSeqProperties, SMT
<1>3. RemoveAt(s, i) = before \o after
  BY DEF RemoveAt
<1> HIDE DEF before, after
<1>4. /\ before \o after \in Seq(S)
      /\ Len(before \o after) = Len(before) + Len(after)
      /\ \A j \in 1 .. Len(before) + Len(after) :
           (before \o after)[j] = IF j <= Len(before) THEN before[j]
                                  ELSE after[j - Len(before)]
  BY <1>1, <1>2, ConcatProperties
<1>5. RemoveAt(s, i) \in Seq(S) /\ Len(RemoveAt(s, i)) = Len(s) - 1
  BY <1>1, <1>2, <1>3, <1>4, SMT
<1>6. ASSUME NEW j \in 1 .. Len(s) - 1, j < i
      PROVE  RemoveAt(s, i)[j] = s[j]
  <2>1. j \in 1 .. i - 1 /\ j \in 1 .. Len(before) + Len(after) /\ j <= Len(before)
    BY <1>1, <1>2, <1>6, SMT
  <2> QED
    BY <1>1, <1>3, <1>4, <2>1
<1>7. ASSUME NEW j \in 1 .. Len(s) - 1, ~(j < i)
      PROVE  RemoveAt(s, i)[j] = s[j + 1]
  <2>1. /\ j \in 1 .. Len(before) + Len(after) /\ ~(j <= Len(before))
        /\ j - Len(before) = j - i + 1 /\ j - i + 1 \in 1 .. Len(s) - i
        /\ i + (j - i + 1) = j + 1
    BY <1>1, <1>2, <1>7, SMT
  <2>2. RemoveAt(s, i)[j] = after[j - i + 1]
    BY <1>3, <1>4, <2>1
  <2>3. after[j - i + 1] = s[i + (j - i + 1)]
    BY <1>2, <2>1
  <2> QED
    BY <2>1, <2>2, <2>3
<1> QED
  BY <1>5, <1>6, <1>7

(* One more element of a prefix.                                           *)
LEMMA LongerPrefix ==
  ASSUME NEW S, NEW s \in Seq(S), NEW i \in 0 .. Len(s) - 1
  PROVE  /\ SubSeq(s, 1, i + 1) = Append(SubSeq(s, 1, i), s[i + 1])
         /\ SubSeq(s, 1, i + 1) # <<>>
<1> DEFINE p == SubSeq(s, 1, i)
           q == SubSeq(s, 1, i + 1)
<1>1. i \in Nat /\ i + 1 \in 1 .. Len(s) /\ Len(s) \in Nat
  OBVIOUS
<1>2. p \in Seq(S) /\ Len(p) = i /\ \A j \in 1 .. i : p[j] = s[j]
  BY <1>1, SubSeqProperties
<1>3. q \in Seq(S) /\ Len(q) = i + 1 /\ \A j \in 1 .. i + 1 : q[j] = s[j]
  BY <1>1, SubSeqProperties
<1>4. s[i + 1] \in S
  BY <1>1
<1> HIDE DEF p, q
<1>5. /\ Append(p, s[i + 1]) \in Seq(S) /\ Len(Append(p, s[i + 1])) = i + 1
      /\ \A j \in 1 .. i : Append(p, s[i + 1])[j] = p[j]
      /\ Append(p, s[i + 1])[i + 1] = s[i + 1]
  BY <1>1, <1>2, <1>4, AppendProperties
<1>6. \A j \in 1 .. i + 1 : j \in 1 .. i \/ j = i + 1
  BY <1>1
<1>7. \A j \in 1 .. i + 1 : q[j] = Append(p, s[i + 1])[j]
  BY <1>2, <1>3, <1>5, <1>6
<1>8. q = Append(p, s[i + 1])
  BY <1>1, <1>3, <1>5, <1>7, SeqEqual
<1>9. q # <<>>
  BY <1>1, <1>3
<1> QED BY <1>8, <1>9 DEF p, q

LEMMA WholePrefix ==
  ASSUME NEW S, NEW s \in Seq(S)
  PROVE  SubSeq(s, 1, Len(s)) = s /\ SubSeq(s, 1, 0) = <<>>
<1>1. Len(s) \in Nat
  OBVIOUS
<1>2. /\ SubSeq(s, 1, Len(s)) \in Seq(S) /\ Len(SubSeq(s, 1, Len(s))) = Len(s)
      /\ \A j \in 1 .. Len(s) : SubSeq(s, 1, Len(s))[j] = s[j]
  BY <1>1, SubSeqProperties
<1>3. SubSeq(s, 1, Len(s)) = s
  BY <1>2, SeqEqual
<1>4. SubSeq(s, 1, 0) = <<>>
  OBVIOUS
<1> QED BY <1>3, <1>4
=============================================================================
