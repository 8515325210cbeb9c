--------------------------- MODULE ConfigFiles_proofs ---------------------------
(***************************************************************************)
(* What the reading of a configuration file keeps, for every file, every   *)
(* size of a read() and every table of numbers: the lines are those of the *)
(* file (LinesAsRead).                                                     *)
(*                                                                         *)
(* A recursive function is reached by induction over its argument, once it *)
(* is known that there is one: both are proved by least counterexample     *)
(* (NatSetInduction), the second by writing down the function for n + 1.   *)
(***************************************************************************)
EXTENDS ConfigFiles, FiniteSetTheorems, SequenceTheorems, NatInduction

(***************************************************************************)
(* The least element of a set of numbers.                                  *)
(***************************************************************************)
LEMMA MinIn ==
  ASSUME NEW S \in SUBSET Nat, S # {}
  PROVE  Min(S) \in S /\ \A x \in S : Min(S) <= x
BY LeastNumber DEF Min

(***************************************************************************)
(* Sequences of anything, and their elements.                              *)
(***************************************************************************)
LEMMA SeqDomain ==
  ASSUME NEW s, IsSeq(s)
  PROVE  Len(s) \in Nat /\ DOMAIN s = 1..Len(s)
BY LenProperties DEF IsSeq

(* What belongs to a sequence of some set is a sequence.                   *)
LEMMA SeqIntro ==
  ASSUME NEW S, NEW s \in Seq(S)
  PROVE  IsSeq(s)
<1> DEFINE T == {s[k] : k \in DOMAIN s}
<1>1. Len(s) \in Nat /\ DOMAIN s = 1..Len(s) /\ s \in [1..Len(s) -> S]
  BY LenProperties
<1>2. s \in [1..Len(s) -> T]
  BY <1>1
<1>3. s \in Seq(T)
  BY <1>1, <1>2, SeqDef
<1> QED
  BY <1>3 DEF IsSeq

LEMMA AppendSeq ==
  ASSUME NEW s, NEW e, IsSeq(s)
  PROVE  /\ IsSeq(Append(s, e))
         /\ DOMAIN Append(s, e) = 1..(Len(s) + 1) /\ Append(s, e) # <<>>
         /\ \A k \in DOMAIN s : Append(s, e)[k] = s[k]
         /\ Append(s, e)[Len(s) + 1] = e
<1> DEFINE T == {s[k] : k \in DOMAIN s}
           U == T \cup {e}
<1>1. s \in Seq(U)
  BY SeqMonotonic, T \subseteq U DEF IsSeq
<1>2. e \in U
  OBVIOUS
<1> HIDE DEF U
<1>3. /\ Append(s, e) \in Seq(U)
      /\ Len(Append(s, e)) = Len(s) + 1
      /\ \A k \in 1..Len(s) : Append(s, e)[k] = s[k]
      /\ Append(s, e)[Len(s) + 1] = e
  BY <1>1, <1>2, AppendProperties
<1>4. IsSeq(Append(s, e))
  BY <1>3, SeqIntro
<1>5. Len(s) \in Nat /\ DOMAIN s = 1..Len(s)
  BY SeqDomain
<1>6. DOMAIN Append(s, e) = 1..(Len(s) + 1)
  BY <1>3, <1>4, SeqDomain
<1>7. Append(s, e) # <<>>
  BY <1>3, <1>5, EmptySeq
<1> QED
  BY <1>3, <1>4, <1>5, <1>6, <1>7

LEMMA ReplaceSeq ==
  ASSUME NEW s, NEW k \in DOMAIN s, NEW e, IsSeq(s)
  PROVE  /\ IsSeq([s EXCEPT ![k] = e])
         /\ DOMAIN [s EXCEPT ![k] = e] = DOMAIN s
         /\ \A l \in DOMAIN s : [s EXCEPT ![k] = e][l] = IF l = k THEN e ELSE s[l]
<1> DEFINE T == {s[l] : l \in DOMAIN s}
           U == T \cup {e}
<1>1. s \in Seq(U)
  BY SeqMonotonic, T \subseteq U DEF IsSeq
<1>2. e \in U
  OBVIOUS
<1> HIDE DEF U
<1>3. k \in 1..Len(s)
  BY SeqDomain
<1>4. [s EXCEPT ![k] = e] \in Seq(U)
  BY <1>1, <1>2, <1>3, ExceptSeq
<1>5. IsSeq([s EXCEPT ![k] = e])
  BY <1>4, SeqIntro
<1> QED
  BY <1>5

LEMMA OneSeq ==
  ASSUME NEW e
  PROVE  IsSeq(<<e>>) /\ <<e>> # <<>> /\ DOMAIN <<e>> = {1} /\ <<e>>[1] = e
<1>1. <<e>> \in Seq({e})
  OBVIOUS
<1>2. Len(<<e>>) = 1 /\ <<e>>[1] = e
  OBVIOUS
<1>3. IsSeq(<<e>>)
  BY <1>1, SeqIntro
<1>4. DOMAIN <<e>> = {1}
  BY <1>2, <1>3, SeqDomain
<1> QED
  BY <1>2, <1>3, <1>4, EmptySeq

LEMMA NoneDomain == IsSeq(<<>>) /\ DOMAIN <<>> = {}
<1>1. <<>> \in Seq({})
  BY EmptySeq
<1>2. IsSeq(<<>>) /\ Len(<<>>) = 0
  BY <1>1, SeqIntro, EmptySeq
<1> QED
  BY <1>2, SeqDomain

(* A sequence that is not empty has a last element.                        *)
LEMMA LastIn ==
  ASSUME NEW s, IsSeq(s), s # <<>>
  PROVE  Len(s) \in DOMAIN s
BY SeqDomain, EmptySeq DEF IsSeq

LEMMA OneElement ==
  ASSUME NEW T, NEW s \in Seq(T), Len(s) = 1
  PROVE  s = <<s[1]>>
<1>1. s[1] \in T
  BY ElementOfSeq
<1>2. <<s[1]>> \in Seq(T) /\ Len(<<s[1]>>) = 1 /\ \A i \in 1..1 : <<s[1]>>[i] = s[i]
  BY <1>1
<1> QED
  BY <1>2, SeqEqual

LEMMA Regroup ==
  ASSUME NEW T, NEW x \in Seq(T), NEW b \in Seq(T), NEW e \in Seq(T)
  PROVE  (x \o b) \o e = x \o (b \o e) /\ x \o b \in Seq(T) /\ b \o e \in Seq(T)
BY ConcatAssociative, ConcatProperties

-----------------------------------------------------------------------------
(***************************************************************************)
(* FlattenSeq: the function it is defined by exists, is typed, and depends *)
(* on nothing behind its argument.                                         *)
(***************************************************************************)
IsFlatten(f, s, n) == f = [i \in 1..n |-> IF i = 1 THEN s[i] ELSE f[i - 1] \o s[i]]

LEMMA FlattenStep ==
  ASSUME NEW f, NEW s, NEW n, IsFlatten(f, s, n), NEW i \in 1..n
  PROVE  f[i] = IF i = 1 THEN s[i] ELSE f[i - 1] \o s[i]
BY Zenon DEF IsFlatten

LEMMA FlattenExists ==
  ASSUME NEW s
  PROVE  \A n \in Nat : \E f : IsFlatten(f, s, n)
<1> DEFINE S == {n \in Nat : \E f : IsFlatten(f, s, n)}
<1>1. 0 \in S
  <2> DEFINE f == [i \in 1..0 |-> 0]
  <2>1. IsFlatten(f, s, 0)
    BY DEF IsFlatten
  <2> QED
    BY <2>1
<1>2. ASSUME NEW n \in Nat, n \in S PROVE n + 1 \in S
  <2>1. PICK f : IsFlatten(f, s, n)
    BY <1>2
  <2> DEFINE e == IF n = 0 THEN s[1] ELSE f[n] \o s[n + 1]
             g == [i \in 1..(n + 1) |-> IF i <= n THEN f[i] ELSE e]
  <2>2. \A i \in 1..(n + 1) : g[i] = IF i = 1 THEN s[i] ELSE g[i - 1] \o s[i]
    <3> SUFFICES ASSUME NEW i \in 1..(n + 1)
                 PROVE  g[i] = IF i = 1 THEN s[i] ELSE g[i - 1] \o s[i]
      OBVIOUS
    <3>1. CASE i <= n
      <4>1. i \in 1..n
        BY <3>1
      <4>2. f[i] = IF i = 1 THEN s[i] ELSE f[i - 1] \o s[i]
        BY <2>1, <4>1, FlattenStep
      <4>3. g[i] = f[i] /\ (i # 1 => g[i - 1] = f[i - 1])
        BY <3>1
      <4> QED
        BY <4>2, <4>3
    <3>2. CASE i = n + 1
      BY <3>2
    <3> QED
      BY <3>1, <3>2
  <2> HIDE DEF e
  <2>3. IsFlatten(g, s, n + 1)
    BY <2>2 DEF IsFlatten
  <2> QED
    BY <2>3
<1> HIDE DEF S
<1>3. \A n \in Nat : n \in S
  BY <1>1, <1>2, NatSetInduction
<1> QED
  BY <1>3 DEF S

LEMMA FlattenDef ==
  ASSUME NEW s, Len(s) \in Nat, Len(s) # 0
  PROVE  \E f : IsFlatten(f, s, Len(s)) /\ FlattenSeq(s) = f[Len(s)]
<1> DEFINE f == CHOOSE f : f = [i \in 1..Len(s) |-> IF i = 1 THEN s[i] ELSE f[i - 1] \o s[i]]
<1>1. IsFlatten(f, s, Len(s))
  BY FlattenExists DEF IsFlatten
<1>2. FlattenSeq(s) = f[Len(s)]
  BY DEF FlattenSeq
<1> QED
  BY <1>1, <1>2

LEMMA FlattenTyped ==
  ASSUME NEW T, NEW s \in Seq(Seq(T)), NEW f, IsFlatten(f, s, Len(s))
  PROVE  \A i \in 1..Len(s) : f[i] \in Seq(T)
<1> DEFINE n == Len(s)
           S == {i \in Nat : i \in 1..n => f[i] \in Seq(T)}
<1>1. n \in Nat /\ \A i \in 1..n : s[i] \in Seq(T)
  BY LenProperties, ElementOfSeq
<1>2. 0 \in S
  OBVIOUS
<1>3. ASSUME NEW i \in Nat, i \in S PROVE i + 1 \in S
  <2> SUFFICES ASSUME i + 1 \in 1..n PROVE f[i + 1] \in Seq(T)
    OBVIOUS
  <2>1. f[i + 1] = IF i + 1 = 1 THEN s[i + 1] ELSE f[i + 1 - 1] \o s[i + 1]
    BY FlattenStep
  <2>2. s[i + 1] \in Seq(T)
    BY <1>1
  <2>3. CASE i = 0
    BY <2>1, <2>2, <2>3
  <2>4. CASE i # 0
    <3>1. i + 1 - 1 = i /\ i \in 1..n /\ i + 1 # 1
      BY <1>1, <2>4
    <3>2. f[i] \in Seq(T)
      BY <1>3, <3>1
    <3> QED
      BY <2>1, <2>2, <3>1, <3>2, ConcatProperties
  <2> QED
    BY <2>3, <2>4
<1> HIDE DEF S
<1>4. \A i \in Nat : i \in S
  BY <1>2, <1>3, NatSetInduction
<1> QED
  BY <1>1, <1>4 DEF S

LEMMA FlattenAgree ==
  ASSUME NEW s, NEW t, NEW n \in Nat, NEW m \in Nat, n <= m,
         NEW f, IsFlatten(f, s, n), NEW g, IsFlatten(g, t, m), \A i \in 1..n : s[i] = t[i]
  PROVE  \A i \in 1..n : f[i] = g[i]
<1> DEFINE S == {i \in Nat : i \in 1..n => f[i] = g[i]}
<1>1. 0 \in S
  OBVIOUS
<1>2. ASSUME NEW i \in Nat, i \in S PROVE i + 1 \in S
  <2> SUFFICES ASSUME i + 1 \in 1..n PROVE f[i + 1] = g[i + 1]
    OBVIOUS
  <2>1. f[i + 1] = IF i + 1 = 1 THEN s[i + 1] ELSE f[i + 1 - 1] \o s[i + 1]
    BY FlattenStep
  <2>2. i + 1 \in 1..m
    OBVIOUS
  <2>3. g[i + 1] = IF i + 1 = 1 THEN t[i + 1] ELSE g[i + 1 - 1] \o t[i + 1]
    BY <2>2, FlattenStep
  <2>4. i + 1 # 1 => i + 1 - 1 = i /\ i \in 1..n
    OBVIOUS
  <2> QED
    BY <1>2, <2>1, <2>3, <2>4
<1> HIDE DEF S
<1>3. \A i \in Nat : i \in S
  BY <1>1, <1>2, NatSetInduction
<1> QED
  BY <1>3 DEF S

(* A sequence more is flattened behind the others.                         *)
LEMMA FlattenAppend ==
  ASSUME NEW T, NEW s \in Seq(Seq(T)), NEW e \in Seq(T)
  PROVE  /\ FlattenSeq(Append(s, e)) = IF s = <<>> THEN e ELSE FlattenSeq(s) \o e
         /\ s # <<>> => FlattenSeq(s) \in Seq(T)
<1> DEFINE n == Len(s)
           t == Append(s, e)
<1>1. n \in Nat /\ (n = 0 <=> s = <<>>)
  BY EmptySeq, LenProperties
<1>2. Len(t) = n + 1 /\ t[n + 1] = e /\ \A i \in 1..n : t[i] = s[i]
  BY AppendProperties
<1> HIDE DEF n, t
<1>3. PICK g : IsFlatten(g, t, n + 1) /\ FlattenSeq(t) = g[n + 1]
  <2>1. Len(t) \in Nat /\ Len(t) # 0
    BY <1>1, <1>2
  <2> QED
    BY <1>2, <2>1, FlattenDef
<1>4. g[n + 1] = IF n + 1 = 1 THEN t[n + 1] ELSE g[n + 1 - 1] \o t[n + 1]
  <2>1. n + 1 \in 1..(n + 1)
    BY <1>1
  <2> QED
    BY <1>1, <1>3, <2>1, FlattenStep
<1>5. CASE s = <<>>
  BY <1>1, <1>2, <1>3, <1>4, <1>5 DEF t
<1>6. CASE s # <<>>
  <2>1. PICK f : IsFlatten(f, s, n) /\ FlattenSeq(s) = f[n]
    BY <1>1, <1>6, FlattenDef DEF n
  <2>2. n \in 1..n /\ n + 1 # 1 /\ n + 1 - 1 = n /\ n <= n + 1 /\ n + 1 \in Nat
    BY <1>1, <1>6
  <2>3. \A i \in 1..n : f[i] = g[i]
    <3> DEFINE m == n + 1
    <3>1. IsFlatten(f, s, n) /\ IsFlatten(g, t, m) /\ \A i \in 1..n : s[i] = t[i]
      BY <1>2, <1>3, <2>1
    <3>2. m \in Nat /\ n <= m
      BY <2>2
    <3> HIDE DEF m
    <3> QED
      BY <1>1, <3>1, <3>2, FlattenAgree
  <2>4. f[n] \in Seq(T)
    BY <2>1, <2>2, FlattenTyped DEF n
  <2> QED
    BY <1>2, <1>3, <1>4, <1>6, <2>1, <2>2, <2>3, <2>4 DEF t
<1> QED
  BY <1>5, <1>6

(***************************************************************************)
(* Where the elements of the flattened sequences are: behind those of the  *)
(* sequences before, in their order, and nothing else is there.            *)
(***************************************************************************)
IsLayout(at, ss) ==
  /\ IsSeq(FlattenSeq(ss))
  /\ \A i \in DOMAIN ss : \A n \in DOMAIN ss[i] :
       at[i][n] \in DOMAIN FlattenSeq(ss) /\ FlattenSeq(ss)[at[i][n]] = ss[i][n]
  /\ \A p \in DOMAIN FlattenSeq(ss) :
       \E i \in DOMAIN ss : \E n \in DOMAIN ss[i] : p = at[i][n]
  /\ \A i, j \in DOMAIN ss : \A n \in DOMAIN ss[i], m \in DOMAIN ss[j] :
       at[i][n] < at[j][m] <=> i < j \/ (i = j /\ n < m)

Elements(ss) == UNION {{ss[i][n] : n \in DOMAIN ss[i]} : i \in DOMAIN ss}

LEMMA SeqsTyped ==
  ASSUME NEW ss, IsSeq(ss), \A i \in DOMAIN ss : IsSeq(ss[i])
  PROVE  ss \in Seq(Seq(Elements(ss)))
<1> DEFINE T == Elements(ss)
<1>1. ASSUME NEW i \in DOMAIN ss PROVE ss[i] \in Seq(T)
  <2> DEFINE U == {ss[i][n] : n \in DOMAIN ss[i]}
  <2>1. ss[i] \in Seq(U)
    BY DEF IsSeq
  <2>2. U \subseteq T
    BY DEF Elements
  <2> HIDE DEF T, U
  <2> QED
    BY <2>1, <2>2, SeqMonotonic
<1>2. {ss[i] : i \in DOMAIN ss} \subseteq Seq(T)
  BY <1>1
<1> HIDE DEF T
<1>3. ss \in Seq(Seq(T))
  BY <1>2, SeqMonotonic DEF IsSeq
<1> QED
  BY <1>3 DEF T

(* One sequence more: it follows what is there.                            *)
Offset(f, i) == IF i = 1 THEN 0 ELSE Len(f[i - 1])

LEMMA FlattenGrows ==
  ASSUME NEW T, NEW ss \in Seq(Seq(T)), NEW f, IsFlatten(f, ss, Len(ss)), NEW i \in 1..Len(ss)
  PROVE  /\ f[i] \in Seq(T) /\ Offset(f, i) \in Nat /\ Len(ss[i]) \in Nat
         /\ Len(f[i]) = Offset(f, i) + Len(ss[i])
         /\ \A n \in 1..Len(ss[i]) : f[i][Offset(f, i) + n] = ss[i][n]
         /\ i # 1 => \A p \in 1..Offset(f, i) : f[i][p] = f[i - 1][p]
<1>1. f[i] = IF i = 1 THEN ss[i] ELSE f[i - 1] \o ss[i]
  BY FlattenStep
<1>2. ss[i] \in Seq(T) /\ f[i] \in Seq(T)
  BY FlattenTyped, ElementOfSeq
<1>3. Len(ss[i]) \in Nat
  BY <1>2, LenProperties
<1>4. CASE i = 1
  BY <1>1, <1>2, <1>3, <1>4 DEF Offset
<1>5. CASE i # 1
  <2>1. i - 1 \in 1..Len(ss)
    BY <1>5, LenProperties
  <2> DEFINE g == f[i - 1]
             s == ss[i]
  <2>2. g \in Seq(T) /\ Len(g) \in Nat
    BY <2>1, FlattenTyped, LenProperties
  <2>3. f[i] = g \o s /\ Offset(f, i) = Len(g)
    BY <1>1, <1>5 DEF Offset
  <2>4. s \in Seq(T) /\ Len(s) \in Nat
    BY <1>2, <1>3
  <2> HIDE DEF g, s
  <2>5. /\ Len(g \o s) = Len(g) + Len(s)
        /\ \A k \in 1..(Len(g) + Len(s)) :
             (g \o s)[k] = IF k <= Len(g) THEN g[k] ELSE s[k - Len(g)]
    BY <2>2, <2>4, ConcatProperties
  <2>6. \A n \in 1..Len(s) : (g \o s)[Len(g) + n] = s[n]
    <3> TAKE n \in 1..Len(s)
    <3>1. /\ Len(g) + n \in 1..(Len(g) + Len(s)) /\ ~(Len(g) + n <= Len(g))
          /\ Len(g) + n - Len(g) = n
      BY <2>2, <2>4
    <3> QED
      BY <2>5, <3>1
  <2>7. \A p \in 1..Len(g) : (g \o s)[p] = g[p]
    BY <2>2, <2>4, <2>5
  <2> QED
    BY <1>2, <1>5, <2>2, <2>3, <2>4, <2>5, <2>6, <2>7 DEF g, s
<1> QED
  BY <1>4, <1>5

LEMMA FlattenKeeps ==
  ASSUME NEW T, NEW ss \in Seq(Seq(T)), NEW f, IsFlatten(f, ss, Len(ss)),
         NEW i \in 1..Len(ss), NEW k \in 1..Len(ss), i <= k
  PROVE  Len(f[i]) <= Len(f[k]) /\ \A p \in 1..Len(f[i]) : f[k][p] = f[i][p]
<1> DEFINE Kept(d) == Len(f[i]) <= Len(f[i + d]) /\ \A p \in 1..Len(f[i]) : f[i + d][p] = f[i][p]
           S == {d \in Nat : i + d <= Len(ss) => Kept(d)}
<1>0. Len(ss) \in Nat /\ \A j \in 1..Len(ss) : f[j] \in Seq(T) /\ Len(f[j]) \in Nat
  BY FlattenTyped, LenProperties
<1>1. 0 \in S
  <2>1. i + 0 = i /\ Len(f[i]) \in Nat
    BY <1>0
  <2> QED
    BY <2>1
<1>2. ASSUME NEW d \in Nat, d \in S PROVE d + 1 \in S
  <2> SUFFICES ASSUME i + (d + 1) <= Len(ss) PROVE Kept(d + 1)
    OBVIOUS
  <2> DEFINE j == i + (d + 1)
  <2>1. j \in 1..Len(ss) /\ j # 1 /\ j - 1 = i + d /\ i + d <= Len(ss) /\ i + d \in 1..Len(ss)
    BY <1>0
  <2>2. Kept(d)
    BY <1>2, <2>1
  <2> HIDE DEF j, S
  <2>3. /\ Len(ss[j]) \in Nat /\ Len(f[j]) = Offset(f, j) + Len(ss[j])
        /\ \A p \in 1..Offset(f, j) : f[j][p] = f[j - 1][p]
    BY <2>1, FlattenGrows
  <2>4. Len(f[i]) \in Nat /\ Len(f[j - 1]) \in Nat /\ Offset(f, j) = Len(f[j - 1])
    BY <1>0, <2>1 DEF Offset
  <2>5. Len(f[i]) <= Len(f[j - 1]) /\ \A p \in 1..Len(f[i]) : f[j - 1][p] = f[i][p]
    BY <2>1, <2>2
  <2>6. Len(f[i]) <= Len(f[j]) /\ \A p \in 1..Len(f[i]) : p \in 1..Offset(f, j)
    <3>1. /\ Len(f[i]) \in Nat /\ Offset(f, j) \in Nat /\ Len(f[i]) <= Offset(f, j)
          /\ Len(ss[j]) \in Nat /\ Len(f[j]) = Offset(f, j) + Len(ss[j])
      BY <2>3, <2>4, <2>5
    <3> DEFINE a == Len(f[i])
               o == Offset(f, j)
    <3> HIDE DEF a, o
    <3>2. \A p \in 1..a : p \in 1..o
      BY <3>1 DEF a, o
    <3>3. Len(f[i]) <= Len(f[j])
      BY <3>1
    <3> QED
      BY <3>2, <3>3 DEF a, o
  <2>7. Len(f[i]) <= Len(f[j]) /\ \A p \in 1..Len(f[i]) : f[j][p] = f[i][p]
    BY <2>3, <2>5, <2>6
  <2> QED
    BY <2>7 DEF j
<1> HIDE DEF S
<1>3. \A d \in Nat : d \in S
  BY <1>1, <1>2, NatSetInduction
<1>4. k - i \in Nat /\ i + (k - i) = k /\ i + (k - i) <= Len(ss)
  BY <1>0
<1> QED
  BY <1>3, <1>4 DEF S

LEMMA FlattenNone == FlattenSeq(<<>>) = <<>>
<1>1. Len(<<>>) = 0
  OBVIOUS
<1> QED
  BY <1>1 DEF FlattenSeq

LEMMA FlattenPlaces ==
  ASSUME NEW ss, IsSeq(ss), \A i \in DOMAIN ss : IsSeq(ss[i])
  PROVE  \E at : IsLayout(at, ss)
<1> DEFINE T == Elements(ss)
           N == Len(ss)
<1>1. ss \in Seq(Seq(T)) /\ N \in Nat /\ DOMAIN ss = 1..N
  BY SeqsTyped, SeqDomain
<1>2. CASE N = 0
  <2>1. ss = <<>>
    BY <1>1, <1>2, EmptySeq
  <2>2. FlattenSeq(ss) = <<>> /\ IsSeq(<<>>) /\ DOMAIN <<>> = {}
    BY <2>1, FlattenNone, NoneDomain
  <2>3. IsLayout(0, ss)
    BY <2>1, <2>2 DEF IsLayout
  <2> QED
    BY <2>3
<1>3. CASE N # 0
  <2>1. PICK f : IsFlatten(f, ss, N) /\ FlattenSeq(ss) = f[N]
    BY <1>1, <1>3, FlattenDef
  <2> DEFINE F == FlattenSeq(ss)
             at == [i \in 1..N |-> [n \in 1..Len(ss[i]) |-> Offset(f, i) + n]]
  <2> HIDE DEF T, N
  <2>2. \A i \in 1..N :
          /\ f[i] \in Seq(T) /\ Offset(f, i) \in Nat /\ Len(ss[i]) \in Nat
          /\ Len(f[i]) = Offset(f, i) + Len(ss[i]) /\ Len(f[i]) \in Nat
          /\ DOMAIN ss[i] = 1..Len(ss[i])
          /\ \A n \in 1..Len(ss[i]) : f[i][Offset(f, i) + n] = ss[i][n]
    BY <1>1, <2>1, FlattenGrows, SeqDomain DEF N
  <2>3. \A i, j \in 1..N : i <= j =>
          Len(f[i]) <= Len(f[j]) /\ \A p \in 1..Len(f[i]) : f[j][p] = f[i][p]
    <3> TAKE i, j \in 1..N
    <3> HAVE i <= j
    <3>1. ss \in Seq(Seq(T)) /\ IsFlatten(f, ss, Len(ss)) /\ i \in 1..Len(ss) /\ j \in 1..Len(ss)
      BY <1>1, <2>1 DEF N
    <3> QED
      BY <3>1, FlattenKeeps
  <2>4. N \in 1..N /\ F = f[N] /\ IsSeq(F) /\ DOMAIN F = 1..Len(f[N])
    <3>1. N \in 1..N
      BY <1>1, <1>3
    <3>2. F = f[N] /\ IsSeq(F)
      BY <2>1, <2>2, <3>1, SeqIntro
    <3> HIDE DEF F
    <3> QED
      BY <3>1, <3>2, SeqDomain
  <2> HIDE DEF F
  <2>5. \A i \in 1..N : \A n \in 1..Len(ss[i]) :
          /\ Offset(f, i) + n \in 1..Len(f[i])
          /\ Offset(f, i) + n \in DOMAIN F /\ F[Offset(f, i) + n] = ss[i][n]
    <3> TAKE i \in 1..N
    <3> TAKE n \in 1..Len(ss[i])
    <3>1. Offset(f, i) + n \in 1..Len(f[i])
      BY <2>2
    <3>2. i <= N /\ Len(f[i]) <= Len(f[N]) /\ \A p \in 1..Len(f[i]) : f[N][p] = f[i][p]
      BY <1>1, <2>3, <2>4
    <3>3. Offset(f, i) + n \in 1..Len(f[N])
      BY <2>2, <2>4, <3>1, <3>2
    <3> QED
      BY <2>2, <2>4, <3>1, <3>2, <3>3
  <2>6. ASSUME NEW p \in DOMAIN F
        PROVE  \E i \in 1..N : \E n \in 1..Len(ss[i]) : p = Offset(f, i) + n
    <3> DEFINE I == {i \in 1..N : p <= Len(f[i])}
    <3>1. p \in Nat /\ p >= 1 /\ N \in I /\ I \in SUBSET Nat
      BY <2>2, <2>4
    <3>2. PICK i \in I : \A j \in I : i <= j
      BY <3>1, LeastNumber
    <3>3. p > Offset(f, i)
      <4>1. CASE i = 1
        BY <3>1, <4>1 DEF Offset
      <4>2. CASE i # 1
        <5>1. i - 1 \in 1..N /\ ~(i <= i - 1) /\ Len(f[i - 1]) \in Nat
          BY <1>1, <2>2, <4>2
        <5>2. ~(p <= Len(f[i - 1]))
          BY <3>2, <5>1
        <5> QED
          BY <3>1, <4>2, <5>1, <5>2 DEF Offset
      <4> QED
        BY <4>1, <4>2
    <3>4. p - Offset(f, i) \in 1..Len(ss[i]) /\ p = Offset(f, i) + (p - Offset(f, i))
      BY <2>2, <3>1, <3>3
    <3> QED
      BY <3>4
  <2>7. ASSUME NEW i \in 1..N, NEW j \in 1..N, i < j,
               NEW n \in 1..Len(ss[i]), NEW m \in 1..Len(ss[j])
        PROVE  Offset(f, i) + n < Offset(f, j) + m
    <3>1. j - 1 \in 1..N /\ i <= j - 1 /\ Offset(f, j) = Len(f[j - 1])
      BY <1>1, <2>7 DEF Offset
    <3>2. Len(f[i]) <= Offset(f, j)
      BY <2>3, <3>1
    <3> QED
      BY <2>2, <2>5, <3>2
  <2>8. \A i, j \in 1..N : \A n \in 1..Len(ss[i]), m \in 1..Len(ss[j]) :
          Offset(f, i) + n < Offset(f, j) + m <=> i < j \/ (i = j /\ n < m)
    <3> TAKE i, j \in 1..N
    <3> TAKE n \in 1..Len(ss[i]), m \in 1..Len(ss[j])
    <3>1. Offset(f, i) \in Nat /\ Offset(f, j) \in Nat /\ n \in Int /\ m \in Int /\ i \in Int /\ j \in Int
      BY <2>2
    <3>2. CASE i < j
      BY <2>7, <3>2
    <3>3. CASE j < i
      <4>1. Offset(f, j) + m < Offset(f, i) + n
        BY <2>7, <3>3
      <4> QED
        BY <3>1, <3>3, <4>1
    <3>4. CASE i = j
      BY <3>1, <3>4
    <3> QED
      BY <3>1, <3>2, <3>3, <3>4
  <2>9. \A i \in 1..N : \A n \in 1..Len(ss[i]) : at[i][n] = Offset(f, i) + n
    OBVIOUS
  <2> HIDE DEF at
  <2>10. DOMAIN ss = 1..N /\ \A i \in DOMAIN ss : i \in 1..N /\ DOMAIN ss[i] = 1..Len(ss[i])
    BY <1>1, <2>2
  <2>11. \A i \in DOMAIN ss : \A n \in DOMAIN ss[i] : at[i][n] \in DOMAIN F /\ F[at[i][n]] = ss[i][n]
    BY <2>5, <2>9, <2>10
  <2>12. \A p \in DOMAIN F : \E i \in DOMAIN ss : \E n \in DOMAIN ss[i] : p = at[i][n]
    <3> TAKE p \in DOMAIN F
    <3>1. PICK i \in 1..N : \E n \in 1..Len(ss[i]) : p = Offset(f, i) + n
      BY <2>6
    <3>2. PICK n \in 1..Len(ss[i]) : p = Offset(f, i) + n
      BY <3>1
    <3> QED
      BY <2>9, <2>10, <3>2
  <2>13. \A i, j \in DOMAIN ss : \A n \in DOMAIN ss[i], m \in DOMAIN ss[j] :
           at[i][n] < at[j][m] <=> i < j \/ (i = j /\ n < m)
    <3> TAKE i, j \in DOMAIN ss
    <3> TAKE n \in DOMAIN ss[i], m \in DOMAIN ss[j]
    <3>1. at[i][n] = Offset(f, i) + n /\ at[j][m] = Offset(f, j) + m
      BY <2>9, <2>10
    <3> QED
      BY <2>8, <2>10, <3>1
  <2>14. IsLayout(at, ss)
    BY <2>4, <2>11, <2>12, <2>13, Zenon DEF IsLayout, F
  <2> QED
    BY <2>14
<1> QED
  BY <1>2, <1>3

(***************************************************************************)
(* Join: what one part more adds to it.  A text is its lines, and a line   *)
(* its words, joined.                                                      *)
(***************************************************************************)
Pieces(lines, delim) == [k \in DOMAIN lines |-> IF k = 1 THEN lines[k] ELSE <<delim>> \o lines[k]]

LEMMA PiecesTyped ==
  ASSUME NEW T, NEW delim \in T, NEW lines \in Seq(Seq(T))
  PROVE  Pieces(lines, delim) \in Seq(Seq(T)) /\ Len(Pieces(lines, delim)) = Len(lines)
<1>1. /\ Len(lines) \in Nat /\ DOMAIN lines = 1..Len(lines)
      /\ \A k \in DOMAIN lines : lines[k] \in Seq(T)
  BY LenProperties, ElementOfSeq
<1>2. <<delim>> \in Seq(T)
  OBVIOUS
<1>3. \A k \in DOMAIN lines : (IF k = 1 THEN lines[k] ELSE <<delim>> \o lines[k]) \in Seq(T)
  BY <1>1, <1>2, ConcatProperties
<1>4. Pieces(lines, delim) \in [1..Len(lines) -> Seq(T)]
  BY <1>1, <1>3 DEF Pieces
<1>5. Pieces(lines, delim) \in Seq(Seq(T))
  BY <1>1, <1>4, SeqDef
<1>6. /\ DOMAIN Pieces(lines, delim) = 1..Len(lines)
      /\ DOMAIN Pieces(lines, delim) = 1..Len(Pieces(lines, delim)) /\ Len(Pieces(lines, delim)) \in Nat
  BY <1>4, <1>5, LenProperties
<1> QED
  BY <1>1, <1>5, <1>6

LEMMA PiecesAppend ==
  ASSUME NEW T, NEW delim \in T, NEW lines \in Seq(Seq(T)), NEW l \in Seq(T)
  PROVE  Pieces(Append(lines, l), delim) =
           Append(Pieces(lines, delim), IF lines = <<>> THEN l ELSE <<delim>> \o l)
<1> DEFINE n == Len(lines)
           e == IF lines = <<>> THEN l ELSE <<delim>> \o l
           p == Pieces(lines, delim)
           more == Append(lines, l)
<1>1. n \in Nat /\ DOMAIN lines = 1..n /\ (lines = <<>> <=> n = 0)
  BY LenProperties, EmptySeq
<1>2. /\ more \in Seq(Seq(T)) /\ Len(more) = n + 1 /\ more[n + 1] = l
      /\ \A k \in 1..n : more[k] = lines[k]
  BY AppendProperties
<1>3. /\ p \in Seq(Seq(T)) /\ Len(p) = n
      /\ \A k \in 1..n : p[k] = IF k = 1 THEN lines[k] ELSE <<delim>> \o lines[k]
  BY <1>1, PiecesTyped DEF Pieces
<1>4. <<delim>> \in Seq(T)
  OBVIOUS
<1>5. e \in Seq(T)
  BY <1>4, ConcatProperties
<1>6. Pieces(more, delim) \in Seq(Seq(T)) /\ Len(Pieces(more, delim)) = n + 1
  BY <1>2, PiecesTyped
<1>7. \A k \in 1..(n + 1) : Pieces(more, delim)[k] = IF k = 1 THEN more[k] ELSE <<delim>> \o more[k]
  <2>1. DOMAIN more = 1..(n + 1)
    BY <1>2, LenProperties
  <2> QED
    BY <2>1 DEF Pieces
<1> HIDE DEF p, more, e
<1>8. /\ Append(p, e) \in Seq(Seq(T)) /\ Len(Append(p, e)) = n + 1 /\ Append(p, e)[n + 1] = e
      /\ \A k \in 1..n : Append(p, e)[k] = p[k]
  BY <1>3, <1>5, AppendProperties
<1>9. ASSUME NEW k \in 1..(n + 1) PROVE Pieces(more, delim)[k] = Append(p, e)[k]
  <2>1. CASE k \in 1..n
    <3>1. Pieces(more, delim)[k] = IF k = 1 THEN more[k] ELSE <<delim>> \o more[k]
      BY <1>7
    <3>2. more[k] = lines[k] /\ Append(p, e)[k] = p[k]
      BY <1>2, <1>8, <2>1
    <3>3. p[k] = IF k = 1 THEN lines[k] ELSE <<delim>> \o lines[k]
      BY <1>3, <2>1
    <3> QED
      BY <3>1, <3>2, <3>3
  <2>2. CASE k = n + 1
    <3>1. n + 1 = 1 <=> lines = <<>>
      BY <1>1
    <3>2. Pieces(more, delim)[k] = IF k = 1 THEN more[k] ELSE <<delim>> \o more[k]
      BY <1>7
    <3> QED
      BY <1>2, <1>8, <2>2, <3>1, <3>2 DEF e
  <2>3. k \in 1..n \/ k = n + 1
    BY <1>1
  <2> QED
    BY <2>1, <2>2, <2>3
<1>10. Pieces(more, delim) = Append(p, e)
  BY <1>6, <1>8, <1>9, SeqEqual
<1> QED
  BY <1>10 DEF p, more, e

(* The text of some lines, each of them with its end.                      *)
Sofar(lines) == IF lines = <<>> THEN <<>> ELSE Text(lines) \o <<EOL>>

LEMMA JoinAppend ==
  ASSUME NEW T, NEW delim \in T, NEW lines \in Seq(Seq(T)), NEW l \in Seq(T)
  PROVE  /\ Join(lines, delim) \in Seq(T)
         /\ Join(Append(lines, l), delim) =
              IF lines = <<>> THEN l ELSE (Join(lines, delim) \o <<delim>>) \o l
<1> DEFINE e == IF lines = <<>> THEN l ELSE <<delim>> \o l
           p == Pieces(lines, delim)
           d == <<delim>>
<1>1. d \in Seq(T)
  OBVIOUS
<1> HIDE DEF d
<1>2. e \in Seq(T)
  <2>1. e = IF lines = <<>> THEN l ELSE d \o l
    BY DEF d
  <2> QED
    BY <1>1, <2>1, ConcatProperties
<1>3. p \in Seq(Seq(T)) /\ (p = <<>> <=> lines = <<>>)
  BY PiecesTyped, EmptySeq
<1>4. Join(Append(lines, l), delim) = FlattenSeq(Append(p, e)) /\ Join(lines, delim) = FlattenSeq(p)
  <2>1. \A x : Join(x, delim) = FlattenSeq(Pieces(x, delim))
    BY DEF Join, Pieces
  <2>2. Pieces(Append(lines, l), delim) = Append(p, e)
    BY PiecesAppend
  <2> HIDE DEF e
  <2>3. Join(Append(lines, l), delim) = FlattenSeq(Pieces(Append(lines, l), delim))
    BY ONLY <2>1
  <2> QED
    BY <2>1, <2>2, <2>3
<1> HIDE DEF p
<1>5. CASE lines = <<>>
  <2>1. Join(Append(lines, l), delim) = l
    BY <1>2, <1>3, <1>4, <1>5, FlattenAppend
  <2>2. Join(lines, delim) = <<>> /\ <<>> \in Seq(T)
    BY <1>3, <1>4, <1>5, FlattenNone, EmptySeq
  <2> QED
    BY <1>5, <2>1, <2>2
<1>6. CASE lines # <<>>
  <2> DEFINE j == Join(lines, delim)
  <2>1. Join(Append(lines, l), delim) = j \o (d \o l) /\ j \in Seq(T)
    BY <1>2, <1>3, <1>4, <1>6, FlattenAppend DEF d
  <2> HIDE DEF j
  <2>2. j \o (d \o l) = (j \o d) \o l
    BY <1>1, <2>1, ConcatAssociative, SMTT(30)
  <2> QED
    BY <1>6, <2>1, <2>2 DEF j, d
<1> QED
  BY <1>5, <1>6

LEMMA TextAppend ==
  ASSUME NEW T, EOL \in T, NEW lines \in Seq(Seq(T)), NEW l \in Seq(T)
  PROVE  /\ Text(Append(lines, l)) = Sofar(lines) \o l
         /\ Sofar(Append(lines, l)) = (Sofar(lines) \o l) \o <<EOL>>
         /\ Sofar(lines) \in Seq(T) /\ Append(lines, l) \in Seq(Seq(T))
<1>1. <<EOL>> \in Seq(T)
  OBVIOUS
<1>2. Append(lines, l) \in Seq(Seq(T)) /\ Append(lines, l) # <<>>
  BY AppendProperties, EmptySeq, LenProperties
<1>3. /\ Text(lines) \in Seq(T)
      /\ Text(Append(lines, l)) = IF lines = <<>> THEN l ELSE (Text(lines) \o <<EOL>>) \o l
  BY JoinAppend DEF Text
<1>4. Sofar(lines) \in Seq(T) /\ Text(Append(lines, l)) = Sofar(lines) \o l
  <2>1. CASE lines = <<>>
    BY <1>3, <2>1, ConcatEmptySeq, EmptySeq DEF Sofar
  <2>2. CASE lines # <<>>
    BY <1>1, <1>3, <2>2, ConcatProperties DEF Sofar
  <2> QED
    BY <2>1, <2>2
<1> QED
  BY <1>2, <1>4 DEF Sofar

(***************************************************************************)
(* The cuts that get_next_line and read() make.                            *)
(***************************************************************************)
LEMMA SplitAtLine ==
  ASSUME NEW T, NEW s \in Seq(T), newline(s) # 0
  PROVE  /\ before(s) \in Seq(T) /\ after(s) \in Seq(T)
         /\ s = (before(s) \o <<EOL>>) \o after(s)
<1> DEFINE I == {i \in 1..Len(s) : s[i] = EOL}
           n == newline(s)
           m == Len(s)
<1>1. m \in Nat
  BY LenProperties
<1>2. n = IF I # {} THEN Min(I) ELSE 0
  BY DEF newline, SelectInSeq
<1>3. n \in I
  <2>1. I # {}
    BY <1>2
  <2>2. I \in SUBSET Nat
    OBVIOUS
  <2> HIDE DEF I
  <2> QED
    BY <1>2, <2>1, <2>2, MinIn
<1>4. n \in 1..m /\ s[n] = EOL
  BY <1>3
<1> HIDE DEF n, I, m
<1>5. /\ SubSeq(s, 1, n - 1) \in Seq(T) /\ SubSeq(s, n + 1, m) \in Seq(T)
      /\ SubSeq(s, n, n) \in Seq(T)
  BY <1>1, <1>4, SubSeqProperties DEF m
<1>6. SubSeq(s, n, n) = <<EOL>>
  <2>1. Len(SubSeq(s, n, n)) = 1 /\ SubSeq(s, n, n)[1] = EOL
    BY <1>1, <1>4, SubSeqProperties DEF m
  <2> QED
    BY <1>5, <2>1, OneElement
<1>7. SubSeq(s, 1, n - 1) \o SubSeq(s, n - 1 + 1, n) = SubSeq(s, 1, n)
  <2>1. 1 \in 1..(m + 1) /\ n - 1 \in (1 - 1)..m /\ n \in (n - 1)..m
    BY <1>1, <1>4
  <2> QED
    BY <2>1, ConcatAdjacentSubSeq DEF m
<1>8. SubSeq(s, 1, n) \o SubSeq(s, n + 1, m) = SubSeq(s, 1, m)
  <2>1. 1 \in 1..(m + 1) /\ n \in (1 - 1)..m /\ m \in n..m
    BY <1>1, <1>4
  <2> QED
    BY <2>1, ConcatAdjacentSubSeq DEF m
<1>9. SubSeq(s, 1, m) = s
  BY SubSeqFull DEF m
<1>10. n - 1 + 1 = n
  BY <1>1, <1>4
<1> QED
  BY <1>5, <1>6, <1>7, <1>8, <1>9, <1>10 DEF before, after, n, m

LEMMA SplitAt ==
  ASSUME NEW T, NEW s \in Seq(T), NEW n \in 0..Len(s)
  PROVE  /\ SubSeq(s, 1, n) \in Seq(T) /\ SubSeq(s, n + 1, Len(s)) \in Seq(T)
         /\ s = SubSeq(s, 1, n) \o SubSeq(s, n + 1, Len(s))
<1> DEFINE m == Len(s)
<1>1. m \in Nat
  BY LenProperties
<1>2. SubSeq(s, 1, n) \in Seq(T) /\ SubSeq(s, n + 1, m) \in Seq(T)
  BY <1>1, SubSeqProperties
<1>3. SubSeq(s, 1, n) \o SubSeq(s, n + 1, m) = SubSeq(s, 1, m)
  <2>1. 1 \in 1..(m + 1) /\ n \in (1 - 1)..m /\ m \in n..m
    BY <1>1
  <2> QED
    BY <2>1, ConcatAdjacentSubSeq
<1> QED
  BY <1>2, <1>3, SubSeqFull

LEMMA LineTakenTyped ==
  ASSUME NEW T, EOL \in T, NEW lines \in Seq(Seq(T)), NEW start \in Seq(T), NEW s \in Seq(T),
         newline(s) # 0
  PROVE  Append(lines, start \o before(s)) \in Seq(Seq(T)) /\ after(s) \in Seq(T)
<1> DEFINE b == before(s)
           l == start \o b
<1>1. b \in Seq(T) /\ after(s) \in Seq(T)
  BY SplitAtLine
<1> HIDE DEF b
<1>2. l \in Seq(T)
  BY <1>1, ConcatProperties
<1> HIDE DEF l
<1>3. Append(lines, l) \in Seq(Seq(T))
  BY <1>2, AppendProperties
<1> QED
  BY <1>1, <1>3 DEF l, b

(* A line is taken from start and s: nothing is lost, nothing moves.       *)
LEMMA LineTaken ==
  ASSUME NEW T, EOL \in T, NEW lines \in Seq(Seq(T)), NEW start \in Seq(T), NEW s \in Seq(T),
         newline(s) # 0
  PROVE  Sofar(Append(lines, start \o before(s))) \o after(s) = (Sofar(lines) \o start) \o s
<1> DEFINE b == before(s)
           e == <<EOL>>
           be == b \o e
           a == after(s)
           x == Sofar(lines)
           l == start \o b
           now == x \o start
           more == Append(lines, l)
<1>1. b \in Seq(T) /\ a \in Seq(T) /\ s = be \o a
  BY SplitAtLine
<1>2. x \in Seq(T)
  <2>1. <<>> \in Seq(T)
    BY EmptySeq
  <2> QED
    BY <2>1, TextAppend
<1>3. e \in Seq(T)
  OBVIOUS
<1> HIDE DEF b, e, a, x
<1>4. now \o b = x \o l /\ now \in Seq(T) /\ l \in Seq(T)
  <2>1. b \in Seq(T) /\ x \in Seq(T)
    BY <1>1, <1>2
  <2> QED
    BY <2>1, Regroup, SMTT(30)
<1> HIDE DEF l, now
<1>5. Sofar(more) = (x \o l) \o e /\ more \in Seq(Seq(T))
  <2>1. l \in Seq(T)
    BY <1>4
  <2>2. Sofar(Append(lines, l)) = (Sofar(lines) \o l) \o <<EOL>> /\ Append(lines, l) \in Seq(Seq(T))
    BY <2>1, TextAppend
  <2> QED
    BY <2>2 DEF x, e
<1>6. (now \o b) \o e = now \o be /\ be \in Seq(T)
  <2>1. now \in Seq(T) /\ b \in Seq(T) /\ e \in Seq(T)
    BY <1>1, <1>3, <1>4
  <2> QED
    BY <2>1, Regroup, SMTT(30)
<1> HIDE DEF be, more
<1>7. (now \o be) \o a = now \o (be \o a)
  <2>1. now \in Seq(T) /\ be \in Seq(T) /\ a \in Seq(T)
    BY <1>1, <1>4, <1>6
  <2> QED
    BY <2>1, Regroup, SMTT(30)
<1>8. Sofar(more) \o a = now \o s
  BY <1>1, <1>4, <1>5, <1>6, <1>7
<1> QED
  BY <1>8 DEF more, now, l, a, b, x

-----------------------------------------------------------------------------
(***************************************************************************)
(* The invariant of the reading: the lines taken, what is left of the last *)
(* piece and what read() has not returned are together the file.           *)
(***************************************************************************)
(* The tokens of the file and the new line.                                *)
Tokens == {file.text[k] : k \in DOMAIN file.text} \cup {EOL}

Untouched == mGnl = <<>> /\ remain_string = <<>> /\ unread = file.text
Accounted ==
  /\ mGnl \in Seq(Seq(Tokens)) /\ remain_string \in Seq(Tokens) /\ unread \in Seq(Tokens)
  /\ (Sofar(mGnl) \o remain_string) \o unread = file.text

ReadingInv ==
  /\ file \in Files
  /\ pc \in {"main", "ReadConfigFile"} => Untouched
  /\ pc = "SetGnl" /\ file.kind = "text" => Accounted
  /\ pc = "Step1" /\ file.kind = "text" => Text(mGnl) = file.text

LEMMA TokensFixed ==
  ASSUME UNCHANGED file
  PROVE  Tokens' = Tokens
BY DEF Tokens

LEMMA BeginAccounted ==
  ASSUME file \in Files, Untouched
  PROVE  Accounted
<1> DEFINE T == {file.text[k] : k \in DOMAIN file.text}
<1>1. file.text \in Seq(T)
  BY FilesAssumption DEF IsSeq
<1>2. file.text \in Seq(Tokens)
  BY <1>1, SeqMonotonic, T \subseteq Tokens DEF Tokens
<1>3. <<>> \in Seq(Tokens) /\ <<>> \in Seq(Seq(Tokens))
  BY EmptySeq
<1>4. Sofar(<<>>) = <<>> /\ <<>> \o <<>> = <<>> /\ <<>> \o file.text = file.text
  BY <1>2, <1>3, ConcatEmptySeq DEF Sofar
<1> QED
  BY <1>2, <1>3, <1>4 DEF Untouched, Accounted

LEMMA InitReading ==
  Init => ReadingInv
BY DEF Init, ReadingInv, Untouched

LEMMA NextLineKeeps ==
  ASSUME ReadingInv, NextLine
  PROVE  ReadingInv'
<1> SUFFICES ASSUME file.kind = "text" PROVE Accounted'
  BY DEF ReadingInv, NextLine
<1>1. Accounted
  BY DEF ReadingInv, NextLine
<1>2. EOL \in Tokens /\ <<>> \in Seq(Tokens)
  BY EmptySeq DEF Tokens
<1>3. before(remain_string) \in Seq(Tokens)
  BY <1>1, SplitAtLine DEF Accounted, NextLine
<1>4. <<>> \o before(remain_string) = before(remain_string)
  BY <1>3, ConcatEmptySeq
<1> DEFINE x == Sofar(mGnl)
<1>5. x \in Seq(Tokens)
  BY <1>1, <1>2, TextAppend DEF Accounted
<1>6. /\ mGnl' \in Seq(Seq(Tokens)) /\ remain_string' \in Seq(Tokens)
      /\ Sofar(mGnl') \o remain_string' = (x \o <<>>) \o remain_string
  <2> DEFINE none == <<>>
  <2>1. none \in Seq(Tokens) /\ none \o before(remain_string) = before(remain_string)
    BY <1>2, <1>4
  <2> HIDE DEF none
  <2>2. /\ EOL \in Tokens /\ mGnl \in Seq(Seq(Tokens)) /\ none \in Seq(Tokens)
        /\ remain_string \in Seq(Tokens) /\ newline(remain_string) # 0
    BY <1>1, <1>2, <2>1 DEF Accounted, NextLine
  <2> DEFINE T == Tokens
             b == before(remain_string)
             a == after(remain_string)
  <2>3. /\ Append(mGnl, none \o b) \in Seq(Seq(T)) /\ a \in Seq(T)
    BY <2>2, LineTakenTyped
  <2>4. Sofar(Append(mGnl, none \o b)) \o a = (Sofar(mGnl) \o none) \o remain_string
    BY <2>2, LineTaken, SMTT(30)
  <2>5. mGnl' = Append(mGnl, before(remain_string)) /\ remain_string' = after(remain_string)
    BY DEF NextLine
  <2>6. Append(mGnl, none \o before(remain_string)) = mGnl'
    BY <2>1, <2>5
  <2>7. x = Sofar(mGnl)
    OBVIOUS
  <2> HIDE DEF x
  <2>8. mGnl' \in Seq(Seq(Tokens)) /\ remain_string' \in Seq(Tokens)
    BY <2>3, <2>5, <2>6
  <2>9. Sofar(mGnl') \o remain_string' = (x \o none) \o remain_string
    BY <2>4, <2>5, <2>6, <2>7
  <2> QED
    BY <2>8, <2>9 DEF none
<1>7. x \o <<>> = x
  BY <1>5, ConcatEmptySeq
<1>8. Sofar(mGnl)' = Sofar(mGnl')
  BY DEF Sofar, Text
<1> QED
  BY <1>1, <1>6, <1>7, <1>8, TokensFixed DEF Accounted, NextLine

LEMMA ReadPieceKeeps ==
  ASSUME ReadingInv, NEW n \in 1..BUFFER_SIZE_GNL, ReadPiece(n)
  PROVE  ReadingInv'
<1> DEFINE buffer == SubSeq(unread, 1, n)
           rest == SubSeq(unread, n + 1, Len(unread))
           now == Sofar(mGnl) \o remain_string
<1>1. Accounted
  BY DEF ReadingInv, ReadPiece
<1>2. n \in 0..Len(unread)
  BY <1>1, LenProperties, BufferAssumption DEF Accounted, ReadPiece
<1>3. buffer \in Seq(Tokens) /\ rest \in Seq(Tokens) /\ unread = buffer \o rest
  BY <1>1, <1>2, SplitAt DEF Accounted
<1>4. EOL \in Tokens
  BY DEF Tokens
<1>5. Sofar(mGnl) \in Seq(Tokens)
  BY <1>1, <1>4, EmptySeq, TextAppend DEF Accounted
<1>6. Sofar(mGnl)' = Sofar(mGnl')
  BY DEF Sofar, Text
<1>7. unread' = rest /\ UNCHANGED <<pc, file>> /\ file.kind = "text" /\ pc = "SetGnl"
  BY DEF ReadPiece
<1>8. (now \o buffer) \o rest = now \o (buffer \o rest)
  <2>1. now \in Seq(Tokens)
    BY <1>1, <1>5, ConcatProperties DEF Accounted
  <2> HIDE DEF now, buffer, rest
  <2> QED
    BY <1>3, <2>1, Regroup, SMTT(30)
<1> HIDE DEF now
<1>9. CASE newline(buffer) # 0
  <2>1. /\ mGnl' = Append(mGnl, remain_string \o before(buffer))
        /\ remain_string' = after(buffer)
    BY <1>9 DEF ReadPiece
  <2> HIDE DEF buffer, rest
  <2>2. /\ EOL \in Tokens /\ mGnl \in Seq(Seq(Tokens)) /\ remain_string \in Seq(Tokens)
        /\ buffer \in Seq(Tokens) /\ newline(buffer) # 0
    BY <1>1, <1>3, <1>4, <1>9 DEF Accounted
  <2>3. /\ Append(mGnl, remain_string \o before(buffer)) \in Seq(Seq(Tokens))
        /\ after(buffer) \in Seq(Tokens)
    BY <2>2, LineTakenTyped
  <2>4. Sofar(Append(mGnl, remain_string \o before(buffer))) \o after(buffer)
          = (Sofar(mGnl) \o remain_string) \o buffer
    BY <2>2, LineTaken, SMTT(30)
  <2>5. Accounted'
    BY <1>1, <1>3, <1>6, <1>7, <1>8, <2>1, <2>3, <2>4, TokensFixed DEF Accounted, now
  <2> QED
    BY <1>7, <2>5 DEF ReadingInv
<1>10. CASE newline(buffer) = 0
  <2>1. mGnl' = mGnl /\ remain_string' = remain_string \o buffer
    BY <1>10 DEF ReadPiece
  <2> HIDE DEF buffer, rest
  <2>2. remain_string \in Seq(Tokens) /\ buffer \in Seq(Tokens)
    BY <1>1, <1>3 DEF Accounted
  <2>3. /\ (Sofar(mGnl) \o remain_string) \o buffer = Sofar(mGnl) \o (remain_string \o buffer)
        /\ remain_string \o buffer \in Seq(Tokens)
    BY <1>5, <2>2, Regroup, SMTT(30)
  <2>4. remain_string' \in Seq(Tokens) /\ Sofar(mGnl) \o (remain_string \o buffer) = now \o buffer
    BY <2>1, <2>3 DEF now
  <2>5. Accounted'
    BY <1>1, <1>3, <1>6, <1>7, <1>8, <2>1, <2>4, TokensFixed DEF Accounted, now
  <2> QED
    BY <1>7, <2>5 DEF ReadingInv
<1> QED
  BY <1>9, <1>10

LEMMA ReadEndKeeps ==
  ASSUME ReadingInv, ReadEnd
  PROVE  ReadingInv'
<1> SUFFICES ASSUME file.kind = "text" PROVE Text(mGnl') = file.text
  BY DEF ReadingInv, ReadEnd, Text
<1>1. Accounted
  BY DEF ReadingInv, ReadEnd
<1>2. EOL \in Tokens
  BY DEF Tokens
<1>3. Text(mGnl') = Sofar(mGnl) \o remain_string /\ Sofar(mGnl) \in Seq(Tokens)
  BY <1>1, <1>2, TextAppend DEF Accounted, ReadEnd
<1>4. Sofar(mGnl) \o remain_string \in Seq(Tokens)
  BY <1>1, <1>3, ConcatProperties DEF Accounted
<1>5. (Sofar(mGnl) \o remain_string) \o <<>> = Sofar(mGnl) \o remain_string
  BY <1>4, ConcatEmptySeq
<1> QED
  BY <1>1, <1>3, <1>5 DEF Accounted, ReadEnd

LEMMA StepReading ==
  ReadingInv /\ [Next]_configVars => ReadingInv'
<1> SUFFICES ASSUME ReadingInv, [Next]_configVars PROVE ReadingInv'
  OBVIOUS
<1>1. CASE main
  BY <1>1 DEF main, readVars, ReadingInv, Untouched
<1>2. CASE ReadConfigFile
  <2>1. Accounted
    BY <1>2, BeginAccounted DEF ReadConfigFile, ReadingInv
  <2>2. Accounted'
    BY <1>2, <2>1, TokensFixed DEF ReadConfigFile, Accounted, Sofar, Text
  <2> QED
    BY <1>2, <2>2 DEF ReadConfigFile, ReadingInv
<1>3. CASE NextLine
  BY <1>3, NextLineKeeps
<1>4. ASSUME NEW n \in 1..BUFFER_SIZE_GNL, ReadPiece(n) PROVE ReadingInv'
  BY <1>4, ReadPieceKeeps
<1>5. CASE ReadEnd
  BY <1>5, ReadEndKeeps
<1>6. CASE ReadFails
  BY <1>6 DEF ReadFails, ReadingInv
<1>7. CASE Step1
  BY <1>7 DEF Step1, readVars, ReadingInv, Text
<1>8. CASE Step2Server
  BY <1>8 DEF Step2Server, readVars, ReadingInv
<1>9. CASE Step2
  BY <1>9 DEF Step2, readVars, ReadingInv
<1>10. ASSUME NEW reading, Keep(reading), pc = "SetConfigs", UNCHANGED readVars
       PROVE  ReadingInv'
  <2>1. pc' \in {"SetConfigs", "configured", "crashed"}
    BY <1>10 DEF Keep
  <2> QED
    BY <1>10, <2>1 DEF ReadingInv, readVars
<1>11. CASE ParseServer
  BY <1>10, <1>11 DEF ParseServer
<1>12. CASE ParseLocation
  BY <1>10, <1>12 DEF ParseLocation
<1>13. CASE ParseEnd
  BY <1>13 DEF ParseEnd, readVars, ReadingInv
<1>14. CASE UNCHANGED configVars
  BY <1>14, TokensFixed DEF configVars, readVars, ReadingInv, Untouched, Accounted, Sofar, Text
<1> QED
  BY <1>1, <1>2, <1>3, <1>4, <1>5, <1>6, <1>7, <1>8, <1>9, <1>11, <1>12, <1>13, <1>14
  DEF Next, Read, Parse

(* Nothing of the file is lost, doubled or moved while it is read.         *)
THEOREM ReadingInvariant == Spec => []ReadingInv
BY InitReading, StepReading, PTL DEF Spec

(* The lines are those of the file, whatever the pieces read() returns it  *)
(* in, a last line without a new line behind it included.                  *)
THEOREM LinesAsReadCorrect == Spec => []LinesAsRead
<1>1. ReadingInv => LinesAsRead
  BY DEF ReadingInv, LinesAsRead
<1> QED
  BY <1>1, ReadingInvariant, PTL
-----------------------------------------------------------------------------
(***************************************************************************)
(* The reading of a block is a fold over its lines: the function that the  *)
(* fold is defined by exists, and runs through them from the first to the  *)
(* last.  One operator stands for the turns of both loops.                 *)
(***************************************************************************)
Turn(kind, b, blank, uninitialised, reading, k) ==
  IF kind = "server"
  THEN IF ~isCorrespondedServerDirective(k, b) \/ Len(Words(k)) <= 1 THEN reading
       ELSE Directive(reading, Words(k), ServerDirectives, uninitialised)
  ELSE CASE reading.result # "ok" -> reading
         [] reading.result = "ok" /\ Words(k) = <<>> -> [reading EXCEPT !.result = blank]
         [] OTHER -> Directive(reading, Words(k), LocationDirectives, uninitialised)

IsTurns(f, n, lines, base, kind, b, blank, uninitialised) ==
  f = [s \in SUBSET (1..n) |->
         IF s = {} THEN base
         ELSE Turn(kind, b, blank, uninitialised, f[s \ {Max(s)}], lines[Max(s)])]

LEMMA MaxLast ==
  ASSUME NEW n \in Nat, NEW s \in SUBSET (1..n), n \in s
  PROVE  Max(s) = n
<1>1. \A y \in s : n >= y
  OBVIOUS
<1>2. \A x \in s : (\A y \in s : x >= y) => x = n
  BY <1>1
<1> QED
  BY <1>1, <1>2 DEF Max

LEMMA TurnsExist ==
  ASSUME NEW lines, NEW base, NEW kind, NEW b, NEW blank, NEW uninitialised
  PROVE  \A n \in Nat : \E f : IsTurns(f, n, lines, base, kind, b, blank, uninitialised)
<1> DEFINE turn(reading, k) == Turn(kind, b, blank, uninitialised, reading, k)
           S == {n \in Nat : \E f : IsTurns(f, n, lines, base, kind, b, blank, uninitialised)}
<1>1. 0 \in S
  <2> DEFINE f == [s \in SUBSET (1..0) |-> base]
  <2>1. \A s \in SUBSET (1..0) : s = {}
    OBVIOUS
  <2>2. IsTurns(f, 0, lines, base, kind, b, blank, uninitialised)
    BY <2>1 DEF IsTurns
  <2> QED
    BY <2>2
<1>2. ASSUME NEW n \in Nat, n \in S PROVE n + 1 \in S
  <2>1. PICK f : IsTurns(f, n, lines, base, kind, b, blank, uninitialised)
    BY <1>2
  <2> DEFINE g == [s \in SUBSET (1..(n + 1)) |->
                     IF n + 1 \in s THEN turn(f[s \ {n + 1}], lines[n + 1]) ELSE f[s]]
  <2>2. ASSUME NEW s \in SUBSET (1..(n + 1))
        PROVE  g[s] = IF s = {} THEN base ELSE turn(g[s \ {Max(s)}], lines[Max(s)])
    <3>1. CASE n + 1 \in s
      <4>1. Max(s) = n + 1
        BY <3>1, MaxLast
      <4>2. s \ {n + 1} \in SUBSET (1..(n + 1)) /\ n + 1 \notin s \ {n + 1}
        OBVIOUS
      <4>3. g[s \ {n + 1}] = f[s \ {n + 1}]
        BY <4>2
      <4>4. g[s] = turn(f[s \ {n + 1}], lines[n + 1])
        BY <3>1
      <4> HIDE DEF g, turn
      <4> QED
        BY <3>1, <4>1, <4>3, <4>4
    <3>2. CASE n + 1 \notin s
      <4>1. s \in SUBSET (1..n)
        BY <3>2
      <4>2. f[s] = IF s = {} THEN base ELSE turn(f[s \ {Max(s)}], lines[Max(s)])
        BY <2>1, <4>1, Zenon DEF IsTurns
      <4>3. s \ {Max(s)} \in SUBSET (1..(n + 1)) /\ n + 1 \notin s \ {Max(s)}
        BY <3>2
      <4>4. g[s] = f[s] /\ g[s \ {Max(s)}] = f[s \ {Max(s)}]
        BY <3>2, <4>3
      <4> HIDE DEF g, turn
      <4> QED
        BY <4>2, <4>4
    <3> QED
      BY <3>1, <3>2
  <2> HIDE DEF turn
  <2>3. g = [s \in SUBSET (1..(n + 1)) |-> IF s = {} THEN base ELSE turn(g[s \ {Max(s)}], lines[Max(s)])]
    BY <2>2
  <2> HIDE DEF g
  <2>4. IsTurns(g, n + 1, lines, base, kind, b, blank, uninitialised)
    BY <2>3 DEF IsTurns, turn
  <2> QED
    BY <2>4
<1> HIDE DEF S
<1>3. \A n \in Nat : n \in S
  BY <1>1, <1>2, NatSetInduction
<1> QED
  BY <1>3 DEF S

LEMMA ServerTurns ==
  ASSUME NEW b, NEW n \in Nat, DOMAIN Inside(b) = 1..n, NEW blank, NEW uninitialised
  PROVE  \E f : /\ IsTurns(f, n, Inside(b), Reading(ConfigFile), "server", b, blank, uninitialised)
                /\ parsingserverBlock(b, uninitialised) = f[1..n]
<1> DEFINE base == Reading(ConfigFile)
           lines == Inside(b)
           Body(r, k) == IF ~isCorrespondedServerDirective(k, b) \/ Len(Words(k)) <= 1 THEN r
                         ELSE Directive(r, Words(k), ServerDirectives, uninitialised)
           f == CHOOSE f : f = [s \in SUBSET (1..n) |->
                  IF s = {} THEN base ELSE Body(f[s \ {Max(s)}], lines[Max(s)])]
<1>1. \A r, k : Turn("server", b, blank, uninitialised, r, k) = Body(r, k)
  BY DEF Turn
<1>2. parsingserverBlock(b, uninitialised) = f[1..n]
  BY DEF parsingserverBlock, FoldLeft, MapThenFoldSet
<1> HIDE DEF Body
<1>3. PICK g : IsTurns(g, n, lines, base, "server", b, blank, uninitialised)
  BY TurnsExist
<1> HIDE DEF lines, base
<1>4. g = [s \in SUBSET (1..n) |-> IF s = {} THEN base ELSE Body(g[s \ {Max(s)}], lines[Max(s)])]
  <2>1. g = [s \in SUBSET (1..n) |-> IF s = {} THEN base
               ELSE Turn("server", b, blank, uninitialised, g[s \ {Max(s)}], lines[Max(s)])]
    BY <1>3, Zenon DEF IsTurns
  <2>2. \A s \in SUBSET (1..n) :
          (IF s = {} THEN base
           ELSE Turn("server", b, blank, uninitialised, g[s \ {Max(s)}], lines[Max(s)])) =
          (IF s = {} THEN base ELSE Body(g[s \ {Max(s)}], lines[Max(s)]))
    BY <1>1
  <2>3. [s \in SUBSET (1..n) |-> IF s = {} THEN base
               ELSE Turn("server", b, blank, uninitialised, g[s \ {Max(s)}], lines[Max(s)])]
        = [s \in SUBSET (1..n) |-> IF s = {} THEN base ELSE Body(g[s \ {Max(s)}], lines[Max(s)])]
    BY <2>2, Zenon
  <2> QED
    BY <2>1, <2>3, Zenon
<1>5. f = [s \in SUBSET (1..n) |-> IF s = {} THEN base ELSE Body(f[s \ {Max(s)}], lines[Max(s)])]
  BY <1>4, Zenon
<1> HIDE DEF f
<1>6. IsTurns(f, n, lines, base, "server", b, blank, uninitialised)
  <2>1. \A s \in SUBSET (1..n) :
          (IF s = {} THEN base
           ELSE Turn("server", b, blank, uninitialised, f[s \ {Max(s)}], lines[Max(s)])) =
          (IF s = {} THEN base ELSE Body(f[s \ {Max(s)}], lines[Max(s)]))
    BY <1>1
  <2>2. [s \in SUBSET (1..n) |-> IF s = {} THEN base
               ELSE Turn("server", b, blank, uninitialised, f[s \ {Max(s)}], lines[Max(s)])]
        = [s \in SUBSET (1..n) |-> IF s = {} THEN base ELSE Body(f[s \ {Max(s)}], lines[Max(s)])]
    BY <2>1, Zenon
  <2> QED
    BY <1>5, <2>2, Zenon DEF IsTurns
<1> QED
  BY <1>2, <1>6, Zenon DEF lines, base

(* A location begins as a copy of its server, with a path of its own.      *)
Moved(config, path) == [config EXCEPT !.mLocationPath = path]

LEMMA LocationTurns ==
  ASSUME NEW b, NEW n \in Nat, DOMAIN Inside(b) = 1..n, NEW config, NEW blank, NEW uninitialised,
         NEW base, base = Reading(Moved(config, b.mLocationPath)),
         NEW read, read = parsingLocationBlock(config, b, blank, uninitialised)
  PROVE  \E f : /\ IsTurns(f, n, Inside(b), base, "location", b, blank, uninitialised)
                /\ read = f[1..n]
<1> DEFINE lines == Inside(b)
           Body(r, k) == CASE r.result # "ok" -> r
                           [] r.result = "ok" /\ Words(k) = <<>> -> [r EXCEPT !.result = blank]
                           [] OTHER -> Directive(r, Words(k), LocationDirectives, uninitialised)
           f == CHOOSE f : f = [s \in SUBSET (1..n) |->
                  IF s = {} THEN base ELSE Body(f[s \ {Max(s)}], lines[Max(s)])]
<1>1. \A r, k : Turn("location", b, blank, uninitialised, r, k) = Body(r, k)
  BY DEF Turn
<1>2. parsingLocationBlock(config, b, blank, uninitialised) = f[1..n]
  BY DEF parsingLocationBlock, Moved, FoldLeft, MapThenFoldSet
<1> HIDE DEF Body
<1>3. PICK g : IsTurns(g, n, lines, base, "location", b, blank, uninitialised)
  BY TurnsExist
<1> HIDE DEF lines
<1>4. g = [s \in SUBSET (1..n) |-> IF s = {} THEN base ELSE Body(g[s \ {Max(s)}], lines[Max(s)])]
  <2>1. g = [s \in SUBSET (1..n) |-> IF s = {} THEN base
               ELSE Turn("location", b, blank, uninitialised, g[s \ {Max(s)}], lines[Max(s)])]
    BY <1>3, Zenon DEF IsTurns
  <2>2. \A s \in SUBSET (1..n) :
          (IF s = {} THEN base
           ELSE Turn("location", b, blank, uninitialised, g[s \ {Max(s)}], lines[Max(s)])) =
          (IF s = {} THEN base ELSE Body(g[s \ {Max(s)}], lines[Max(s)]))
    BY <1>1
  <2>3. [s \in SUBSET (1..n) |-> IF s = {} THEN base
               ELSE Turn("location", b, blank, uninitialised, g[s \ {Max(s)}], lines[Max(s)])]
        = [s \in SUBSET (1..n) |-> IF s = {} THEN base ELSE Body(g[s \ {Max(s)}], lines[Max(s)])]
    BY <2>2, Zenon
  <2> QED
    BY <2>1, <2>3, Zenon
<1>5. f = [s \in SUBSET (1..n) |-> IF s = {} THEN base ELSE Body(f[s \ {Max(s)}], lines[Max(s)])]
  BY <1>4, Zenon
<1> HIDE DEF f
<1>6. IsTurns(f, n, lines, base, "location", b, blank, uninitialised)
  <2>1. \A s \in SUBSET (1..n) :
          (IF s = {} THEN base
           ELSE Turn("location", b, blank, uninitialised, f[s \ {Max(s)}], lines[Max(s)])) =
          (IF s = {} THEN base ELSE Body(f[s \ {Max(s)}], lines[Max(s)]))
    BY <1>1
  <2>2. [s \in SUBSET (1..n) |-> IF s = {} THEN base
               ELSE Turn("location", b, blank, uninitialised, f[s \ {Max(s)}], lines[Max(s)])]
        = [s \in SUBSET (1..n) |-> IF s = {} THEN base ELSE Body(f[s \ {Max(s)}], lines[Max(s)])]
    BY <2>1, Zenon
  <2> QED
    BY <1>5, <2>2, Zenon DEF IsTurns
<1> QED
  BY <1>2, <1>6, Zenon DEF lines

(***************************************************************************)
(* What every configuration is: all the members of ConfigFile, and a port  *)
(* of 16 bits.  A directive keeps it, and so does the reading of a block.  *)
(***************************************************************************)
Ports == {p \in Nat : p < 65536}
ConfigOK(config) == DOMAIN config = DOMAIN ConfigFile /\ config.mPort \in Ports
ReadingOK(reading) ==
  DOMAIN reading = {"config", "exist", "result"} /\ ConfigOK(reading.config)

LEMMA AtoiInt ==
  ASSUME NEW word
  PROVE  atoi(word) \in Int
BY AtoiAssumption DEF atoi

LEMMA Bits16 ==
  ASSUME NEW x \in Int
  PROVE  x % 65536 \in Nat /\ x % 65536 < 65536
OBVIOUS

LEMMA PortValue ==
  ASSUME NEW args, NEW uninitialised
  PROVE  Value("port", args, uninitialised) \in Ports
<1> DEFINE x == atoi(args[1])
<1>1. /\ "port" \notin {"root", "error_page", "auth_basic_user_file"}
      /\ "port" \notin {"timeout", "client_max_body_size"}
      /\ "port" # "autoindex" /\ "port" # "index_pages" /\ "port" \notin Lists
  BY DEF Lists
<1>2. Value("port", args, uninitialised) = portOf(args[1])
  BY <1>1, Zenon DEF Value
<1>3. x \in Int
  BY AtoiInt
<1> HIDE DEF x
<1> DEFINE y == x % 65536
<1>4. y \in Ports
  BY <1>3, Bits16 DEF Ports
<1>5. portOf(args[1]) = y
  BY SMT DEF portOf, x
<1> HIDE DEF y
<1> QED
  BY <1>2, <1>4, <1>5, Zenon

LEMMA MemberPort ==
  ASSUME NEW d \in ServerDirectives
  PROVE  Member[d] = "mPort" <=> d = "port"
BY DEF ServerDirectives, Member

LEMMA PortThere == "mPort" \in DOMAIN ConfigFile
BY DEF ConfigFile

LEMMA MemberSet ==
  ASSUME NEW config, ConfigOK(config), NEW d \in ServerDirectives, NEW new,
         d = "port" => new \in Ports
  PROVE  ConfigOK([config EXCEPT ![Member[d]] = new])
<1> DEFINE m == Member[d]
           changed == [config EXCEPT ![m] = new]
<1>1. m = "mPort" <=> d = "port"
  BY MemberPort
<1> HIDE DEF m
<1>2. "mPort" \in DOMAIN config
  BY PortThere DEF ConfigOK
<1>3. changed["mPort"] = IF m = "mPort" THEN new ELSE config["mPort"]
  BY <1>2
<1>4. DOMAIN changed = DOMAIN config
  OBVIOUS
<1> HIDE DEF changed
<1>5. DOMAIN config = DOMAIN ConfigFile /\ config["mPort"] \in Ports
  BY DEF ConfigOK
<1>6. changed["mPort"] \in Ports
  BY <1>1, <1>3, <1>5
<1>7. ConfigOK(changed)
  BY <1>4, <1>5, <1>6, Zenon DEF ConfigOK
<1> QED
  BY <1>7 DEF m, changed

(* What a directive d of value v makes of a reading.                       *)
DirectiveSet(reading, d, v) ==
  [reading EXCEPT
     !.config[Member[d]] = IF d \in Lists \cap reading.exist THEN @ \o v ELSE v,
     !.exist = @ \cup {d}]

LEMMA DirectiveSets ==
  ASSUME NEW reading, ReadingOK(reading), NEW d \in ServerDirectives, NEW v,
         d = "port" => v \in Ports
  PROVE  ReadingOK(DirectiveSet(reading, d, v))
<1> DEFINE old == reading.config
           extended == d \in Lists \cap reading.exist
           m == Member[d]
           new == IF extended THEN old[m] \o v ELSE v
           config == [old EXCEPT ![m] = IF extended THEN @ \o v ELSE v]
           more == reading.exist \cup {d}
           done == [reading EXCEPT !.config = config, !.exist = more]
<1>1. DOMAIN reading = {"config", "exist", "result"} /\ ConfigOK(old)
  BY DEF ReadingOK
<1>2. DirectiveSet(reading, d, v) = done
  BY DEF DirectiveSet
<1>3. ASSUME d = "port" PROVE new \in Ports
  <2>1. ~extended
    BY <1>3 DEF Lists
  <2> HIDE DEF extended
  <2> QED
    BY <1>3, <2>1, Zenon
<1> HIDE DEF extended, old
<1>4. config = [old EXCEPT ![m] = new]
  OBVIOUS
<1> HIDE DEF new
<1>5. ConfigOK(config)
  BY <1>1, <1>3, <1>4, MemberSet, Zenon
<1> HIDE DEF config, more
<1>6. DOMAIN done = {"config", "exist", "result"} /\ done.config = config
  BY <1>1
<1> HIDE DEF done
<1>7. ReadingOK(done)
  BY <1>5, <1>6, Zenon DEF ReadingOK
<1> QED
  BY <1>2, <1>7, Zenon

LEMMA DirectiveKeeps ==
  ASSUME NEW reading, ReadingOK(reading), NEW words, NEW known \in SUBSET ServerDirectives,
         NEW uninitialised
  PROVE  ReadingOK(Directive(reading, words, known, uninitialised))
<1> DEFINE d == words[1][1]
           args == Tail(words)
           v == Value(d, args, uninitialised)
           result == Directive(reading, words, known, uninitialised)
           over == reading.result # "ok" \/ Len(words[1]) # 1 \/ d \notin known
           wrong == (d \in Lists \ {"index_pages"} /\ args = <<>>) \/ (d \notin Lists /\ Len(args) # 1)
           error == [reading EXCEPT !.result = "error"]
<1>1. result = IF over THEN reading ELSE IF wrong THEN error ELSE DirectiveSet(reading, d, v)
  BY DEF Directive, DirectiveSet
<1>2. ~over => d \in known
  OBVIOUS
<1>3. d = "port" => v \in Ports
  BY PortValue, Zenon
<1> HIDE DEF over, wrong, d, v, result
<1>4. ReadingOK(error)
  BY DEF ReadingOK
<1>5. d \in known => ReadingOK(DirectiveSet(reading, d, v))
  BY <1>3, DirectiveSets, Zenon
<1> HIDE DEF error
<1>6. ReadingOK(result)
  BY <1>1, <1>2, <1>4, <1>5, Zenon
<1> QED
  BY <1>6 DEF result

LEMMA TurnKeeps ==
  ASSUME NEW reading, ReadingOK(reading), NEW k, NEW kind, NEW b, NEW blank, NEW uninitialised
  PROVE  ReadingOK(Turn(kind, b, blank, uninitialised, reading, k))
<1>1. ServerDirectives \in SUBSET ServerDirectives /\ LocationDirectives \in SUBSET ServerDirectives
  BY DEF LocationDirectives
<1>2. /\ ReadingOK(Directive(reading, Words(k), ServerDirectives, uninitialised))
      /\ ReadingOK(Directive(reading, Words(k), LocationDirectives, uninitialised))
  BY <1>1, DirectiveKeeps
<1>3. ReadingOK([reading EXCEPT !.result = blank])
  BY DEF ReadingOK
<1> QED
  BY <1>2, <1>3 DEF Turn

LEMMA TurnsKeep ==
  ASSUME NEW f, NEW n \in Nat, NEW lines, NEW base, ReadingOK(base),
         NEW kind, NEW b, NEW blank, NEW uninitialised,
         IsTurns(f, n, lines, base, kind, b, blank, uninitialised)
  PROVE  ReadingOK(f[1..n])
<1> DEFINE S == {k \in Nat : k <= n => ReadingOK(f[1..k])}
<1>1. \A s \in SUBSET (1..n) :
        f[s] = IF s = {} THEN base
               ELSE Turn(kind, b, blank, uninitialised, f[s \ {Max(s)}], lines[Max(s)])
  BY Zenon DEF IsTurns
<1>2. 0 \in S
  <2>1. 1..0 = {} /\ 1..0 \in SUBSET (1..n)
    OBVIOUS
  <2>2. f[1..0] = base
    BY <1>1, <2>1
  <2> QED
    BY <2>2
<1>3. ASSUME NEW k \in Nat, k \in S PROVE k + 1 \in S
  <2> SUFFICES ASSUME k + 1 <= n PROVE ReadingOK(f[1..(k + 1)])
    OBVIOUS
  <2>1. 1..(k + 1) \in SUBSET (1..n) /\ 1..(k + 1) # {} /\ (1..(k + 1)) \ {k + 1} = 1..k
    OBVIOUS
  <2>2. Max(1..(k + 1)) = k + 1
    <3>1. k + 1 \in Nat /\ k + 1 \in 1..(k + 1)
      OBVIOUS
    <3>2. 1..(k + 1) \in SUBSET (1..(k + 1))
      OBVIOUS
    <3> QED
      BY <3>1, <3>2, MaxLast
  <2>3. ReadingOK(f[1..k])
    BY <1>3
  <2>4. f[1..(k + 1)] = Turn(kind, b, blank, uninitialised, f[1..k], lines[k + 1])
    BY <1>1, <2>1, <2>2
  <2> QED
    BY <2>3, <2>4, TurnKeeps
<1> HIDE DEF S
<1>4. \A k \in Nat : k \in S
  BY <1>2, <1>3, NatSetInduction
<1> QED
  BY <1>4 DEF S

LEMMA MovedOK ==
  ASSUME NEW config, ConfigOK(config), NEW path
  PROVE  ConfigOK(Moved(config, path))
<1> DEFINE moved == Moved(config, path)
<1>1. DOMAIN moved = DOMAIN config /\ ("mPort" \in DOMAIN config => moved.mPort = config.mPort)
  BY DEF Moved
<1> HIDE DEF moved
<1>2. ConfigOK(moved)
  BY <1>1, PortThere DEF ConfigOK
<1> QED
  BY <1>2 DEF moved

LEMMA FirstConfig == ConfigOK(ConfigFile)
<1>1. ConfigFile.mPort = 8000
  BY DEF ConfigFile
<1>2. 8000 \in Ports
  BY DEF Ports
<1> QED
  BY <1>1, <1>2 DEF ConfigOK

LEMMA FirstReading ==
  ASSUME NEW config, ConfigOK(config)
  PROVE  ReadingOK(Reading(config))
BY DEF ReadingOK, Reading

LEMMA BlockRead ==
  ASSUME NEW b, b.mStart \in Int, b.mEnd \in Int, b.mEnd > b.mStart,
         NEW config, ConfigOK(config), NEW blank, NEW uninitialised
  PROVE  /\ ReadingOK(parsingserverBlock(b, uninitialised))
         /\ ReadingOK(parsingLocationBlock(config, b, blank, uninitialised))
<1> DEFINE n == b.mEnd - b.mStart - 1
           base == Reading(Moved(config, b.mLocationPath))
           read == parsingLocationBlock(config, b, blank, uninitialised)
<1>1. n \in Nat /\ DOMAIN Inside(b) = 1..n
  BY DEF Inside
<1> HIDE DEF n
<1>2. PICK f : /\ IsTurns(f, n, Inside(b), Reading(ConfigFile), "server", b, blank, uninitialised)
               /\ parsingserverBlock(b, uninitialised) = f[1..n]
  BY <1>1, ServerTurns
<1>3. PICK g : /\ IsTurns(g, n, Inside(b), base, "location", b, blank, uninitialised)
               /\ read = g[1..n]
  <2>1. /\ base = Reading(Moved(config, b.mLocationPath))
        /\ read = parsingLocationBlock(config, b, blank, uninitialised)
    OBVIOUS
  <2> HIDE DEF base, read
  <2> QED
    BY <1>1, <2>1, LocationTurns
<1>4. ReadingOK(Reading(ConfigFile)) /\ ReadingOK(base)
  BY FirstConfig, MovedOK, FirstReading
<1> HIDE DEF base
<1>5. ReadingOK(f[1..n])
  BY <1>1, <1>2, <1>4, TurnsKeep
<1>6. ReadingOK(g[1..n])
  BY <1>1, <1>3, <1>4, TurnsKeep
<1> QED
  BY <1>2, <1>3, <1>5, <1>6

LEMMA AppendLen ==
  ASSUME NEW s, NEW e, IsSeq(s)
  PROVE  Len(s) \in Nat /\ Len(Append(s, e)) = Len(s) + 1
<1>1. DOMAIN Append(s, e) = 1..(Len(s) + 1) /\ IsSeq(Append(s, e))
  BY AppendSeq
<1>2. Len(s) \in Nat /\ Len(Append(s, e)) \in Nat /\ DOMAIN Append(s, e) = 1..Len(Append(s, e))
  BY <1>1, SeqDomain
<1>3. 1..Len(Append(s, e)) = 1..(Len(s) + 1)
  BY <1>1, <1>2
<1> HIDE DEF IsSeq
<1> QED
  BY <1>2, <1>3

-----------------------------------------------------------------------------
(***************************************************************************)
(* Where the blocks are: every bracket lies within the lines, and the      *)
(* bracket of a location within that of its server.                        *)
(***************************************************************************)
LEMMA BracketIn ==
  ASSUME NEW from \in Int, NEW to \in Int, 1 <= from, checkBracketSyntax(from, to)
  PROVE  LET b == Bracket(from, to)
         IN  b.mStart \in from..to /\ b.mEnd \in from..to /\ b.mStart < b.mEnd
<1> DEFINE I == {k \in from..to : mGnl[k] = CloseBracket}
           c == Close(from, to)
           O == Opens(from, to)
<1>1. c = IF I # {} THEN Min(I) ELSE 0
  BY DEF Close, SelectInSubSeq
<1>2. c # 0 /\ O # {}
  BY DEF checkBracketSyntax
<1>3. I \in SUBSET Nat
  OBVIOUS
<1>4. c \in from..to
  BY <1>1, <1>2, <1>3, MinIn
<1>5. \A k \in O : k \in from..to /\ k < c
  BY <1>2 DEF Opens
<1>6. Bracket(from, to).mEnd = c /\ Bracket(from, to).mStart \in O
  BY <1>2 DEF Bracket
<1> QED
  BY <1>4, <1>5, <1>6

BracketMembers == {"mStart", "mEnd", "mLocationBracket"}
LocationIn(l, b) ==
  l.mStart \in Int /\ l.mEnd \in Int /\ b.mStart < l.mStart /\ l.mStart < l.mEnd /\ l.mEnd < b.mEnd
BracketOK(b, n) ==
  /\ DOMAIN b = BracketMembers
  /\ b.mStart \in 1..n /\ b.mEnd \in 1..n /\ b.mStart < b.mEnd
  /\ IsSeq(b.mLocationBracket)
  /\ \A l \in DOMAIN b.mLocationBracket : LocationIn(b.mLocationBracket[l], b)
BracketsOK(brackets, n) ==
  IsSeq(brackets) /\ \A k \in DOMAIN brackets : BracketOK(brackets[k], n)
ConfigsOK(configs) == IsSeq(configs) /\ \A k \in DOMAIN configs : ConfigOK(configs[k])

(* The places of the loops.                                                *)
LoopsOK ==
  /\ pc = "Step1" => line \in Nat \ {0}
  /\ pc = "Step2" => /\ server \in DOMAIN mServerBracket
                     /\ line \in Nat /\ line > mServerBracket[server].mStart
  /\ pc = "SetConfigs" =>
       /\ server \in Nat \ {0} /\ line \in Nat /\ line <= Len(mConfigs)
       /\ server <= Len(mServerBracket) => line <= Len(mServerBracket[server].mLocationBracket)

BlocksInv ==
  /\ pc \in {"main", "ReadConfigFile", "SetGnl"} => mServerBracket = <<>>
  /\ IsSeq(mGnl)
  /\ BracketsOK(mServerBracket, Len(mGnl))
  /\ ConfigsOK(mConfigs)
  /\ LoopsOK

LEMMA NoBrackets ==
  ASSUME NEW n
  PROVE  BracketsOK(<<>>, n)
BY NoneDomain DEF BracketsOK

LEMMA MoreBrackets ==
  ASSUME NEW brackets, NEW n, BracketsOK(brackets, n), NEW b, BracketOK(b, n)
  PROVE  BracketsOK(Append(brackets, b), n)
<1>1. /\ IsSeq(Append(brackets, b)) /\ DOMAIN Append(brackets, b) = 1..(Len(brackets) + 1)
      /\ \A k \in DOMAIN brackets : Append(brackets, b)[k] = brackets[k]
      /\ Append(brackets, b)[Len(brackets) + 1] = b
  BY AppendSeq DEF BracketsOK
<1>2. Len(brackets) \in Nat /\ DOMAIN brackets = 1..Len(brackets)
  BY SeqDomain DEF BracketsOK
<1>3. \A k \in 1..(Len(brackets) + 1) : k \in DOMAIN brackets \/ k = Len(brackets) + 1
  BY <1>2
<1> QED
  BY <1>1, <1>3 DEF BracketsOK

LEMMA MoreConfigs ==
  ASSUME NEW configs, ConfigsOK(configs), NEW c, ConfigOK(c)
  PROVE  ConfigsOK(Append(configs, c))
<1>1. /\ IsSeq(Append(configs, c)) /\ DOMAIN Append(configs, c) = 1..(Len(configs) + 1)
      /\ \A k \in DOMAIN configs : Append(configs, c)[k] = configs[k]
      /\ Append(configs, c)[Len(configs) + 1] = c
  BY AppendSeq DEF ConfigsOK
<1>2. Len(configs) \in Nat /\ DOMAIN configs = 1..Len(configs)
  BY SeqDomain DEF ConfigsOK
<1>3. \A k \in 1..(Len(configs) + 1) : k \in DOMAIN configs \/ k = Len(configs) + 1
  BY <1>2
<1> QED
  BY <1>1, <1>3 DEF ConfigsOK

(* A location more in a server block.                                      *)
LEMMA MoreLocationsIn ==
  ASSUME NEW b, NEW n, BracketOK(b, n), NEW l, LocationIn(l, b)
  PROVE  BracketOK([b EXCEPT !.mLocationBracket = Append(b.mLocationBracket, l)], n)
<1> DEFINE old == b.mLocationBracket
           locations == Append(old, l)
           new == [b EXCEPT !.mLocationBracket = locations]
<1>1. /\ IsSeq(locations) /\ DOMAIN locations = 1..(Len(old) + 1)
      /\ \A k \in DOMAIN old : locations[k] = old[k]
      /\ locations[Len(old) + 1] = l
  BY AppendSeq DEF BracketOK
<1>2. Len(old) \in Nat /\ DOMAIN old = 1..Len(old)
  BY SeqDomain DEF BracketOK
<1>3. \A k \in 1..(Len(old) + 1) : k \in DOMAIN old \/ k = Len(old) + 1
  BY <1>2
<1> HIDE DEF locations
<1>4. /\ DOMAIN new = BracketMembers /\ new.mLocationBracket = locations
      /\ new.mStart = b.mStart /\ new.mEnd = b.mEnd
  BY DEF BracketOK, BracketMembers
<1> HIDE DEF new
<1>5. \A k \in DOMAIN locations : LocationIn(locations[k], new)
  BY <1>1, <1>3, <1>4 DEF BracketOK, LocationIn
<1>6. BracketOK(new, n)
  BY <1>1, <1>4, <1>5 DEF BracketOK
<1> QED
  BY <1>6 DEF new, locations

LEMMA BlocksBegin ==
  Init => BlocksInv
BY NoBrackets, NoneDomain DEF Init, BlocksInv, ConfigsOK, LoopsOK

(* As long as there are only lines, there are no brackets yet.             *)
LEMMA ReadKeepsBlocks ==
  ASSUME BlocksInv, Read
  PROVE  BlocksInv'
<1>1. pc \in {"main", "ReadConfigFile", "SetGnl"}
  BY DEF Read, main, ReadConfigFile, NextLine, ReadEnd, ReadFails, ReadPiece
<1>2. mServerBracket = <<>> /\ mServerBracket' = <<>> /\ mConfigs' = mConfigs
  BY <1>1 DEF Read, main, ReadConfigFile, NextLine, ReadEnd, ReadFails, ReadPiece, BlocksInv
<1>3. IsSeq(mGnl')
  <2>1. mGnl' = mGnl \/ \E l : mGnl' = Append(mGnl, l)
    BY DEF Read, main, ReadConfigFile, NextLine, ReadEnd, ReadFails, ReadPiece
  <2> QED
    BY <2>1, AppendSeq DEF BlocksInv
<1>4. pc' = "Step1" => line' = 1
  BY DEF Read, main, ReadConfigFile, NextLine, ReadEnd, ReadFails, ReadPiece
<1>5. pc' \in {"ReadConfigFile", "SetGnl", "Step1", "exited", "crashed"}
  BY DEF Read, main, ReadConfigFile, NextLine, ReadEnd, ReadFails, ReadPiece
<1>6. BracketsOK(mServerBracket', Len(mGnl'))
  BY <1>2, NoBrackets
<1>7. LoopsOK'
  BY <1>4, <1>5 DEF LoopsOK
<1>8. ConfigsOK(mConfigs')
  BY <1>2 DEF BlocksInv
<1> QED
  BY <1>2, <1>3, <1>6, <1>7, <1>8 DEF BlocksInv

(* Taking a tab from some lines changes nothing of how many there are.     *)
LEMMA OutdentedLines ==
  ASSUME NEW from, NEW to, IsSeq(mGnl)
  PROVE  IsSeq(outdented(from, to)) /\ Len(outdented(from, to)) = Len(mGnl)
<1> DEFINE s == outdented(from, to)
           n == Len(mGnl)
           T == {s[k] : k \in DOMAIN s}
<1>1. n \in Nat /\ DOMAIN mGnl = 1..n
  BY SeqDomain
<1>2. DOMAIN s = 1..n /\ s = [k \in DOMAIN s |-> s[k]]
  BY <1>1 DEF outdented
<1> HIDE DEF s
<1>3. s \in [1..n -> T]
  BY <1>2
<1> HIDE DEF T
<1>4. s \in Seq(T)
  BY <1>1, <1>3, SeqDef
<1>5. Len(s) = n
  BY <1>1, <1>2, <1>4, LenProperties
<1>6. IsSeq(s)
  BY <1>4, SeqIntro
<1> QED
  BY <1>5, <1>6 DEF s

LEMMA Step1KeepsBlocks ==
  ASSUME BlocksInv, Step1
  PROVE  BlocksInv'
<1> DEFINE n == Len(mGnl)
           b == Bracket(line + 1, n)
           new == [mStart |-> b.mStart, mEnd |-> b.mEnd, mLocationBracket |-> <<>>]
<1>1. /\ pc = "Step1" /\ line \in Nat \ {0} /\ n \in Nat /\ line <= n
      /\ mGnl' = mGnl /\ mConfigs' = mConfigs
  BY SeqDomain DEF Step1, BlocksInv, LoopsOK
<1>2. \/ pc' = "Step1" /\ line' = line + 1 /\ mServerBracket' = mServerBracket
      \/ /\ pc' = "Step1" /\ line' = b.mEnd + 1
         /\ checkBracketSyntax(line + 1, n)
         /\ mServerBracket' = Append(mServerBracket, new)
      \/ pc' \in {"configured", "crashed"} /\ mServerBracket' = mServerBracket
  BY DEF Step1
<1>3. CASE /\ pc' = "Step1" /\ line' = b.mEnd + 1
           /\ checkBracketSyntax(line + 1, n)
           /\ mServerBracket' = Append(mServerBracket, new)
  <2>1. b.mStart \in (line + 1)..n /\ b.mEnd \in (line + 1)..n /\ b.mStart < b.mEnd
    BY <1>1, <1>3, BracketIn
  <2> HIDE DEF b, n
  <2>2. BracketOK(new, n)
    BY <1>1, <2>1, NoneDomain DEF BracketOK, BracketMembers
  <2> HIDE DEF new
  <2>3. BracketsOK(mServerBracket', n)
    BY <1>3, <2>2, MoreBrackets DEF BlocksInv, n
  <2>4. line' \in Nat \ {0}
    BY <1>1, <1>3, <2>1
  <2> QED
    BY <1>1, <1>3, <2>3, <2>4 DEF BlocksInv, LoopsOK, n
<1> HIDE DEF new, b
<1>4. CASE pc' = "Step1" /\ line' = line + 1 /\ mServerBracket' = mServerBracket
  BY <1>1, <1>4 DEF BlocksInv, LoopsOK
<1>5. CASE pc' \in {"configured", "crashed"} /\ mServerBracket' = mServerBracket
  BY <1>1, <1>5 DEF BlocksInv, LoopsOK
<1> QED
  BY <1>2, <1>3, <1>4, <1>5

LEMMA Step2ServerKeepsBlocks ==
  ASSUME BlocksInv, Step2Server
  PROVE  BlocksInv'
<1> DEFINE next == IF pc = "Step1" THEN 1 ELSE server + 1
<1>1. /\ IsSeq(mServerBracket) /\ Len(mServerBracket) \in Nat
      /\ DOMAIN mServerBracket = 1..Len(mServerBracket)
  BY SeqDomain DEF BlocksInv, BracketsOK
<1>2. next \in Nat \ {0}
  BY <1>1 DEF Step2Server, BlocksInv, LoopsOK
<1>3. mServerBracket' = mServerBracket /\ mConfigs' = mConfigs
  BY DEF Step2Server
<1>4. \/ /\ next <= Len(mServerBracket) /\ pc' = "Step2" /\ server' = next
         /\ line' = mServerBracket[next].mStart + 1
         /\ mGnl' = outdented(mServerBracket[next].mStart + 1, mServerBracket[next].mEnd - 1)
      \/ pc' = "SetConfigs" /\ server' = 1 /\ line' = 0 /\ mGnl' = mGnl
  BY DEF Step2Server
<1> HIDE DEF next
<1>5. IsSeq(mGnl') /\ Len(mGnl') = Len(mGnl)
  BY <1>4, OutdentedLines DEF BlocksInv
<1>6. CASE /\ next <= Len(mServerBracket) /\ pc' = "Step2" /\ server' = next
           /\ line' = mServerBracket[next].mStart + 1
  <2>1. next \in DOMAIN mServerBracket
    BY <1>1, <1>2, <1>6
  <2>2. mServerBracket[next].mStart \in 1..Len(mGnl)
    BY <2>1 DEF BlocksInv, BracketsOK, BracketOK
  <2>3. LoopsOK'
    BY <1>3, <1>6, <2>1, <2>2 DEF LoopsOK
  <2> QED
    BY <1>3, <1>5, <1>6, <2>3 DEF BlocksInv
<1>7. CASE pc' = "SetConfigs" /\ server' = 1 /\ line' = 0
  <2>1. 0 <= Len(mConfigs)
    BY SeqDomain DEF BlocksInv, ConfigsOK
  <2>2. 1 <= Len(mServerBracket) => 0 <= Len(mServerBracket[1].mLocationBracket)
    BY <1>1, SeqDomain DEF BlocksInv, BracketsOK, BracketOK
  <2>3. LoopsOK'
    BY <1>3, <1>7, <2>1, <2>2 DEF LoopsOK
  <2> QED
    BY <1>3, <1>5, <1>7, <2>3 DEF BlocksInv
<1> QED
  BY <1>4, <1>6, <1>7

LEMMA Step2KeepsBlocks ==
  ASSUME BlocksInv, Step2
  PROVE  BlocksInv'
<1> DEFINE s == mServerBracket[server]
           end == s.mEnd - 1
           b == Bracket(line + 1, end)
           path == Path(splitVector(mGnl[line], Space)[2])
           l == [mStart |-> b.mStart, mEnd |-> b.mEnd, mLocationPath |-> path]
           new == [s EXCEPT !.mLocationBracket = Append(s.mLocationBracket, l)]
           n == Len(mGnl)
<1>1. /\ pc = "Step2" /\ server \in DOMAIN mServerBracket /\ line \in Nat /\ line > s.mStart
      /\ BracketOK(s, n) /\ BracketsOK(mServerBracket, n)
      /\ server' = server /\ mConfigs' = mConfigs
  BY DEF Step2, BlocksInv, LoopsOK, BracketsOK
<1>2. \/ pc' = "Step2" /\ line' = line + 1 /\ mServerBracket' = mServerBracket /\ mGnl' = mGnl
      \/ /\ pc' = "Step2" /\ line' = b.mEnd + 1
         /\ checkBracketSyntax(line + 1, end)
         /\ mServerBracket' = [mServerBracket EXCEPT ![server] = new]
         /\ mGnl' = outdented(line, b.mEnd - 1)
      \/ pc' = "configured" /\ mServerBracket' = mServerBracket /\ mGnl' = mGnl
  BY DEF Step2
<1>3. CASE pc' = "Step2" /\ line' = line + 1 /\ mServerBracket' = mServerBracket /\ mGnl' = mGnl
  <2>1. s.mStart \in Int
    BY <1>1 DEF BracketOK
  <2>2. line' \in Nat /\ line' > s.mStart
    BY <1>1, <1>3, <2>1
  <2> QED
    BY <1>1, <1>3, <2>2 DEF BlocksInv, LoopsOK
<1>4. CASE /\ pc' = "Step2" /\ line' = b.mEnd + 1
           /\ checkBracketSyntax(line + 1, end)
           /\ mServerBracket' = [mServerBracket EXCEPT ![server] = new]
           /\ mGnl' = outdented(line, b.mEnd - 1)
  <2>1. s.mStart \in Nat /\ s.mEnd \in Nat
    BY <1>1 DEF BracketOK
  <2>2. b.mStart \in (line + 1)..end /\ b.mEnd \in (line + 1)..end /\ b.mStart < b.mEnd
    <3> DEFINE from == line + 1
    <3>1. from \in Int /\ 1 <= from /\ end \in Int
      BY <1>1, <2>1
    <3>2. checkBracketSyntax(from, end)
      BY <1>4
    <3> HIDE DEF from, end
    <3>3. LET x == Bracket(from, end)
          IN  x.mStart \in from..end /\ x.mEnd \in from..end /\ x.mStart < x.mEnd
      BY <3>1, <3>2, BracketIn
    <3> QED
      BY <3>3 DEF from
  <2>3. l.mStart = b.mStart /\ l.mEnd = b.mEnd
    OBVIOUS
  <2> HIDE DEF b, l
  <2>4. LocationIn(l, s)
    BY <1>1, <2>1, <2>2, <2>3 DEF LocationIn
  <2>5. BracketOK(new, n)
    BY <1>1, <2>4, MoreLocationsIn
  <2>6. new.mStart = s.mStart
    BY <1>1 DEF BracketOK, BracketMembers
  <2>7. IsSeq(mGnl') /\ Len(mGnl') = n
    BY <1>4, OutdentedLines DEF BlocksInv
  <2> HIDE DEF new, n
  <2>8. /\ IsSeq(mServerBracket') /\ DOMAIN mServerBracket' = DOMAIN mServerBracket
        /\ \A k \in DOMAIN mServerBracket :
             mServerBracket'[k] = IF k = server THEN new ELSE mServerBracket[k]
    BY <1>1, <1>4, ReplaceSeq DEF BracketsOK
  <2>9. BracketsOK(mServerBracket', n)
    BY <1>1, <2>5, <2>8 DEF BracketsOK
  <2>10. line' \in Nat /\ line' > s.mStart
    BY <1>1, <1>4, <2>1, <2>2
  <2>11. LoopsOK'
    BY <1>1, <1>4, <2>6, <2>8, <2>10 DEF LoopsOK
  <2> QED
    BY <1>1, <1>4, <2>7, <2>9, <2>11 DEF BlocksInv
<1>5. CASE pc' = "configured" /\ mServerBracket' = mServerBracket /\ mGnl' = mGnl
  BY <1>1, <1>5 DEF BlocksInv, LoopsOK
<1> QED
  BY <1>2, <1>3, <1>4, <1>5

(* The configuration read is kept, or the rest is given up.                *)
LEMMA KeepKeepsBlocks ==
  ASSUME BlocksInv, pc = "SetConfigs", server <= Len(mServerBracket),
         UNCHANGED <<mGnl, mServerBracket>>, NEW reading, ReadingOK(reading), Keep(reading)
  PROVE  BlocksInv'
<1> DEFINE locations == mServerBracket[server].mLocationBracket
<1>1. /\ server \in Nat \ {0} /\ line \in Nat /\ line <= Len(mConfigs) /\ line <= Len(locations)
      /\ ConfigsOK(mConfigs) /\ IsSeq(mConfigs)
      /\ IsSeq(mServerBracket) /\ DOMAIN mServerBracket = 1..Len(mServerBracket)
      /\ Len(mServerBracket) \in Nat
  BY SeqDomain DEF BlocksInv, LoopsOK, ConfigsOK, BracketsOK
<1>2. \/ /\ mConfigs' = Append(mConfigs, reading.config) /\ pc' = pc
         /\ \/ line < Len(locations) /\ server' = server /\ line' = line + 1
            \/ server' = server + 1 /\ line' = 0
      \/ pc' \in {"configured", "crashed"} /\ mConfigs' = mConfigs
  BY DEF Keep
<1>3. CASE /\ mConfigs' = Append(mConfigs, reading.config) /\ pc' = pc
           /\ \/ line < Len(locations) /\ server' = server /\ line' = line + 1
              \/ server' = server + 1 /\ line' = 0
  <2>1. ConfigsOK(mConfigs')
    BY <1>1, <1>3, MoreConfigs DEF ReadingOK
  <2>2. Len(mConfigs') = Len(mConfigs) + 1 /\ Len(mConfigs) \in Nat
    BY <1>1, <1>3, AppendLen
  <2>3. \A k \in DOMAIN mServerBracket : Len(mServerBracket[k].mLocationBracket) \in Nat
    BY SeqDomain DEF BlocksInv, BracketsOK, BracketOK
  <2>4. server \in DOMAIN mServerBracket
    BY <1>1
  <2>5. server' \in Nat \ {0} /\ line' \in Nat /\ line' <= Len(mConfigs')
    BY <1>1, <1>3, <2>2
  <2>6. CASE line < Len(locations) /\ server' = server /\ line' = line + 1
    <3>1. line + 1 <= Len(locations)
      BY <1>1, <2>3, <2>4, <2>6
    <3>2. LoopsOK'
      BY <1>3, <2>5, <2>6, <3>1 DEF LoopsOK
    <3> QED
      BY <1>3, <2>1, <3>2 DEF BlocksInv
  <2>7. CASE server' = server + 1 /\ line' = 0
    <3>1. server + 1 <= Len(mServerBracket) => server + 1 \in DOMAIN mServerBracket
      BY <1>1
    <3>2. server + 1 <= Len(mServerBracket) => 0 <= Len(mServerBracket[server + 1].mLocationBracket)
      BY <2>3, <3>1
    <3>3. LoopsOK'
      BY <1>3, <2>5, <2>7, <3>2 DEF LoopsOK
    <3> QED
      BY <1>3, <2>1, <3>3 DEF BlocksInv
  <2> QED
    BY <1>3, <2>6, <2>7
<1>4. CASE pc' \in {"configured", "crashed"} /\ mConfigs' = mConfigs
  BY <1>4 DEF BlocksInv, LoopsOK
<1> QED
  BY <1>2, <1>3, <1>4

LEMMA ParseKeepsBlocks ==
  ASSUME BlocksInv, ParseServer \/ ParseLocation
  PROVE  BlocksInv'
<1> DEFINE b == mServerBracket[server]
<1>1. /\ pc = "SetConfigs" /\ server <= Len(mServerBracket)
      /\ UNCHANGED <<mGnl, mServerBracket>>
  BY DEF ParseServer, ParseLocation
<1>2. /\ server \in Nat \ {0} /\ line \in Nat /\ line <= Len(mConfigs)
      /\ line <= Len(b.mLocationBracket) /\ server \in DOMAIN mServerBracket
  BY <1>1, SeqDomain DEF BlocksInv, LoopsOK, BracketsOK
<1>3. BracketOK(b, Len(mGnl))
  BY <1>2 DEF BlocksInv, BracketsOK
<1> HIDE DEF b
<1>4. CASE ParseServer
  <2>1. PICK uninitialised : Keep(parsingserverBlock(b, uninitialised))
    BY <1>4 DEF ParseServer, b
  <2>2. b.mStart \in Int /\ b.mEnd \in Int /\ b.mEnd > b.mStart
    BY <1>3 DEF BracketOK
  <2>3. ReadingOK(parsingserverBlock(b, uninitialised))
    BY <2>2, FirstConfig, BlockRead
  <2> QED
    BY <1>1, <2>1, <2>3, KeepKeepsBlocks
<1>5. CASE ParseLocation
  <2> DEFINE l == b.mLocationBracket[line]
             config == mConfigs[Len(mConfigs) - line + 1]
  <2>1. PICK blank, uninitialised : Keep(parsingLocationBlock(config, l, blank, uninitialised))
    BY <1>5 DEF ParseLocation, b
  <2>2. line > 0
    BY <1>5 DEF ParseLocation
  <2>3. line \in DOMAIN b.mLocationBracket
    BY <1>2, <1>3, <2>2, SeqDomain DEF BracketOK
  <2>4. l.mStart \in Int /\ l.mEnd \in Int /\ l.mEnd > l.mStart
    BY <1>3, <2>3 DEF BracketOK, LocationIn
  <2>5. Len(mConfigs) - line + 1 \in DOMAIN mConfigs
    BY <1>2, <2>2, SeqDomain DEF BlocksInv, ConfigsOK
  <2>6. ConfigOK(config)
    BY <2>5 DEF BlocksInv, ConfigsOK
  <2> HIDE DEF l, config
  <2>7. ReadingOK(parsingLocationBlock(config, l, blank, uninitialised))
    BY <2>4, <2>6, BlockRead
  <2> QED
    BY <1>1, <2>1, <2>7, KeepKeepsBlocks
<1> QED
  BY <1>4, <1>5

LEMMA StepBlocks ==
  BlocksInv /\ [Next]_configVars => BlocksInv'
<1> SUFFICES ASSUME BlocksInv, [Next]_configVars PROVE BlocksInv'
  OBVIOUS
<1>1. CASE Read
  BY <1>1, ReadKeepsBlocks
<1>2. CASE Step1
  BY <1>2, Step1KeepsBlocks
<1>3. CASE Step2Server
  BY <1>3, Step2ServerKeepsBlocks
<1>4. CASE Step2
  BY <1>4, Step2KeepsBlocks
<1>5. CASE ParseServer \/ ParseLocation
  BY <1>5, ParseKeepsBlocks
<1>6. CASE ParseEnd
  BY <1>6 DEF ParseEnd, BlocksInv, LoopsOK
<1>7. CASE UNCHANGED configVars
  BY <1>7 DEF configVars, BlocksInv, LoopsOK
<1> QED
  BY <1>1, <1>2, <1>3, <1>4, <1>5, <1>6, <1>7 DEF Next, Parse

(* The brackets lie within the lines and in one another, the loops keep to *)
(* them, and every configuration has all its members and a port of 16      *)
(* bits, whatever the lines say.                                           *)
THEOREM BlocksInvariant == Spec => []BlocksInv
BY BlocksBegin, StepBlocks, PTL DEF Spec
=============================================================================
