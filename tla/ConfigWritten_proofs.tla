-------------------------- MODULE ConfigWritten_proofs --------------------------
(***************************************************************************)
(* ReadAsWritten, for every file that is not damaged: what the parser      *)
(* makes of the text of a list of server blocks are the configurations     *)
(* they stand for.                                                         *)
(*                                                                         *)
(* The text gives the lines back, since no line holds a new line; the      *)
(* lines give the words back, since no word holds a space; the brackets    *)
(* are found where they were put, because what is inside of a block is     *)
(* indented; and a block is read line by line as Effect says.  WrittenInv, *)
(* that is kept together with ReadingInv and BlocksInv, says how far each  *)
(* stage of the parser has come with it.                                   *)
(*                                                                         *)
(* What ServerConfig_proofs shows of the tables and the lookups, given     *)
(* ReadAsWritten, then holds of every start.                               *)
(***************************************************************************)
EXTENDS ServerConfig_proofs

(* What holds of the empty sequence and is kept by Append holds of every   *)
(* sequence.                                                               *)
LEMMA AppendInduction ==
  ASSUME NEW T, NEW S, <<>> \in S, \A s \in Seq(T), t \in T : s \in S => Append(s, t) \in S
  PROVE  \A s \in Seq(T) : s \in S
<1> DEFINE N == {n \in Nat : \A s \in Seq(T) : Len(s) = n => s \in S}
<1>1. 0 \in N
  <2> SUFFICES ASSUME NEW s \in Seq(T), Len(s) = 0 PROVE s \in S
    OBVIOUS
  <2>1. s = <<>>
    BY EmptySeq
  <2> QED
    BY <2>1
<1>2. ASSUME NEW n \in Nat, n \in N PROVE n + 1 \in N
  <2> SUFFICES ASSUME NEW s \in Seq(T), Len(s) = n + 1 PROVE s \in S
    OBVIOUS
  <2>1. s # <<>>
    BY EmptySeq
  <2>2. PICK r \in Seq(T), t \in T : s = Append(r, t)
    BY <2>1, SequenceEmptyOrAppend
  <2>3. Len(r) \in Nat /\ Len(s) = Len(r) + 1
    BY <2>2, LenProperties, AppendProperties
  <2>4. Len(r) = n
    BY <2>3
  <2>5. r \in S
    BY <1>2, <2>4
  <2> QED
    BY <2>2, <2>5
<1> HIDE DEF N
<1>3. \A n \in Nat : n \in N
  BY <1>1, <1>2, NatSetInduction
<1> QED
  BY <1>3, LenProperties DEF N

-----------------------------------------------------------------------------
(***************************************************************************)
(* splitVector: the function it is defined by exists, and what is one      *)
(* token longer is cut by one turn more.  The cutting that keeps empty     *)
(* pieces as well gives the lines of a text.                               *)
(***************************************************************************)
Uncut == [pieces |-> <<>>, rest |-> <<>>]
CutTurn(last, t, delim, kept) ==
  IF t = delim
  THEN [pieces |-> IF kept = "all" THEN Append(last.pieces, last.rest) ELSE withRest(last), rest |-> <<>>]
  ELSE [pieces |-> last.pieces, rest |-> Append(last.rest, t)]
IsCut(f, s, delim, kept, n) ==
  f = [k \in 0..n |-> IF k = 0 THEN Uncut ELSE CutTurn(f[k - 1], s[k], delim, kept)]
Cut(s, delim, kept) == (CHOOSE f : IsCut(f, s, delim, kept, Len(s)))[Len(s)]

(* A turn of the cutting.                                                  *)
LEMMA CutStep ==
  ASSUME NEW f, NEW s, NEW delim, NEW kept, NEW n, IsCut(f, s, delim, kept, n), NEW k \in 0..n
  PROVE  f[k] = IF k = 0 THEN Uncut ELSE CutTurn(f[k - 1], s[k], delim, kept)
BY Zenon DEF IsCut

(* The function the cutting is defined by exists.                          *)
LEMMA CutExists ==
  ASSUME NEW s, NEW delim, NEW kept
  PROVE  \A n \in Nat : \E f : IsCut(f, s, delim, kept, n)
<1> DEFINE S == {n \in Nat : \E f : IsCut(f, s, delim, kept, n)}
<1>1. 0 \in S
  <2> DEFINE f == [k \in 0..0 |-> Uncut]
  <2>1. IsCut(f, s, delim, kept, 0)
    BY DEF IsCut
  <2> QED
    BY <2>1
<1>2. ASSUME NEW n \in Nat, n \in S PROVE n + 1 \in S
  <2>1. PICK f : IsCut(f, s, delim, kept, n)
    BY <1>2
  <2> DEFINE e == CutTurn(f[n], s[n + 1], delim, kept)
             g == [k \in 0..(n + 1) |-> IF k <= n THEN f[k] ELSE e]
  <2>2. \A k \in 0..(n + 1) : g[k] = IF k = 0 THEN Uncut ELSE CutTurn(g[k - 1], s[k], delim, kept)
    <3> SUFFICES ASSUME NEW k \in 0..(n + 1)
                 PROVE  g[k] = IF k = 0 THEN Uncut ELSE CutTurn(g[k - 1], s[k], delim, kept)
      OBVIOUS
    <3>1. CASE k <= n
      <4>1. k \in 0..n
        BY <3>1
      <4>2. f[k] = IF k = 0 THEN Uncut ELSE CutTurn(f[k - 1], s[k], delim, kept)
        BY <2>1, <4>1, CutStep
      <4>3. g[k] = f[k] /\ (k # 0 => g[k - 1] = f[k - 1])
        BY <3>1
      <4> QED
        BY <4>2, <4>3
    <3>2. CASE k = n + 1
      BY <3>2
    <3> QED
      BY <3>1, <3>2
  <2> HIDE DEF e
  <2>3. IsCut(g, s, delim, kept, n + 1)
    BY <2>2 DEF IsCut
  <2> QED
    BY <2>3
<1> HIDE DEF S
<1>3. \A n \in Nat : n \in S
  BY <1>1, <1>2, NatSetInduction
<1> QED
  BY <1>3 DEF S

(* The cutting is the last value of that function.                         *)
LEMMA CutDef ==
  ASSUME NEW s, NEW delim, NEW kept, Len(s) \in Nat
  PROVE  \E f : IsCut(f, s, delim, kept, Len(s)) /\ Cut(s, delim, kept) = f[Len(s)]
<1> DEFINE f == CHOOSE f : IsCut(f, s, delim, kept, Len(s))
<1>1. IsCut(f, s, delim, kept, Len(s))
  BY CutExists
<1> QED
  BY <1>1 DEF Cut

(* splitVector cuts and keeps a word that nothing ends.                    *)
LEMMA SplitIsCut ==
  ASSUME NEW s, NEW delim, Len(s) \in Nat
  PROVE  splitVector(s, delim) = withRest(Cut(s, delim, "words"))
BY DEF splitVector, Cut, IsCut, CutTurn, Uncut

(* Two lists that begin alike are cut alike so far.                        *)
LEMMA CutAgree ==
  ASSUME NEW s, NEW t, NEW delim, NEW kept, NEW n \in Nat, NEW m \in Nat, n <= m,
         NEW f, IsCut(f, s, delim, kept, n), NEW g, IsCut(g, t, delim, kept, m),
         \A k \in 1..n : s[k] = t[k]
  PROVE  \A k \in 0..n : f[k] = g[k]
<1> DEFINE S == {k \in Nat : k \in 0..n => f[k] = g[k]}
<1>1. 0 \in S
  <2>1. 0 \in 0..n /\ 0 \in 0..m
    OBVIOUS
  <2>2. f[0] = Uncut /\ g[0] = Uncut
    BY <2>1, CutStep
  <2> QED
    BY <2>2
<1>2. ASSUME NEW k \in Nat, k \in S PROVE k + 1 \in S
  <2> SUFFICES ASSUME k + 1 \in 0..n PROVE f[k + 1] = g[k + 1]
    OBVIOUS
  <2>1. k + 1 \in 0..m /\ k + 1 # 0 /\ k + 1 - 1 = k /\ k \in 0..n /\ k + 1 \in 1..n
    OBVIOUS
  <2>2. f[k + 1] = CutTurn(f[k], s[k + 1], delim, kept) /\ g[k + 1] = CutTurn(g[k], t[k + 1], delim, kept)
    BY <2>1, CutStep
  <2> QED
    BY <1>2, <2>1, <2>2
<1> HIDE DEF S
<1>3. \A k \in Nat : k \in S
  BY <1>1, <1>2, NatSetInduction
<1> QED
  BY <1>3 DEF S

(* Nothing is cut into nothing.                                            *)
LEMMA CutNone ==
  ASSUME NEW delim, NEW kept
  PROVE  Cut(<<>>, delim, kept) = Uncut
<1>1. Len(<<>>) = 0
  OBVIOUS
<1>2. PICK f : IsCut(f, <<>>, delim, kept, 0) /\ Cut(<<>>, delim, kept) = f[0]
  BY <1>1, CutDef
<1>3. 0 \in 0..0
  OBVIOUS
<1> QED
  BY <1>2, <1>3, CutStep

(* One token more is one turn more.                                        *)
LEMMA CutAppend ==
  ASSUME NEW T, NEW s \in Seq(T), NEW t \in T, NEW delim, NEW kept
  PROVE  Cut(Append(s, t), delim, kept) = CutTurn(Cut(s, delim, kept), t, delim, kept)
<1> DEFINE n == Len(s)
           m == n + 1
           more == Append(s, t)
<1>1. n \in Nat /\ Len(more) = m /\ more[m] = t /\ \A k \in 1..n : s[k] = more[k]
  BY LenProperties, AppendProperties
<1> HIDE DEF more, n
<1>2. PICK f : IsCut(f, s, delim, kept, n) /\ Cut(s, delim, kept) = f[n]
  BY <1>1, CutDef DEF n
<1>3. m \in Nat /\ n <= m /\ n \in 0..n /\ m \in 0..m /\ m # 0 /\ m - 1 = n
  BY <1>1
<1>4. PICK g : IsCut(g, more, delim, kept, m) /\ Cut(more, delim, kept) = g[m]
  BY <1>1, <1>3, CutDef
<1> HIDE DEF m
<1>5. \A k \in 0..n : f[k] = g[k]
  <2>1. n \in Nat /\ m \in Nat /\ n <= m /\ \A k \in 1..n : s[k] = more[k]
    BY <1>1, <1>3
  <2>2. IsCut(f, s, delim, kept, n) /\ IsCut(g, more, delim, kept, m)
    BY <1>2, <1>4
  <2> QED
    BY ONLY <2>1, <2>2, CutAgree
<1>6. g[m] = CutTurn(g[n], more[m], delim, kept)
  BY <1>3, <1>4, CutStep
<1> QED
  BY <1>1, <1>2, <1>3, <1>4, <1>5, <1>6 DEF more

(* The words of a line: tokens that are not the delimiter are kept, in     *)
(* their order.                                                            *)
Without(word, delim) == \A k \in DOMAIN word : word[k] # delim

(* What is part of a list without the delimiter has none either.           *)
LEMMA WithoutAppend ==
  ASSUME NEW T, NEW w \in Seq(T), NEW t \in T, NEW delim, Without(Append(w, t), delim)
  PROVE  Without(w, delim) /\ t # delim
<1> DEFINE more == Append(w, t)
<1>1. /\ Len(w) \in Nat /\ DOMAIN w = 1..Len(w) /\ more \in Seq(T) /\ Len(more) = Len(w) + 1
      /\ more[Len(w) + 1] = t /\ \A k \in 1..Len(w) : more[k] = w[k]
  BY LenProperties, AppendProperties
<1> HIDE DEF more
<1>2. DOMAIN more = 1..(Len(w) + 1)
  BY <1>1, LenProperties
<1>3. \A k \in DOMAIN more : more[k] # delim
  BY DEF Without, more
<1>4. Len(w) + 1 \in DOMAIN more /\ \A k \in DOMAIN w : k \in DOMAIN more
  BY <1>1, <1>2
<1> QED
  BY <1>1, <1>3, <1>4 DEF Without

(* Concatenating token by token.                                           *)
LEMMA AppendBehind ==
  ASSUME NEW T, NEW s \in Seq(T), NEW w \in Seq(T), NEW t \in T
  PROVE  s \o Append(w, t) = Append(s \o w, t) /\ s \o w \in Seq(T)
<1> DEFINE e == <<t>>
<1>1. e \in Seq(T)
  OBVIOUS
<1>2. s \o w \in Seq(T)
  BY ConcatProperties
<1>3. Append(w, t) = w \o e /\ Append(s \o w, t) = (s \o w) \o e
  BY <1>2, AppendIsConcat
<1> HIDE DEF e
<1>4. (s \o w) \o e = s \o (w \o e)
  BY <1>1, ConcatAssociative
<1> QED
  BY <1>2, <1>3, <1>4

(* What holds no delimiter is added to the piece that is being cut.        *)
LEMMA CutWord ==
  ASSUME NEW T, NEW s \in Seq(T), NEW delim, NEW kept, NEW p,
         Cut(s, delim, kept) = [pieces |-> p, rest |-> <<>>]
  PROVE  \A w \in Seq(T) : Without(w, delim) => Cut(s \o w, delim, kept) = [pieces |-> p, rest |-> w]
<1> DEFINE S == {w \in Seq(T) : Without(w, delim) => Cut(s \o w, delim, kept) = [pieces |-> p, rest |-> w]}
<1>1. <<>> \in S
  <2>1. s \o <<>> = s /\ <<>> \in Seq(T)
    BY ConcatEmptySeq, EmptySeq
  <2> QED
    BY <2>1
<1>2. ASSUME NEW w \in Seq(T), NEW t \in T, w \in S PROVE Append(w, t) \in S
  <2>1. Append(w, t) \in Seq(T)
    BY AppendProperties
  <2> SUFFICES ASSUME Without(Append(w, t), delim)
               PROVE  Cut(s \o Append(w, t), delim, kept) = [pieces |-> p, rest |-> Append(w, t)]
    BY <2>1
  <2>2. Without(w, delim) /\ t # delim
    BY WithoutAppend
  <2>3. Cut(s \o w, delim, kept) = [pieces |-> p, rest |-> w]
    BY <1>2, <2>2
  <2>4. s \o Append(w, t) = Append(s \o w, t) /\ s \o w \in Seq(T)
    BY AppendBehind
  <2> DEFINE u == s \o w
  <2> HIDE DEF u
  <2>5. Cut(Append(u, t), delim, kept) = CutTurn(Cut(u, delim, kept), t, delim, kept)
    <3>1. u \in Seq(T) /\ t \in T
      BY <2>4 DEF u
    <3> QED
      BY ONLY <3>1, CutAppend
  <2> QED
    BY <2>2, <2>3, <2>4, <2>5 DEF CutTurn, u
<1> HIDE DEF S
<1>3. \A w \in Seq(T) : w \in S
  BY <1>1, <1>2, AppendInduction
<1> QED
  BY <1>3 DEF S

(* What has been joined is cut where it was joined.                        *)
ArePieces(W, T, delim, kept) ==
  /\ delim \in T /\ W \subseteq Seq(T)
  /\ \A w \in W : Without(w, delim)
  /\ kept = "all" \/ \A w \in W : w # <<>>

(* What has been joined is cut into its pieces, the last still being cut.  *)
LEMMA JoinCut ==
  ASSUME NEW T, NEW delim, NEW kept, NEW W, ArePieces(W, T, delim, kept)
  PROVE  \A ws \in Seq(W) : \A w \in W :
           Cut(Join(Append(ws, w), delim), delim, kept) = [pieces |-> ws, rest |-> w]
<1> DEFINE J(ws) == Join(ws, delim)
           S == {ws \in Seq(W) : \A w \in W :
                   Cut(J(Append(ws, w)), delim, kept) = [pieces |-> ws, rest |-> w]}
<1> USE DEF ArePieces
<1>0. \A ws \in Seq(W) : ws \in Seq(Seq(T))
  BY SeqMonotonic
<1>1. <<>> \in S
  <2>1. <<>> \in Seq(W) /\ <<>> \in Seq(T) /\ <<>> \in Seq(Seq(T))
    BY EmptySeq
  <2> SUFFICES ASSUME NEW w \in W
               PROVE  Cut(J(Append(<<>>, w)), delim, kept) = [pieces |-> <<>>, rest |-> w]
    BY <2>1
  <2>2. w \in Seq(T) /\ Without(w, delim)
    OBVIOUS
  <2>3. J(Append(<<>>, w)) = w /\ <<>> \o w = w
    <3>1. J(Append(<<>>, w)) = w
      BY <2>1, <2>2, JoinAppend
    <3>2. <<>> \o w = w
      BY <2>2, ConcatEmptySeq
    <3> QED
      BY <3>1, <3>2
  <2>4. Cut(<<>>, delim, kept) = [pieces |-> <<>>, rest |-> <<>>]
    BY CutNone DEF Uncut
  <2>5. Cut(<<>> \o w, delim, kept) = [pieces |-> <<>>, rest |-> w]
    <3>1. <<>> \in Seq(T) /\ w \in Seq(T) /\ Without(w, delim)
      BY <2>1, <2>2
    <3> DEFINE none == <<>>
    <3>2. Cut(none, delim, kept) = [pieces |-> <<>>, rest |-> <<>>] /\ none \in Seq(T)
      BY <2>4, <3>1
    <3> HIDE DEF none
    <3>3. Cut(none \o w, delim, kept) = [pieces |-> <<>>, rest |-> w]
      BY ONLY <3>1, <3>2, CutWord
    <3> QED
      BY <3>3 DEF none
  <2> QED
    BY <2>3, <2>5
<1>2. ASSUME NEW ws \in Seq(W), NEW v \in W, ws \in S PROVE Append(ws, v) \in S
  <2> DEFINE more == Append(ws, v)
  <2>1. more \in Seq(W) /\ more # <<>>
    BY AppendProperties
  <2> SUFFICES ASSUME NEW w \in W
               PROVE  Cut(J(Append(more, w)), delim, kept) = [pieces |-> more, rest |-> w]
    BY <2>1
  <2>2. w \in Seq(T) /\ Without(w, delim) /\ more \in Seq(Seq(T))
    BY <1>0, <2>1
  <2>3. J(more) \in Seq(T) /\ J(Append(more, w)) = (J(more) \o <<delim>>) \o w
    BY <2>1, <2>2, JoinAppend
  <2>4. Cut(J(more), delim, kept) = [pieces |-> ws, rest |-> v]
    BY <1>2
  <2> DEFINE s == Append(J(more), delim)
  <2>5. s = J(more) \o <<delim>> /\ s \in Seq(T)
    BY <2>3, AppendIsConcat, AppendProperties
  <2>6. Cut(s, delim, kept) = CutTurn(Cut(J(more), delim, kept), delim, delim, kept)
    <3> HIDE DEF J, more
    <3> QED
      BY <2>3, CutAppend
  <2>7. kept = "all" \/ v # <<>>
    OBVIOUS
  <2> HIDE DEF s, J
  <2>8. Cut(s, delim, kept) = [pieces |-> more, rest |-> <<>>]
    <3>1. Cut(s, delim, kept) = CutTurn([pieces |-> ws, rest |-> v], delim, delim, kept)
      BY <2>4, <2>6
    <3>2. CutTurn([pieces |-> ws, rest |-> v], delim, delim, kept) = [pieces |-> more, rest |-> <<>>]
      BY <2>7 DEF CutTurn, withRest
    <3> QED
      BY <3>1, <3>2
  <2> HIDE DEF more
  <2>9. Cut(s \o w, delim, kept) = [pieces |-> more, rest |-> w]
    <3>1. s \in Seq(T) /\ w \in Seq(T) /\ Without(w, delim)
      BY <2>2, <2>5
    <3> QED
      BY ONLY <3>1, <2>8, CutWord
  <2> QED
    BY <2>3, <2>5, <2>9
<1> HIDE DEF S
<1>3. \A ws \in Seq(W) : ws \in S
  BY <1>1, <1>2, AppendInduction
<1> QED
  BY <1>3 DEF S

(* splitVector undoes Join, for words without the delimiter that are not   *)
(* empty.                                                                  *)
LEMMA SplitJoin ==
  ASSUME NEW T, NEW delim \in T, NEW W \in SUBSET Seq(T),
         \A w \in W : w # <<>> /\ Without(w, delim), NEW words \in Seq(W)
  PROVE  splitVector(Join(words, delim), delim) = words
<1>1. words \in Seq(Seq(T)) /\ <<>> \in Seq(T)
  BY SeqMonotonic, EmptySeq
<1>2. Len(Join(words, delim)) \in Nat
  BY <1>1, JoinAppend, LenProperties
<1>3. withRest(Cut(Join(words, delim), delim, "words")) = words
  <2>1. CASE words = <<>>
    <3>1. Join(words, delim) = <<>>
      BY <2>1, FlattenNone, NoneDomain DEF Join
    <3> QED
      BY <2>1, <3>1, CutNone DEF Uncut, withRest
  <2>2. CASE words # <<>>
    <3>1. PICK ws \in Seq(W), w \in W : words = Append(ws, w)
      BY <2>2, SequenceEmptyOrAppend
    <3>2. Cut(Join(words, delim), delim, "words") = [pieces |-> ws, rest |-> w]
      <4>1. ArePieces(W, T, delim, "words")
        BY DEF ArePieces
      <4> QED
        BY <3>1, <4>1, JoinCut
    <3>3. w # <<>>
      OBVIOUS
    <3> QED
      BY <3>1, <3>2, <3>3 DEF withRest
  <2> QED
    BY <2>1, <2>2
<1> QED
  BY <1>2, <1>3, SplitIsCut

(* A text has one list of lines.                                           *)
LEMMA TextInjective ==
  ASSUME NEW a, NEW b, IsSeq(a), IsSeq(b), a # <<>>, b # <<>>, Text(a) = Text(b),
         \A k \in DOMAIN a : IsSeq(a[k]) /\ Without(a[k], EOL),
         \A k \in DOMAIN b : IsSeq(b[k]) /\ Without(b[k], EOL)
  PROVE  a = b
<1> DEFINE T == (Elements(a) \cup Elements(b)) \cup {EOL}
           W == {w \in Seq(T) : Without(w, EOL)}
<1>1. a \in Seq(Seq(Elements(a))) /\ b \in Seq(Seq(Elements(b)))
  BY SeqsTyped
<1>2. a \in Seq(Seq(T)) /\ b \in Seq(Seq(T))
  <2>1. Seq(Elements(a)) \subseteq Seq(T) /\ Seq(Elements(b)) \subseteq Seq(T)
    BY SeqMonotonic
  <2> QED
    BY <1>1, <2>1, SeqMonotonic
<1> HIDE DEF T
<1>3. a \in Seq(W) /\ b \in Seq(W)
  <2>1. Len(a) \in Nat /\ DOMAIN a = 1..Len(a) /\ \A k \in 1..Len(a) : a[k] \in Seq(T)
    BY <1>2, ElementOfSeq, LenProperties
  <2>2. Len(b) \in Nat /\ DOMAIN b = 1..Len(b) /\ \A k \in 1..Len(b) : b[k] \in Seq(T)
    BY <1>2, ElementOfSeq, LenProperties
  <2>3. \A k \in 1..Len(a) : a[k] \in W
    BY <2>1
  <2>4. \A k \in 1..Len(b) : b[k] \in W
    BY <2>2
  <2> QED
    <3>1. a = [k \in 1..Len(a) |-> a[k]] /\ b = [k \in 1..Len(b) |-> b[k]]
      BY <1>2, <2>1, <2>2
    <3>2. a \in [1..Len(a) -> W] /\ b \in [1..Len(b) -> W]
      BY ONLY <2>3, <2>4, <3>1
    <3>3. \A n \in Nat : [1..n -> W] \subseteq Seq(W)
      BY ONLY SeqDef
    <3> QED
      BY ONLY <2>1, <2>2, <3>2, <3>3
<1>4. EOL \in T
  BY DEF T
<1> HIDE DEF W
<1>5. PICK aa \in Seq(W), va \in W : a = Append(aa, va)
  BY <1>3, SequenceEmptyOrAppend
<1>6. PICK bb \in Seq(W), vb \in W : b = Append(bb, vb)
  BY <1>3, SequenceEmptyOrAppend
<1>7. W \in SUBSET Seq(T) /\ \A w \in W : Without(w, EOL)
  BY DEF W
<1>8. /\ Cut(Text(a), EOL, "all") = [pieces |-> aa, rest |-> va]
      /\ Cut(Text(b), EOL, "all") = [pieces |-> bb, rest |-> vb]
  <2>1. \A ws \in Seq(W) : \A w \in W :
          Cut(Join(Append(ws, w), EOL), EOL, "all") = [pieces |-> ws, rest |-> w]
    <3>1. ArePieces(W, T, EOL, "all")
      BY <1>4, <1>7 DEF ArePieces
    <3> QED
      BY <3>1, JoinCut
  <2> QED
    BY <1>5, <1>6, <2>1 DEF Text
<1>9. aa = bb /\ va = vb
  BY <1>8
<1> QED
  BY <1>5, <1>6, <1>9

-----------------------------------------------------------------------------
(***************************************************************************)
(* The lines of a text: no line holds a new line, the words come back, and *)
(* a line that is indented begins with a tab.                              *)
(***************************************************************************)
AreWords(words) == IsSeq(words) /\ words # <<>> /\ \A k \in DOMAIN words : IsWord(words[k])
IsRuled(r) == r.tabs \in 0..2 /\ AreWords(r.words)

(* What is joined from lists of tokens is a list of tokens.                *)
LEMMA JoinTyped ==
  ASSUME NEW T, NEW delim \in T, NEW parts \in Seq(Seq(T))
  PROVE  Join(parts, delim) \in Seq(T)
BY JoinAppend, EmptySeq

(* One part is joined to itself.                                           *)
LEMMA JoinOne ==
  ASSUME NEW T, NEW delim \in T, NEW v \in Seq(T)
  PROVE  Join(<<v>>, delim) = v
<1>1. <<>> \in Seq(Seq(T)) /\ <<v>> = Append(<<>>, v)
  BY EmptySeq
<1> QED
  BY <1>1, JoinAppend

(* Two parts have one delimiter between them.                              *)
LEMMA JoinTwo ==
  ASSUME NEW T, NEW delim \in T, NEW v \in Seq(T), NEW w \in Seq(T)
  PROVE  Join(<<v, w>>, delim) = (v \o <<delim>>) \o w
<1> DEFINE one == <<v>>
<1>1. one \in Seq(Seq(T)) /\ <<v, w>> = Append(one, w) /\ one # <<>>
  OBVIOUS
<1>2. Join(one, delim) = v
  BY JoinOne
<1> HIDE DEF one
<1>3. Join(Append(one, w), delim) = (Join(one, delim) \o <<delim>>) \o w
  BY <1>1, JoinAppend
<1> QED
  BY <1>1, <1>2, <1>3

(* The words of a line are lists of tokens, none a new line or a space.    *)
LEMMA WordsTyped ==
  ASSUME NEW words, AreWords(words)
  PROVE  /\ words \in Seq(Seq(Elements(words)))
         /\ \A t \in Elements(words) : t \notin {EOL, Space}
<1>1. \A k \in DOMAIN words : IsSeq(words[k])
  BY DEF IsWord, AreWords
<1>2. words \in Seq(Seq(Elements(words)))
  BY <1>1, SeqsTyped DEF AreWords
<1>3. \A k \in DOMAIN words : \A n \in DOMAIN words[k] : words[k][n] \notin {EOL, Space}
  BY DEF IsWord, AreWords
<1> QED
  BY <1>2, <1>3 DEF Elements

(* The words of a line that lost its tabs come back.                       *)
LEMMA WordsBack ==
  ASSUME NEW words, AreWords(words)
  PROVE  splitVector(Join(words, Space), Space) = words
<1> DEFINE T == Elements(words) \cup {Space}
           W == {w \in Seq(T) : w # <<>> /\ Without(w, Space)}
<1>1. words \in Seq(Seq(Elements(words)))
  BY WordsTyped
<1>2. words \in Seq(Seq(T))
  <2>1. Seq(Elements(words)) \subseteq Seq(T)
    BY SeqMonotonic
  <2> QED
    BY <1>1, <2>1, SeqMonotonic
<1>3. Space \in T
  OBVIOUS
<1> HIDE DEF T
<1>4. words \in Seq(W)
  <2>1. Len(words) \in Nat /\ DOMAIN words = 1..Len(words) /\ \A k \in 1..Len(words) : words[k] \in Seq(T)
    BY <1>2, ElementOfSeq, LenProperties
  <2>2. \A k \in 1..Len(words) : words[k] # <<>> /\ Without(words[k], Space)
    BY <2>1 DEF IsWord, Without, AreWords
  <2>3. \A k \in 1..Len(words) : words[k] \in W
    BY <2>1, <2>2
  <2> QED
    BY <1>2, <2>1, <2>3
<1>5. W \in SUBSET Seq(T) /\ \A w \in W : w # <<>> /\ Without(w, Space)
  OBVIOUS
<1> HIDE DEF W
<1> QED
  BY <1>3, <1>4, <1>5, SplitJoin

Tabbed(n, j) == [k \in 1..n |-> Tab] \o j

(* A line that is indented: the tabs, then the line.                       *)
LEMMA TabbedAt ==
  ASSUME NEW T, Tab \in T, NEW j \in Seq(T), NEW n \in Nat
  PROVE  /\ Tabbed(n, j) \in Seq(T) /\ Len(Tabbed(n, j)) = n + Len(j)
         /\ \A i \in 1..(n + Len(j)) : Tabbed(n, j)[i] = IF i <= n THEN Tab ELSE j[i - n]
<1> DEFINE tabs == [k \in 1..n |-> Tab]
<1>1. tabs \in Seq(T) /\ Len(tabs) = n /\ \A k \in 1..n : tabs[k] = Tab
  OBVIOUS
<1>2. Len(j) \in Nat
  BY LenProperties
<1> HIDE DEF tabs
<1>3. /\ tabs \o j \in Seq(T) /\ Len(tabs \o j) = Len(tabs) + Len(j)
      /\ \A i \in 1..(Len(tabs) + Len(j)) :
           (tabs \o j)[i] = IF i <= Len(tabs) THEN tabs[i] ELSE j[i - Len(tabs)]
  BY <1>1, ConcatProperties
<1> QED
  BY <1>1, <1>2, <1>3 DEF Tabbed, tabs

(* No tab changes nothing.                                                 *)
LEMMA Untabbed ==
  ASSUME NEW T, NEW j \in Seq(T)
  PROVE  Tabbed(0, j) = j
<1>1. [k \in 1..0 |-> Tab] = <<>>
  OBVIOUS
<1> QED
  BY <1>1, ConcatEmptySeq DEF Tabbed

(* outdentTab takes one tab away, where there is one.                      *)
LEMMA Outdented ==
  ASSUME NEW T, Tab \in T, NEW j \in Seq(T), j # <<>>, NEW n \in Nat, n # 0
  PROVE  outdentTab(Tabbed(n, j)) = Tabbed(n - 1, j)
<1> DEFINE l == Tabbed(n, j)
           p == n - 1
           o == Tabbed(p, j)
           m == Len(j)
<1>1. m \in Nat /\ m # 0 /\ p \in Nat
  BY EmptySeq, LenProperties
<1>2. l \in Seq(T) /\ Len(l) = n + m /\ \A i \in 1..(n + m) : l[i] = IF i <= n THEN Tab ELSE j[i - n]
  BY TabbedAt
<1>3. o \in Seq(T) /\ Len(o) = p + m /\ \A i \in 1..(p + m) : o[i] = IF i <= p THEN Tab ELSE j[i - p]
  BY <1>1, TabbedAt
<1> HIDE DEF l, o, m
<1>4. l # <<>> /\ Len(l) >= 2 /\ l[1] = Tab
  BY <1>1, <1>2, EmptySeq
<1>5. /\ Tail(l) \in Seq(T) /\ Len(Tail(l)) = Len(l) - 1
      /\ \A i \in 1..Len(Tail(l)) : Tail(l)[i] = l[i + 1]
  BY <1>2, <1>4, HeadTailProperties
<1> DEFINE r == Tail(l)
<1> HIDE DEF r
<1>6. r \in Seq(T) /\ Len(r) = p + m /\ \A i \in 1..(p + m) : r[i] = l[i + 1]
  BY <1>1, <1>2, <1>5 DEF r
<1>7. \A i \in 1..(p + m) : r[i] = o[i]
  <2> SUFFICES ASSUME NEW i \in 1..(p + m) PROVE r[i] = o[i]
    OBVIOUS
  <2>1. i \in Nat /\ i + 1 \in 1..(n + m) /\ n = p + 1 /\ i + 1 - n = i - p
    BY <1>1
  <2>2. r[i] = IF i + 1 <= n THEN Tab ELSE j[i + 1 - n]
    BY <1>2, <1>6, <2>1
  <2>3. o[i] = IF i <= p THEN Tab ELSE j[i - p]
    BY <1>3
  <2>4. i + 1 <= n <=> i <= p
    BY <1>1, <2>1
  <2> QED
    BY <2>1, <2>2, <2>3, <2>4
<1>8. r = o
  BY <1>3, <1>6, <1>7, SeqEqual
<1> QED
  BY <1>4, <1>8 DEF outdentTab, l, o, r

(* A line that is not indented is its words joined.                        *)
LEMMA JoinedTokens ==
  ASSUME NEW words, AreWords(words)
  PROVE  /\ Join(words, Space) \in Seq(Elements(words) \cup {Space, Tab})
         /\ Join(words, Space) # <<>>
<1> DEFINE T == Elements(words) \cup {Space, Tab}
<1>1. words \in Seq(Seq(Elements(words)))
  BY WordsTyped
<1>2. words \in Seq(Seq(T))
  <2>1. Seq(Elements(words)) \subseteq Seq(T)
    BY SeqMonotonic
  <2> QED
    BY <1>1, <2>1, SeqMonotonic
<1>3. Space \in T
  OBVIOUS
<1> HIDE DEF T
<1>4. words # <<>>
  BY DEF AreWords
<1>5. PICK ws \in Seq(Seq(T)), w \in Seq(T) : words = Append(ws, w)
  BY <1>2, <1>4, SequenceEmptyOrAppend
<1>6. w # <<>>
  <2>1. w = words[Len(words)] /\ Len(words) \in DOMAIN words
    BY <1>5, AppendProperties, LenProperties
  <2> QED
    BY <2>1 DEF AreWords, IsWord
<1>7. Join(ws, Space) \in Seq(T) /\ Join(words, Space) = IF ws = <<>> THEN w ELSE (Join(ws, Space) \o <<Space>>) \o w
  BY <1>3, <1>5, JoinAppend
<1>8. Join(words, Space) \in Seq(T)
  BY <1>2, <1>3, JoinTyped
<1>9. Join(words, Space) # <<>>
  <2>1. CASE ws = <<>>
    BY <1>6, <1>7, <2>1
  <2>2. CASE ws # <<>>
    <3> DEFINE u == Join(ws, Space) \o <<Space>>
    <3>1. u \in Seq(T)
      BY <1>3, <1>7, ConcatProperties
    <3> HIDE DEF u
    <3>2. u \o w # <<>>
      BY <1>6, <3>1, ConcatSimplifications!concIsEmpty
    <3> QED
      BY <1>7, <2>2, <3>2 DEF u
  <2> QED
    BY <2>1, <2>2
<1> QED
  BY <1>8, <1>9 DEF T

(* What the other lemmas use of the line of some words.                    *)
LEMMA LineOfWords ==
  ASSUME NEW words, AreWords(words), NEW n \in Nat
  PROVE  /\ IsSeq(Line(n, words)) /\ Without(Line(n, words), EOL)
         /\ Line(0, words) = Join(words, Space)
         /\ splitVector(Line(0, words), Space) = words
         /\ n # 0 => Line(n, words)[1] = Tab /\ outdentTab(Line(n, words)) = Line(n - 1, words)
<1> DEFINE T == Elements(words) \cup {Space, Tab}
           j == Join(words, Space)
<1>1. \A m : Line(m, words) = Tabbed(m, j)
  BY DEF Line, Tabbed
<1>2. j \in Seq(T) /\ j # <<>>
  BY JoinedTokens
<1>3. Tab \in T
  OBVIOUS
<1>4. \A x \in T : x # EOL
  BY WordsTyped DEF EOL, Tab, Space
<1>5. splitVector(j, Space) = words
  BY WordsBack
<1> HIDE DEF T, j
<1>6. Tabbed(0, j) = j
  BY <1>2, Untabbed
<1>7. /\ Tabbed(n, j) \in Seq(T) /\ Len(Tabbed(n, j)) = n + Len(j)
      /\ \A i \in 1..(n + Len(j)) : Tabbed(n, j)[i] = IF i <= n THEN Tab ELSE j[i - n]
  BY <1>2, <1>3, TabbedAt
<1>8. IsSeq(Tabbed(n, j)) /\ Without(Tabbed(n, j), EOL)
  <2> DEFINE l == Tabbed(n, j)
  <2>1. l \in Seq(T)
    BY <1>7
  <2> HIDE DEF l
  <2>2. IsSeq(l)
    BY <2>1, SeqIntro
  <2>3. DOMAIN l = 1..Len(l) /\ \A k \in 1..Len(l) : l[k] \in T
    BY <2>1, LenProperties, ElementOfSeq
  <2> QED
    BY <1>4, <2>2, <2>3 DEF Without, l
<1>9. n # 0 => Tabbed(n, j)[1] = Tab /\ outdentTab(Tabbed(n, j)) = Tabbed(n - 1, j)
  <2> SUFFICES ASSUME n # 0 PROVE Tabbed(n, j)[1] = Tab /\ outdentTab(Tabbed(n, j)) = Tabbed(n - 1, j)
    OBVIOUS
  <2>1. Len(j) \in Nat
    BY <1>2, LenProperties
  <2>2. Tabbed(n, j)[1] = Tab
    BY <1>7, <2>1
  <2>3. outdentTab(Tabbed(n, j)) = Tabbed(n - 1, j)
    BY <1>2, <1>3, Outdented
  <2> QED
    BY <2>2, <2>3
<1> QED
  BY <1>1, <1>5, <1>6, <1>8, <1>9 DEF j

(* A bracket, or any line of one word, is that word.                       *)
LEMMA LineOfOne ==
  ASSUME NEW w, IsWord(w)
  PROVE  AreWords(<<w>>) /\ Line(0, <<w>>) = w
<1> DEFINE T == {w[k] : k \in DOMAIN w} \cup {Space}
<1>1. w \in Seq(T)
  <2>1. w \in Seq({w[k] : k \in DOMAIN w})
    BY DEF IsWord, IsSeq
  <2> QED
    BY <2>1, SeqMonotonic
<1>2. Space \in T
  OBVIOUS
<1> HIDE DEF T
<1>3. Join(<<w>>, Space) = w
  BY <1>1, <1>2, JoinOne
<1>4. AreWords(<<w>>)
  BY OneSeq DEF AreWords
<1> QED
  BY <1>3, <1>4, LineOfWords

(* A line that is indented is no bracket: checkBracketSyntax passes it by. *)
LEMMA NoBracketIndented ==
  ASSUME NEW words, AreWords(words), NEW n \in Nat, n # 0
  PROVE  Line(n, words) \notin {OpenBracket, CloseBracket}
<1>1. Line(n, words)[1] = Tab
  BY LineOfWords
<1>2. OpenBracket[1] # Tab /\ CloseBracket[1] # Tab
  BY DEF OpenBracket, CloseBracket, Tab
<1> QED
  BY <1>1, <1>2

(* A line without the token is no location's first line.                   *)
LEMMA NoLocation ==
  ASSUME NEW words, AreWords(words), \A k \in DOMAIN words : \A n \in DOMAIN words[k] : words[k][n] # "location"
  PROVE  ~hasLocation(Line(0, words))
<1> DEFINE T == Elements(words) \cup {Space, Tab}
           l == Line(0, words)
<1>1. l \in Seq(T)
  BY LineOfWords, JoinedTokens
<1>2. "location" \notin T
  BY DEF Elements, Space, Tab
<1> HIDE DEF T, l
<1>3. Len(l) \in Nat /\ \A k \in 1..Len(l) : l[k] \in T
  BY <1>1, LenProperties, ElementOfSeq
<1>4. \A k \in 1..(Len(l) - 1) : k \in 1..Len(l)
  BY <1>3
<1> QED
  BY <1>2, <1>3, <1>4 DEF hasLocation, l

(* The first line of a location is known by its token.                     *)
LEMMA LocationLine ==
  ASSUME NEW path, IsWord(path)
  PROVE  /\ AreWords(<< <<"location">>, path >>)
         /\ hasLocation(Line(0, << <<"location">>, path >>))
<1> DEFINE name == <<"location">>
           words == <<name, path>>
           T == ({path[k] : k \in DOMAIN path} \cup {"location"}) \cup {Space}
<1>1. path \in Seq(T) /\ name \in Seq(T) /\ Space \in T
  <2>1. path \in Seq({path[k] : k \in DOMAIN path})
    BY DEF IsWord, IsSeq
  <2>2. path \in Seq(T)
    BY <2>1, SeqMonotonic
  <2> QED
    BY <2>2
<1> HIDE DEF T
<1>2. IsWord(name)
  BY OneSeq DEF IsWord, EOL, Space
<1>3. AreWords(words)
  <2>1. words = Append(<<name>>, path) /\ IsSeq(<<name>>)
    BY OneSeq
  <2>2. DOMAIN words = {1, 2} /\ words[1] = name /\ words[2] = path
    OBVIOUS
  <2>3. IsSeq(words) /\ words # <<>>
    BY <2>1, AppendSeq
  <2> HIDE DEF words, name
  <2> QED
    BY <1>2, <2>2, <2>3 DEF AreWords
<1>4. Line(0, words) = (name \o <<Space>>) \o path
  <2>1. Line(0, words) = Join(words, Space)
    BY <1>3, LineOfWords
  <2> QED
    BY <1>1, <2>1, JoinTwo
<1> DEFINE s == name \o <<Space>>
<1>5. s \in Seq(T) /\ Len(s) = 2 /\ s[1] = "location" /\ s[2] = Space
  <2> DEFINE e == <<Space>>
  <2>1. name \in Seq(T) /\ e \in Seq(T) /\ Len(name) = 1 /\ Len(e) = 1 /\ name[1] = "location" /\ e[1] = Space
    BY <1>1
  <2> HIDE DEF name, e
  <2>2. /\ name \o e \in Seq(T) /\ Len(name \o e) = Len(name) + Len(e)
        /\ \A i \in 1..(Len(name) + Len(e)) : (name \o e)[i] = IF i <= Len(name) THEN name[i] ELSE e[i - Len(name)]
    BY <2>1, ConcatProperties
  <2> QED
    BY <2>1, <2>2 DEF e
<1> HIDE DEF s
<1> DEFINE l == s \o path
<1>6. Len(path) \in Nat /\ Len(path) # 0
  BY <1>1, LenProperties, EmptySeq DEF IsWord
<1>7. /\ Len(l) = Len(s) + Len(path)
      /\ \A i \in 1..(Len(s) + Len(path)) : l[i] = IF i <= Len(s) THEN s[i] ELSE path[i - Len(s)]
  BY <1>1, <1>5, ConcatProperties
<1> HIDE DEF l
<1>8. 1 \in 1..(Len(l) - 1) /\ l[1] = "location" /\ l[1 + 1] = Space
  BY <1>5, <1>6, <1>7
<1> QED
  BY <1>3, <1>4, <1>8 DEF hasLocation, l, s

-----------------------------------------------------------------------------
(***************************************************************************)
(* Where the parts of a flattened sequence end.                            *)
(***************************************************************************)
IsEnds(e, ss) ==
  /\ e \in [0..Len(ss) -> Nat]
  /\ e[0] = 0 /\ e[Len(ss)] = Len(FlattenSeq(ss))
  /\ \A i \in 1..Len(ss) :
       /\ e[i] = e[i - 1] + Len(ss[i])
       /\ \A n \in 1..Len(ss[i]) : FlattenSeq(ss)[e[i - 1] + n] = ss[i][n]
EndsOf(ss) == CHOOSE e : IsEnds(e, ss)

(* Every flattened sequence has such ends.                                 *)
LEMMA EndsExist ==
  ASSUME NEW ss, IsSeq(ss), \A i \in DOMAIN ss : IsSeq(ss[i])
  PROVE  IsSeq(FlattenSeq(ss)) /\ Len(ss) \in Nat /\ IsEnds(EndsOf(ss), ss)
<1>1. Len(ss) \in Nat /\ DOMAIN ss = 1..Len(ss)
  BY SeqDomain
<1> SUFFICES IsSeq(FlattenSeq(ss)) /\ \E e : IsEnds(e, ss)
  BY <1>1 DEF EndsOf
<1>2. CASE Len(ss) = 0
  <2>1. ss = <<>>
    BY <1>2, EmptySeq DEF IsSeq
  <2>2. FlattenSeq(ss) = <<>> /\ IsSeq(<<>>) /\ Len(<<>>) = 0
    BY <2>1, FlattenNone, NoneDomain
  <2> DEFINE e == [k \in 0..0 |-> 0]
  <2>3. IsEnds(e, ss)
    BY <1>2, <2>2 DEF IsEnds
  <2> QED
    BY <2>2, <2>3
<1>3. CASE Len(ss) # 0
  <2> DEFINE T == Elements(ss)
             n == Len(ss)
  <2>1. ss \in Seq(Seq(T))
    BY SeqsTyped
  <2>2. PICK f : IsFlatten(f, ss, n) /\ FlattenSeq(ss) = f[n]
    BY <1>1, <1>3, FlattenDef
  <2>3. n \in 1..n
    BY <1>1, <1>3
  <2> HIDE DEF T
  <2>4. \A i \in 1..n :
          /\ f[i] \in Seq(T) /\ Offset(f, i) \in Nat /\ Len(ss[i]) \in Nat /\ Len(f[i]) \in Nat
          /\ Len(f[i]) = Offset(f, i) + Len(ss[i])
          /\ \A p \in 1..Len(ss[i]) : f[i][Offset(f, i) + p] = ss[i][p]
    BY <2>1, <2>2, FlattenGrows, LenProperties
  <2>5. \A i \in 1..n : \A p \in 1..Len(f[i]) : f[n][p] = f[i][p]
    <3> TAKE i \in 1..n
    <3>1. i <= n
      BY <1>1
    <3> QED
      BY <2>1, <2>2, <2>3, <3>1, FlattenKeeps
  <2> DEFINE e == [i \in 0..n |-> IF i = 0 THEN 0 ELSE Len(f[i])]
  <2>6. e \in [0..n -> Nat] /\ e[0] = 0 /\ e[n] = Len(FlattenSeq(ss))
    <3>1. \A i \in 0..n : (IF i = 0 THEN 0 ELSE Len(f[i])) \in Nat
      BY <1>1, <2>4
    <3> QED
      BY <1>1, <1>3, <2>2, <3>1
  <2>7. \A i \in 1..n : e[i - 1] = Offset(f, i) /\ e[i] = Len(f[i])
    BY <1>1 DEF Offset
  <2> HIDE DEF e
  <2>8. ASSUME NEW i \in 1..n
        PROVE  /\ e[i] = e[i - 1] + Len(ss[i])
               /\ \A p \in 1..Len(ss[i]) : FlattenSeq(ss)[e[i - 1] + p] = ss[i][p]
    <3>1. e[i] = e[i - 1] + Len(ss[i])
      BY <2>4, <2>7
    <3>2. ASSUME NEW p \in 1..Len(ss[i]) PROVE FlattenSeq(ss)[e[i - 1] + p] = ss[i][p]
      <4> DEFINE q == Offset(f, i) + p
      <4>1. q \in 1..Len(f[i]) /\ f[i][q] = ss[i][p]
        BY <2>4
      <4>2. f[n][q] = f[i][q]
        BY <2>5, <4>1
      <4> QED
        BY <2>2, <2>7, <4>1, <4>2
    <3> QED
      BY <3>1, <3>2
  <2>9. IsEnds(e, ss)
    BY <2>6, <2>8 DEF IsEnds
  <2>10. IsSeq(FlattenSeq(ss))
    BY <2>2, <2>3, <2>4, SeqIntro
  <2> QED
    BY <2>9, <2>10
<1> QED
  BY <1>2, <1>3

(* A part begins where the one before it ends.                             *)
LEMMA EndsAt ==
  ASSUME NEW e, NEW ss, Len(ss) \in Nat, IsEnds(e, ss), NEW i \in 1..Len(ss)
  PROVE  /\ e[i] \in Nat /\ e[i - 1] \in Nat /\ i - 1 \in 0..Len(ss) /\ i \in 0..Len(ss)
         /\ e[i] = e[i - 1] + Len(ss[i])
         /\ \A n \in 1..Len(ss[i]) : FlattenSeq(ss)[e[i - 1] + n] = ss[i][n]
<1>1. i - 1 \in 0..Len(ss) /\ i \in 0..Len(ss)
  OBVIOUS
<1>2. e \in [0..Len(ss) -> Nat]
  BY DEF IsEnds
<1>3. e[i] \in Nat /\ e[i - 1] \in Nat
  BY <1>1, <1>2
<1> QED
  BY <1>1, <1>3 DEF IsEnds

(* The ends are in order.                                                  *)
LEMMA EndsGrow ==
  ASSUME NEW e, NEW ss, Len(ss) \in Nat, IsEnds(e, ss), \A i \in 1..Len(ss) : Len(ss[i]) \in Nat,
         NEW i \in 0..Len(ss)
  PROVE  \A k \in i..Len(ss) : e[i] <= e[k]
<1> DEFINE S == {d \in Nat : i + d <= Len(ss) => e[i] <= e[i + d]}
<1>1. 0 \in S
  <2>1. e[i] \in Nat
    BY DEF IsEnds
  <2> QED
    BY <2>1
<1>2. ASSUME NEW d \in Nat, d \in S PROVE d + 1 \in S
  <2> SUFFICES ASSUME i + (d + 1) <= Len(ss) PROVE e[i] <= e[i + (d + 1)]
    OBVIOUS
  <2>1. i + (d + 1) \in 1..Len(ss) /\ i + (d + 1) - 1 = i + d /\ i + d <= Len(ss)
    OBVIOUS
  <2> DEFINE k == i + (d + 1)
             h == i + d
  <2>2. k \in 1..Len(ss) /\ k - 1 = h
    BY <2>1
  <2> HIDE DEF k
  <2>3. e[k] \in Nat /\ e[h] \in Nat /\ e[k] = e[h] + Len(ss[k]) /\ Len(ss[k]) \in Nat
    BY <2>2, EndsAt
  <2>4. e[i] <= e[h] /\ e[i] \in Nat
    BY <1>2, <2>1 DEF IsEnds
  <2> HIDE DEF h
  <2>5. e[i] <= e[k]
    BY <2>3, <2>4
  <2> QED
    BY <2>5 DEF k
<1> HIDE DEF S
<1>3. \A d \in Nat : d \in S
  BY <1>1, <1>2, NatSetInduction
<1> SUFFICES ASSUME NEW k \in i..Len(ss) PROVE e[i] <= e[k]
  OBVIOUS
<1>4. k - i \in Nat /\ i + (k - i) = k
  OBVIOUS
<1>5. k - i \in S
  BY <1>3, <1>4
<1> QED
  BY <1>4, <1>5 DEF S

Covered(e, ss, p) == \E i \in 1..Len(ss) : \E n \in 1..Len(ss[i]) : p = e[i - 1] + n

(* Every place of the flattened sequence belongs to one of the parts.      *)
LEMMA EndsCover ==
  ASSUME NEW e, NEW ss, Len(ss) \in Nat, IsEnds(e, ss), \A i \in 1..Len(ss) : Len(ss[i]) \in Nat,
         NEW p \in 1..Len(FlattenSeq(ss))
  PROVE  Covered(e, ss, p)
<1> DEFINE Found == \E i \in 1..Len(ss) : \E n \in 1..Len(ss[i]) : p = e[i - 1] + n
           S == {i \in Nat : i <= Len(ss) /\ p <= e[i] => Found}
<1>1. 0 \in S
  <2>1. e[0] = 0
    BY DEF IsEnds
  <2>2. ~(p <= e[0])
    BY <2>1
  <2> QED
    BY <2>2
<1>2. ASSUME NEW i \in Nat, i \in S PROVE i + 1 \in S
  <2> SUFFICES ASSUME i + 1 <= Len(ss), p <= e[i + 1] PROVE Found
    OBVIOUS
  <2> DEFINE k == i + 1
  <2>1. k \in 1..Len(ss) /\ k - 1 = i /\ i <= Len(ss)
    OBVIOUS
  <2>2. p <= e[k]
    OBVIOUS
  <2> HIDE DEF k
  <2>3. e[k] \in Nat /\ e[i] \in Nat /\ e[k] = e[i] + Len(ss[k]) /\ Len(ss[k]) \in Nat
    <3>1. Len(ss) \in Nat /\ IsEnds(e, ss) /\ k \in 1..Len(ss)
      BY <2>1
    <3>2. e[k] \in Nat /\ e[k - 1] \in Nat /\ e[k] = e[k - 1] + Len(ss[k])
      BY ONLY <3>1, EndsAt
    <3> QED
      BY <2>1, <3>2
  <2>4. CASE p <= e[i]
    BY <1>2, <2>1, <2>4
  <2>5. CASE ~(p <= e[i])
    <3> DEFINE n == p - e[i]
    <3>1. n \in 1..Len(ss[k]) /\ p = e[i] + n
      BY <2>2, <2>3, <2>5
    <3> HIDE DEF n
    <3> QED
      BY <2>1, <3>1
  <2> QED
    BY <2>4, <2>5
<1> HIDE DEF S, Found
<1>3. \A i \in Nat : i \in S
  BY <1>1, <1>2, NatSetInduction
<1>4. Len(ss) \in S /\ e[Len(ss)] = Len(FlattenSeq(ss)) /\ e[Len(ss)] \in Nat
  BY <1>3 DEF IsEnds
<1>5. Found
  BY <1>4 DEF S
<1> QED
  BY <1>5 DEF Found, Covered

-----------------------------------------------------------------------------
(***************************************************************************)
(* The plan of a file: which line of its server blocks is where.           *)
(***************************************************************************)
AreBlocks(blocks) ==
  /\ IsSeq(blocks)
  /\ \A s \in DOMAIN blocks : IsSeq(blocks[s]) /\ \A i \in DOMAIN blocks[s] : IsItem(blocks[s][i])

Framed(a, b, x, c) == <<a, b>> \o x \o <<c>>

(* What stands where in a framed list.                                     *)
LEMMA FramedAt ==
  ASSUME NEW a, NEW b, NEW c, NEW x, IsSeq(x)
  PROVE  /\ IsSeq(Framed(a, b, x, c)) /\ Len(x) \in Nat /\ Len(Framed(a, b, x, c)) = Len(x) + 3
         /\ Framed(a, b, x, c)[1] = a /\ Framed(a, b, x, c)[2] = b
         /\ \A k \in 1..Len(x) : Framed(a, b, x, c)[2 + k] = x[k]
         /\ Framed(a, b, x, c)[Len(x) + 3] = c
<1> DEFINE T == {x[k] : k \in DOMAIN x} \cup {a, b, c}
           head == <<a, b>>
           tail == <<c>>
<1>1. x \in Seq(T)
  <2>1. x \in Seq({x[k] : k \in DOMAIN x})
    BY DEF IsSeq
  <2> QED
    BY <2>1, SeqMonotonic
<1>2. /\ head \in Seq(T) /\ Len(head) = 2 /\ head[1] = a /\ head[2] = b
      /\ tail \in Seq(T) /\ Len(tail) = 1 /\ tail[1] = c
  <2>1. a \in T /\ b \in T /\ c \in T
    OBVIOUS
  <2> HIDE DEF T
  <2> QED
    BY <2>1
<1>3. Len(x) \in Nat
  BY <1>1, LenProperties
<1> HIDE DEF T, head, tail
<1> DEFINE m == head \o x
           f == m \o tail
<1>4. /\ m \in Seq(T) /\ Len(m) = 2 + Len(x)
      /\ \A i \in 1..(2 + Len(x)) : m[i] = IF i <= 2 THEN head[i] ELSE x[i - 2]
  <2>1. /\ m \in Seq(T) /\ Len(m) = Len(head) + Len(x)
        /\ \A i \in 1..(Len(head) + Len(x)) : m[i] = IF i <= Len(head) THEN head[i] ELSE x[i - Len(head)]
    BY <1>1, <1>2, ConcatProperties
  <2> QED
    BY <1>2, <2>1
<1> HIDE DEF m
<1>5. /\ f \in Seq(T) /\ Len(f) = (2 + Len(x)) + 1
      /\ \A i \in 1..((2 + Len(x)) + 1) : f[i] = IF i <= 2 + Len(x) THEN m[i] ELSE tail[i - (2 + Len(x))]
  <2>1. /\ f \in Seq(T) /\ Len(f) = Len(m) + Len(tail)
        /\ \A i \in 1..(Len(m) + Len(tail)) : f[i] = IF i <= Len(m) THEN m[i] ELSE tail[i - Len(m)]
    BY <1>2, <1>4, ConcatProperties
  <2> QED
    BY <1>2, <1>4, <2>1
<1>6. f = Framed(a, b, x, c)
  BY DEF Framed, m, head, tail
<1> HIDE DEF f
<1>7. IsSeq(f)
  BY <1>5, SeqIntro
<1> DEFINE n == Len(x)
<1> HIDE DEF n
<1>8. n \in Nat /\ n = Len(x)
  BY <1>3 DEF n
<1>9. f[1] = a /\ f[2] = b
  BY <1>2, <1>4, <1>5, <1>8
<1>10. \A k \in 1..n : f[2 + k] = x[k]
  <2> SUFFICES ASSUME NEW k \in 1..n PROVE f[2 + k] = x[k]
    OBVIOUS
  <2>1. 2 + k \in 1..(2 + n) /\ 2 + k \in 1..((2 + n) + 1) /\ 2 + k - 2 = k /\ ~(2 + k <= 2) /\ 2 + k <= 2 + n
    BY <1>8
  <2> QED
    BY <1>4, <1>5, <1>8, <2>1
<1>11. f[n + 3] = c
  <2>1. n + 3 \in 1..((2 + n) + 1) /\ ~(n + 3 <= 2 + n) /\ n + 3 - (2 + n) = 1
    BY <1>8
  <2> QED
    BY <1>2, <1>5, <1>8, <2>1
<1>12. Len(f) = n + 3
  BY <1>5, <1>8
<1> QED
  BY <1>6, <1>7, <1>8, <1>9, <1>10, <1>11, <1>12

(* The words the plan itself writes are words.                             *)
LEMMA FixedWords ==
  /\ IsWord(<<"server">>) /\ IsWord(OpenBracket) /\ IsWord(CloseBracket)
  /\ AreWords(<< <<"server">> >>) /\ AreWords(<<OpenBracket>>) /\ AreWords(<<CloseBracket>>)
<1>1. \A t : t \notin {EOL, Space} => IsWord(<<t>>)
  BY OneSeq DEF IsWord
<1>2. "server" \notin {EOL, Space} /\ "{" \notin {EOL, Space} /\ "}" \notin {EOL, Space}
  BY DEF EOL, Space
<1>3. IsWord(<<"server">>) /\ IsWord(OpenBracket) /\ IsWord(CloseBracket)
  BY <1>1, <1>2 DEF OpenBracket, CloseBracket
<1> QED
  BY <1>3, LineOfOne

(* The fields of a ruled line.                                             *)
LEMMA RuledOf ==
  ASSUME NEW n, NEW words
  PROVE  Ruled(n, words).tabs = n /\ Ruled(n, words).words = words
BY DEF Ruled

(* The lines of an item are those of its location or of its directive.     *)
LEMMA ItemShape ==
  ASSUME NEW item, IsItem(item)
  PROVE  /\ IsSeq(ItemLines(item))
         /\ ~isLocation(item) =>
              /\ Len(ItemLines(item)) = 1 /\ ItemLines(item)[1] = Ruled(1, item.words)
              /\ AreWords(item.words) /\ IsDirective(item.words) /\ ~hasLocation(Line(0, item.words))
         /\ isLocation(item) =>
              /\ IsWord(item.path) /\ IsSeq(item.body) /\ Len(item.body) \in Nat
              /\ \A k \in 1..Len(item.body) : IsDirective(item.body[k]) /\ AreWords(item.body[k])
              /\ Len(ItemLines(item)) = Len(item.body) + 3
              /\ ItemLines(item)[1] = Ruled(1, << <<"location">>, item.path >>)
              /\ ItemLines(item)[2] = Ruled(1, <<OpenBracket>>)
              /\ \A k \in 1..Len(item.body) : ItemLines(item)[2 + k] = Ruled(2, item.body[k])
              /\ ItemLines(item)[Len(item.body) + 3] = Ruled(1, <<CloseBracket>>)
<1>0. ASSUME NEW words, IsDirective(words) PROVE AreWords(words)
  <2>1. IsSeq(words) /\ \A k \in DOMAIN words : IsWord(words[k])
    BY <1>0 DEF IsDirective
  <2>2. words # <<>>
    BY <1>0, EmptySeq DEF IsDirective
  <2> QED
    BY <2>1, <2>2 DEF AreWords
<1>1. CASE ~isLocation(item)
  <2>1. IsDirective(item.words) /\ AreWords(item.words)
    BY <1>0, <1>1 DEF IsItem
  <2>2. \A k \in DOMAIN item.words : \A n \in DOMAIN item.words[k] : item.words[k][n] # "location"
    BY <1>1 DEF IsItem
  <2>3. ~hasLocation(Line(0, item.words))
    BY <2>1, <2>2, NoLocation
  <2>4. ItemLines(item) = <<Ruled(1, item.words)>>
    BY <1>1 DEF ItemLines
  <2> QED
    BY <1>1, <2>1, <2>3, <2>4, OneSeq
<1>2. CASE isLocation(item)
  <2>1. IsWord(item.path) /\ IsSeq(item.body) /\ \A k \in DOMAIN item.body : IsDirective(item.body[k])
    BY <1>2 DEF IsItem
  <2>2. Len(item.body) \in Nat /\ DOMAIN item.body = 1..Len(item.body)
    BY <2>1, SeqDomain
  <2> DEFINE x == [k \in DOMAIN item.body |-> Ruled(2, item.body[k])]
             a == Ruled(1, << <<"location">>, item.path >>)
             b == Ruled(1, <<OpenBracket>>)
             c == Ruled(1, <<CloseBracket>>)
  <2>3. ItemLines(item) = Framed(a, b, x, c)
    BY <1>2 DEF ItemLines, Framed
  <2>4. IsSeq(x) /\ Len(x) = Len(item.body) /\ \A k \in 1..Len(item.body) : x[k] = Ruled(2, item.body[k])
    <3> DEFINE n == Len(item.body)
    <3>1. n \in Nat /\ x = [k \in 1..n |-> Ruled(2, item.body[k])]
      BY <2>2
    <3>2. x \in Seq({Ruled(2, item.body[k]) : k \in 1..n}) /\ Len(x) = n
      BY <3>1
    <3>3. IsSeq(x)
      BY <3>2, SeqIntro
    <3> QED
      BY <3>1, <3>2, <3>3
  <2> HIDE DEF x, a, b, c
  <2>5. /\ IsSeq(ItemLines(item)) /\ Len(ItemLines(item)) = Len(item.body) + 3
        /\ ItemLines(item)[1] = a /\ ItemLines(item)[2] = b
        /\ \A k \in 1..Len(item.body) : ItemLines(item)[2 + k] = Ruled(2, item.body[k])
        /\ ItemLines(item)[Len(item.body) + 3] = c
    BY <2>3, <2>4, FramedAt
  <2>6. \A k \in 1..Len(item.body) : IsDirective(item.body[k]) /\ AreWords(item.body[k])
    BY <1>0, <2>1, <2>2
  <2> QED
    BY <1>2, <2>1, <2>2, <2>5, <2>6 DEF a, b, c
<1> QED
  BY <1>1, <1>2

(* Every line of an item is indented.                                      *)
LEMMA ItemRuled ==
  ASSUME NEW item, IsItem(item)
  PROVE  \A n \in 1..Len(ItemLines(item)) :
           IsRuled(ItemLines(item)[n]) /\ ItemLines(item)[n].tabs # 0
<1> SUFFICES ASSUME NEW n \in 1..Len(ItemLines(item))
             PROVE  IsRuled(ItemLines(item)[n]) /\ ItemLines(item)[n].tabs # 0
  OBVIOUS
<1> DEFINE l == ItemLines(item)[n]
<1>0. ASSUME NEW t \in {1, 2}, NEW words, AreWords(words), l = Ruled(t, words)
      PROVE  IsRuled(l) /\ l.tabs # 0
  BY <1>0 DEF IsRuled, Ruled
<1>1. CASE ~isLocation(item)
  <2>1. Len(ItemLines(item)) = 1 /\ AreWords(item.words) /\ ItemLines(item)[1] = Ruled(1, item.words)
    BY <1>1, ItemShape
  <2>2. n = 1
    BY <2>1
  <2> QED
    BY <1>0, <2>1, <2>2
<1>2. CASE isLocation(item)
  <2> DEFINE m == Len(item.body)
  <2>1. /\ IsWord(item.path) /\ m \in Nat /\ Len(ItemLines(item)) = m + 3
        /\ \A k \in 1..m : AreWords(item.body[k])
        /\ ItemLines(item)[1] = Ruled(1, << <<"location">>, item.path >>)
        /\ ItemLines(item)[2] = Ruled(1, <<OpenBracket>>)
        /\ \A k \in 1..m : ItemLines(item)[2 + k] = Ruled(2, item.body[k])
        /\ ItemLines(item)[m + 3] = Ruled(1, <<CloseBracket>>)
    BY <1>2, ItemShape
  <2> HIDE DEF m
  <2>2. AreWords(<< <<"location">>, item.path >>) /\ AreWords(<<OpenBracket>>) /\ AreWords(<<CloseBracket>>)
    BY <2>1, LocationLine, FixedWords
  <2>3. CASE n = 1
    BY <1>0, <2>1, <2>2, <2>3
  <2>4. CASE n = 2
    BY <1>0, <2>1, <2>2, <2>4
  <2>5. CASE n = m + 3
    BY <1>0, <2>1, <2>2, <2>5
  <2>6. CASE n \notin {1, 2, m + 3}
    <3> DEFINE k == n - 2
    <3>1. k \in 1..m /\ n = 2 + k
      BY <2>1, <2>6
    <3> QED
      BY <1>0, <2>1, <3>1
  <2> QED
    BY <2>3, <2>4, <2>5, <2>6
<1> QED
  BY <1>1, <1>2

Servers(blocks) == [s \in DOMAIN blocks |-> ServerLines(blocks[s])]
Items(block) == [i \in DOMAIN block |-> ItemLines(block[i])]
Inner(block) == FlattenSeq(Items(block))

(* The last line of server s, and that of item i of server s.              *)
Above(blocks, s) == EndsOf(Servers(blocks))[s]
At(blocks, s, i) == Above(blocks, s - 1) + 2 + EndsOf(Items(blocks[s]))[i]

(* A function over the places of a sequence is a sequence as long.         *)
LEMMA SeqOver ==
  ASSUME NEW s, IsSeq(s), NEW f, f = [k \in DOMAIN s |-> f[k]]
  PROVE  IsSeq(f) /\ Len(f) = Len(s) /\ DOMAIN f = 1..Len(s) /\ Len(s) \in Nat
<1>1. Len(s) \in Nat /\ DOMAIN s = 1..Len(s)
  BY SeqDomain
<1> DEFINE T == {f[k] : k \in DOMAIN s}
           n == Len(s)
<1>2. n \in Nat /\ f = [k \in 1..n |-> f[k]] /\ \A k \in 1..n : f[k] \in T
  BY <1>1
<1> HIDE DEF T, n
<1>3. f \in Seq(T) /\ Len(f) = n /\ DOMAIN f = 1..n
  BY <1>2
<1>4. IsSeq(f)
  BY <1>3, SeqIntro
<1> QED
  BY <1>1, <1>3, <1>4 DEF n

(* The items of a block have ends among its inner lines.                   *)
LEMMA ItemsEnd ==
  ASSUME NEW block, IsSeq(block), \A i \in DOMAIN block : IsItem(block[i])
  PROVE  /\ IsSeq(Inner(block)) /\ Len(Inner(block)) \in Nat /\ Len(block) \in Nat
         /\ DOMAIN block = 1..Len(block)
         /\ Len(Items(block)) = Len(block) /\ IsEnds(EndsOf(Items(block)), Items(block))
         /\ \A i \in 1..Len(block) :
              Items(block)[i] = ItemLines(block[i]) /\ Len(Items(block)[i]) \in Nat
<1> DEFINE ss == Items(block)
<1>1. IsSeq(ss) /\ Len(ss) = Len(block) /\ DOMAIN ss = 1..Len(block) /\ Len(block) \in Nat
  <2>1. ss = [k \in DOMAIN block |-> ss[k]]
    BY DEF Items
  <2> HIDE DEF ss
  <2> QED
    BY <2>1, SeqOver
<1>2. DOMAIN block = 1..Len(block)
  BY SeqDomain
<1>3. \A i \in 1..Len(block) : ss[i] = ItemLines(block[i]) /\ IsSeq(ss[i]) /\ Len(ss[i]) \in Nat
  <2> SUFFICES ASSUME NEW i \in 1..Len(block)
               PROVE  ss[i] = ItemLines(block[i]) /\ IsSeq(ss[i]) /\ Len(ss[i]) \in Nat
    OBVIOUS
  <2>1. ss[i] = ItemLines(block[i])
    BY <1>2 DEF Items
  <2>2. IsSeq(ItemLines(block[i]))
    BY <1>2, ItemShape
  <2> QED
    BY <2>1, <2>2, SeqDomain
<1> HIDE DEF ss
<1>4. IsSeq(FlattenSeq(ss)) /\ IsEnds(EndsOf(ss), ss)
  BY <1>1, <1>3, EndsExist
<1>5. Len(FlattenSeq(ss)) \in Nat
  BY <1>4, SeqDomain
<1> QED
  BY <1>1, <1>2, <1>3, <1>4, <1>5 DEF ss, Inner

(* The lines of a server block.                                            *)
LEMMA ServerShape ==
  ASSUME NEW block, IsSeq(block), \A i \in DOMAIN block : IsItem(block[i])
  PROVE  LET l == ServerLines(block)
             n == Len(Inner(block))
         IN  /\ IsSeq(l) /\ n \in Nat /\ Len(l) = n + 3
             /\ l[1] = Ruled(0, << <<"server">> >>) /\ l[2] = Ruled(0, <<OpenBracket>>)
             /\ \A k \in 1..n : l[2 + k] = Inner(block)[k]
             /\ l[n + 3] = Ruled(0, <<CloseBracket>>)
<1>1. IsSeq(Inner(block))
  BY ItemsEnd
<1>2. ServerLines(block) = Framed(Ruled(0, << <<"server">> >>), Ruled(0, <<OpenBracket>>), Inner(block),
                                  Ruled(0, <<CloseBracket>>))
  BY DEF ServerLines, Framed, Inner, Items
<1> QED
  BY <1>1, <1>2, FramedAt

(* The server blocks have ends among the lines of the file.                *)
LEMMA ServersEnd ==
  ASSUME NEW blocks, AreBlocks(blocks)
  PROVE  /\ IsSeq(RuledLines(blocks)) /\ Len(RuledLines(blocks)) \in Nat /\ Len(blocks) \in Nat
         /\ DOMAIN blocks = 1..Len(blocks)
         /\ FlattenSeq(Servers(blocks)) = RuledLines(blocks)
         /\ Len(Servers(blocks)) = Len(blocks) /\ IsEnds(EndsOf(Servers(blocks)), Servers(blocks))
         /\ \A s \in 1..Len(blocks) :
              Servers(blocks)[s] = ServerLines(blocks[s]) /\ Len(Servers(blocks)[s]) \in Nat
<1> DEFINE ss == Servers(blocks)
<1>0. IsSeq(blocks)
  BY DEF AreBlocks
<1>1. IsSeq(ss) /\ Len(ss) = Len(blocks) /\ DOMAIN ss = 1..Len(blocks) /\ Len(blocks) \in Nat
  <2>1. ss = [k \in DOMAIN blocks |-> ss[k]]
    BY DEF Servers
  <2> HIDE DEF ss
  <2> QED
    BY <1>0, <2>1, SeqOver
<1>2. DOMAIN blocks = 1..Len(blocks)
  BY <1>0, SeqDomain
<1>3. \A s \in 1..Len(blocks) : ss[s] = ServerLines(blocks[s]) /\ IsSeq(ss[s]) /\ Len(ss[s]) \in Nat
  <2> SUFFICES ASSUME NEW s \in 1..Len(blocks)
               PROVE  ss[s] = ServerLines(blocks[s]) /\ IsSeq(ss[s]) /\ Len(ss[s]) \in Nat
    OBVIOUS
  <2>1. ss[s] = ServerLines(blocks[s])
    BY <1>2 DEF Servers
  <2>2. IsSeq(blocks[s]) /\ \A i \in DOMAIN blocks[s] : IsItem(blocks[s][i])
    BY <1>2 DEF AreBlocks
  <2>3. IsSeq(ServerLines(blocks[s]))
    BY <2>2, ServerShape
  <2> QED
    BY <2>1, <2>3, SeqDomain
<1> HIDE DEF ss
<1>4. IsSeq(FlattenSeq(ss)) /\ IsEnds(EndsOf(ss), ss)
  BY <1>1, <1>3, EndsExist
<1>5. Len(FlattenSeq(ss)) \in Nat
  BY <1>4, SeqDomain
<1>6. FlattenSeq(ss) = RuledLines(blocks)
  BY DEF ss, Servers, RuledLines
<1> QED
  BY <1>1, <1>2, <1>3, <1>4, <1>5, <1>6 DEF ss

(* The blocks follow each other from the first line of the file to the     *)
(* last.                                                                   *)
LEMMA AboveGrows ==
  ASSUME NEW blocks, AreBlocks(blocks)
  PROVE  /\ Above(blocks, 0) = 0 /\ Above(blocks, Len(blocks)) = Len(RuledLines(blocks))
         /\ \A s \in 0..Len(blocks) : /\ Above(blocks, s) \in Nat
                                      /\ \A k \in s..Len(blocks) : Above(blocks, s) <= Above(blocks, k)
<1> DEFINE ss == Servers(blocks)
           e == EndsOf(ss)
<1>1. /\ Len(ss) \in Nat /\ Len(ss) = Len(blocks) /\ IsEnds(e, ss) /\ FlattenSeq(ss) = RuledLines(blocks)
      /\ \A s \in 1..Len(ss) : Len(ss[s]) \in Nat
  BY ServersEnd
<1>2. \A s : Above(blocks, s) = e[s]
  BY DEF Above
<1> HIDE DEF ss, e
<1>3. \A s \in 0..Len(ss) : \A k \in s..Len(ss) : e[s] <= e[k]
  BY <1>1, EndsGrow
<1>4. e[0] = 0 /\ e[Len(ss)] = Len(FlattenSeq(ss)) /\ \A s \in 0..Len(ss) : e[s] \in Nat
  BY <1>1 DEF IsEnds
<1> QED
  BY <1>1, <1>2, <1>3, <1>4

(* Where the lines of server s are.                                        *)
LEMMA PlanServer ==
  ASSUME NEW blocks, AreBlocks(blocks), NEW s \in 1..Len(blocks)
  PROVE  LET top == Above(blocks, s - 1)
             end == Above(blocks, s)
             R   == RuledLines(blocks)
         IN  /\ top \in Nat /\ end \in Nat /\ end = top + 3 + Len(Inner(blocks[s])) /\ end <= Len(R)
             /\ IsSeq(blocks[s]) /\ \A i \in DOMAIN blocks[s] : IsItem(blocks[s][i])
             /\ R[top + 1] = Ruled(0, << <<"server">> >>) /\ R[top + 2] = Ruled(0, <<OpenBracket>>)
             /\ \A k \in 1..Len(Inner(blocks[s])) : R[top + 2 + k] = Inner(blocks[s])[k]
             /\ R[end] = Ruled(0, <<CloseBracket>>)
             /\ At(blocks, s, 0) = top + 2 /\ At(blocks, s, Len(blocks[s])) = end - 1
<1> DEFINE ss == Servers(blocks)
           e == EndsOf(ss)
           top == Above(blocks, s - 1)
           end == Above(blocks, s)
           R == RuledLines(blocks)
           block == blocks[s]
           n == Len(Inner(block))
           l == ServerLines(block)
<1>1. /\ Len(ss) \in Nat /\ Len(ss) = Len(blocks) /\ IsEnds(e, ss) /\ FlattenSeq(ss) = R
      /\ ss[s] = l /\ DOMAIN blocks = 1..Len(blocks)
  BY ServersEnd
<1>2. IsSeq(block) /\ \A i \in DOMAIN block : IsItem(block[i])
  BY <1>1 DEF AreBlocks
<1>3. /\ n \in Nat /\ Len(l) = n + 3
      /\ l[1] = Ruled(0, << <<"server">> >>) /\ l[2] = Ruled(0, <<OpenBracket>>)
      /\ \A k \in 1..n : l[2 + k] = Inner(block)[k]
      /\ l[n + 3] = Ruled(0, <<CloseBracket>>)
  <2> HIDE DEF block
  <2> QED
    BY <1>2, ServerShape
<1>4. end <= Len(R)
  <2>1. s \in 0..Len(blocks) /\ Len(blocks) \in s..Len(blocks)
    BY <1>1
  <2> QED
    BY <2>1, AboveGrows
<1>5. top = e[s - 1] /\ end = e[s]
  BY DEF Above
<1> HIDE DEF ss, e
<1>6. /\ end \in Nat /\ top \in Nat /\ end = top + Len(ss[s])
      /\ \A k \in 1..Len(ss[s]) : FlattenSeq(ss)[top + k] = ss[s][k]
  BY <1>1, <1>5, EndsAt
<1> HIDE DEF top, end, l, R, n
<1>7. end = top + 3 + n /\ \A k \in 1..(n + 3) : R[top + k] = l[k]
  <2>1. Len(ss[s]) = n + 3
    BY <1>1, <1>3
  <2>2. end = top + 3 + n
    BY <1>3, <1>6, <2>1
  <2>3. \A k \in 1..(n + 3) : R[top + k] = l[k]
    BY <1>1, <1>6, <2>1
  <2> QED
    BY <2>2, <2>3
<1>8. R[top + 1] = l[1] /\ R[top + 2] = l[2]
  BY <1>3, <1>7
<1>9. \A k \in 1..n : R[top + 2 + k] = l[2 + k]
  <2> SUFFICES ASSUME NEW k \in 1..n PROVE R[top + 2 + k] = l[2 + k]
    OBVIOUS
  <2>1. 2 + k \in 1..(n + 3) /\ top + 2 + k = top + (2 + k)
    BY <1>3, <1>6
  <2> QED
    BY <1>7, <2>1
<1>10. R[end] = l[n + 3]
  <2>1. n + 3 \in 1..(n + 3) /\ end = top + (n + 3)
    BY <1>3, <1>6, <1>7
  <2> QED
    BY <1>7, <2>1
<1>11. EndsOf(Items(block))[0] = 0 /\ EndsOf(Items(block))[Len(block)] = n
  BY <1>2, ItemsEnd DEF IsEnds, n, Inner
<1>12. At(blocks, s, 0) = top + 2 /\ At(blocks, s, Len(block)) = end - 1
  <2>1. At(blocks, s, 0) = top + 2 + 0 /\ At(blocks, s, Len(block)) = top + 2 + n
    <3>1. \A k : At(blocks, s, k) = top + 2 + EndsOf(Items(block))[k]
      BY DEF At, top
    <3> HIDE DEF top, n, block
    <3> QED
      BY ONLY <1>11, <3>1
  <2>2. top \in Nat /\ n \in Nat /\ end = top + 3 + n
    BY <1>3, <1>6, <1>7
  <2> HIDE DEF top, end, n
  <2> QED
    BY ONLY <2>1, <2>2
<1> QED
  BY <1>2, <1>3, <1>4, <1>6, <1>7, <1>8, <1>9, <1>10, <1>12 DEF top, end, R, n

(* The items of a block are between its brackets, in their order.          *)
LEMMA PlanOrder ==
  ASSUME NEW blocks, AreBlocks(blocks), NEW s \in 1..Len(blocks)
  PROVE  \A i \in 0..Len(blocks[s]) :
           /\ At(blocks, s, i) \in Nat
           /\ Above(blocks, s - 1) + 2 <= At(blocks, s, i) /\ At(blocks, s, i) <= Above(blocks, s) - 1
           /\ \A k \in i..Len(blocks[s]) : At(blocks, s, i) <= At(blocks, s, k)
<1> DEFINE block == blocks[s]
           ss == Items(block)
           e == EndsOf(ss)
           top == Above(blocks, s - 1)
           end == Above(blocks, s)
           n == Len(block)
<1>1. IsSeq(block) /\ \A i \in DOMAIN block : IsItem(block[i])
  BY PlanServer
<1>2. top \in Nat /\ end \in Nat /\ At(blocks, s, 0) = top + 2 /\ At(blocks, s, n) = end - 1
  BY PlanServer
<1>3. \A i : At(blocks, s, i) = top + 2 + e[i]
  BY DEF At
<1> HIDE DEF block
<1>4. n \in Nat /\ Len(ss) = n /\ IsEnds(e, ss) /\ \A i \in 1..n : Len(ss[i]) \in Nat
  BY <1>1, ItemsEnd
<1> HIDE DEF ss, e, top, end, n
<1>5. \A i \in 0..n : \A k \in i..n : e[i] <= e[k]
  BY <1>4, EndsGrow
<1>6. \A i \in 0..n : e[i] \in Nat
  BY <1>4 DEF IsEnds
<1>7. ASSUME NEW i \in 0..n
      PROVE  /\ At(blocks, s, i) \in Nat
             /\ top + 2 <= At(blocks, s, i) /\ At(blocks, s, i) <= end - 1
             /\ \A k \in i..n : At(blocks, s, i) <= At(blocks, s, k)
  <2>1. n \in i..n /\ n \in 0..n
    BY <1>4
  <2>2. e[i] \in Nat /\ e[n] \in Nat /\ e[i] <= e[n]
    BY <1>5, <1>6, <2>1
  <2>3. \A k \in i..n : e[k] \in Nat /\ e[i] <= e[k]
    BY <1>4, <1>5, <1>6
  <2>4. top + 2 + e[n] = end - 1
    BY <1>2, <1>3
  <2>5. \A k \in i..n : top + 2 + e[i] <= top + 2 + e[k]
    BY ONLY <1>2, <2>2, <2>3
  <2>6. top + 2 + e[i] \in Nat /\ top + 2 <= top + 2 + e[i] /\ top + 2 + e[i] <= end - 1
    BY ONLY <1>2, <2>2, <2>4
  <2> QED
    BY ONLY <1>3, <2>5, <2>6
<1> QED
  BY <1>7 DEF top, end, n, block

(* Where the lines of item i of server s are.                              *)
LEMMA PlanItem ==
  ASSUME NEW blocks, AreBlocks(blocks), NEW s \in 1..Len(blocks), NEW i \in 1..Len(blocks[s])
  PROVE  LET item == blocks[s][i]
             from == At(blocks, s, i - 1)
         IN  /\ IsItem(item) /\ Len(ItemLines(item)) \in Nat /\ i - 1 \in 0..Len(blocks[s])
             /\ from \in Nat /\ Above(blocks, s - 1) + 2 <= from
             /\ At(blocks, s, i) = from + Len(ItemLines(item)) /\ At(blocks, s, i) <= Above(blocks, s) - 1
             /\ \A n \in 1..Len(ItemLines(item)) : RuledLines(blocks)[from + n] = ItemLines(item)[n]
<1> DEFINE block == blocks[s]
           ss == Items(block)
           e == EndsOf(ss)
           top == Above(blocks, s - 1)
           R == RuledLines(blocks)
           x == Inner(block)
           l == ItemLines(block[i])
<1>1. IsSeq(block) /\ \A k \in DOMAIN block : IsItem(block[k])
  BY PlanServer
<1>2. top \in Nat /\ \A k \in 1..Len(x) : R[top + 2 + k] = x[k]
  BY PlanServer
<1>3. \A k : At(blocks, s, k) = top + 2 + e[k]
  BY DEF At
<1>4. /\ DOMAIN block = 1..Len(block) /\ Len(block) \in Nat /\ Len(ss) = Len(block) /\ IsEnds(e, ss)
      /\ ss[i] = l /\ Len(ss[i]) \in Nat /\ Len(x) \in Nat /\ x = FlattenSeq(ss)
      /\ \A k \in 1..Len(block) : Len(ss[k]) \in Nat
  <2> HIDE DEF ss
  <2>1. i \in 1..Len(block)
    OBVIOUS
  <2> HIDE DEF block
  <2> QED
    BY <1>1, <2>1, ItemsEnd DEF ss, Inner
<1>5. IsItem(block[i])
  BY <1>1, <1>4
<1>6. i \in 1..Len(ss)
  BY <1>4
<1> HIDE DEF ss, e, x, top, R, block, l
<1>7. /\ e[i] \in Nat /\ e[i - 1] \in Nat /\ i - 1 \in 0..Len(ss) /\ e[i] = e[i - 1] + Len(ss[i])
      /\ \A n \in 1..Len(ss[i]) : FlattenSeq(ss)[e[i - 1] + n] = ss[i][n]
  <2>1. Len(ss) \in Nat /\ IsEnds(e, ss) /\ i \in 1..Len(ss)
    BY <1>4, <1>6
  <2>2. i - 1 \in 0..Len(ss) /\ i \in 0..Len(ss)
    BY ONLY <2>1
  <2>3. e[i] \in Nat /\ e[i - 1] \in Nat
    BY ONLY <2>1, <2>2 DEF IsEnds
  <2>4. e[i] = e[i - 1] + Len(ss[i]) /\ \A n \in 1..Len(ss[i]) : FlattenSeq(ss)[e[i - 1] + n] = ss[i][n]
    BY ONLY <2>1 DEF IsEnds
  <2> QED
    BY <2>2, <2>3, <2>4
<1>8. e[i] <= Len(x)
  <2>1. i \in 0..Len(ss) /\ Len(ss) \in i..Len(ss)
    BY <1>4, <1>6
  <2>2. e[i] <= e[Len(ss)]
    BY <1>4, <2>1, EndsGrow
  <2>3. e[Len(ss)] = Len(x)
    BY <1>4 DEF IsEnds
  <2> QED
    BY <2>2, <2>3
<1> DEFINE from == At(blocks, s, i - 1)
<1>9. from = top + 2 + e[i - 1] /\ At(blocks, s, i) = from + Len(l) /\ Len(l) \in Nat /\ from \in Nat
  <2>1. from = top + 2 + e[i - 1] /\ At(blocks, s, i) = top + 2 + e[i]
    BY <1>3
  <2>2. Len(l) \in Nat /\ e[i] = e[i - 1] + Len(l) /\ e[i - 1] \in Nat /\ e[i] \in Nat
    BY <1>4, <1>7
  <2>3. \A t \in Nat : \A c \in Nat : \A d \in Nat : t + 2 + (c + d) = (t + 2 + c) + d
    OBVIOUS
  <2>4. top + 2 + e[i] = (top + 2 + e[i - 1]) + Len(l)
    BY ONLY <1>2, <2>2, <2>3
  <2>5. top + 2 + e[i - 1] \in Nat
    BY ONLY <1>2, <2>2
  <2> HIDE DEF from
  <2> QED
    BY ONLY <2>1, <2>2, <2>4, <2>5
<1>10. ASSUME NEW n \in 1..Len(l) PROVE R[from + n] = l[n]
  <2> DEFINE q == e[i - 1] + n
  <2>1. q \in 1..Len(x) /\ from + n = top + 2 + q
    <3>1. e[i - 1] \in Nat /\ Len(x) \in Nat /\ e[i - 1] + Len(l) <= Len(x) /\ n \in 1..Len(l) /\ Len(l) \in Nat
      BY <1>4, <1>7, <1>8, <1>9
    <3>2. q \in 1..Len(x)
      BY <3>1
    <3>3. from + n = top + 2 + q
      BY <1>2, <1>9, <3>1
    <3> QED
      BY <3>2, <3>3
  <2>2. x[q] = l[n]
    BY <1>4, <1>7
  <2> HIDE DEF q, from
  <2> QED
    BY <1>2, <2>1, <2>2
<1>11. At(blocks, s, i) <= Above(blocks, s) - 1
  <2>1. i \in 0..Len(blocks[s])
    BY <1>4, <1>6 DEF block
  <2> QED
    BY <2>1, PlanOrder
<1>12. i - 1 \in 0..Len(blocks[s])
  BY <1>4, <1>7 DEF block
<1>13. top + 2 <= from
  BY <1>2, <1>7, <1>9
<1> QED
  BY <1>5, <1>9, <1>10, <1>11, <1>12, <1>13 DEF block, l, R, top

(* Every line between the brackets of a block belongs to one of its items. *)
LEMMA PlanCover ==
  ASSUME NEW blocks, AreBlocks(blocks), NEW s \in 1..Len(blocks),
         NEW p \in (Above(blocks, s - 1) + 3)..(Above(blocks, s) - 1)
  PROVE  \E i \in 1..Len(blocks[s]) : \E n \in 1..Len(ItemLines(blocks[s][i])) :
           p = At(blocks, s, i - 1) + n
<1> DEFINE block == blocks[s]
           ss == Items(block)
           e == EndsOf(ss)
           top == Above(blocks, s - 1)
           end == Above(blocks, s)
           x == Inner(block)
           q == p - (top + 2)
<1>1. IsSeq(block) /\ \A k \in DOMAIN block : IsItem(block[k])
  BY PlanServer
<1>2. top \in Nat /\ end \in Nat /\ end = top + 3 + Len(x)
  BY PlanServer
<1>3. \A k : At(blocks, s, k) = top + 2 + e[k]
  BY DEF At
<1>4. /\ Len(block) \in Nat /\ Len(ss) = Len(block) /\ IsEnds(e, ss) /\ Len(x) \in Nat /\ x = FlattenSeq(ss)
      /\ \A k \in 1..Len(block) : ss[k] = ItemLines(block[k]) /\ Len(ss[k]) \in Nat
  <2> HIDE DEF ss, block
  <2> QED
    BY <1>1, ItemsEnd DEF ss, Inner
<1>5. q \in 1..Len(x) /\ p = top + 2 + q
  <2>1. Len(x) \in Nat /\ p \in (top + 3)..(end - 1)
    BY <1>4
  <2> HIDE DEF x, top, end
  <2> QED
    BY ONLY <1>2, <2>1 DEF q
<1> HIDE DEF ss, e, x, top, end, block, q
<1>6. PICK i \in 1..Len(ss) : \E n \in 1..Len(ss[i]) : q = e[i - 1] + n
  <2>1. /\ Len(ss) \in Nat /\ IsEnds(e, ss) /\ \A k \in 1..Len(ss) : Len(ss[k]) \in Nat
        /\ q \in 1..Len(FlattenSeq(ss))
    BY <1>4, <1>5
  <2>2. Covered(e, ss, q)
    BY ONLY <2>1, EndsCover
  <2> QED
    BY <2>2 DEF Covered
<1>7. PICK n \in 1..Len(ss[i]) : q = e[i - 1] + n
  BY <1>6
<1>8. i \in 1..Len(block) /\ ss[i] = ItemLines(block[i]) /\ n \in 1..Len(ItemLines(block[i]))
  BY <1>4, <1>7
<1>9. e[i - 1] \in Nat /\ n \in Nat
  BY <1>4, <1>6, EndsAt
<1>10. p = At(blocks, s, i - 1) + n
  <2>1. At(blocks, s, i - 1) = top + 2 + e[i - 1]
    BY <1>3
  <2>2. \A t \in Nat : \A c \in Nat : \A d \in Nat : t + 2 + (c + d) = (t + 2 + c) + d
    OBVIOUS
  <2>3. top \in Nat /\ p = top + 2 + (e[i - 1] + n)
    BY ONLY <1>2, <1>5, <1>7
  <2>4. top + 2 + (e[i - 1] + n) = (top + 2 + e[i - 1]) + n
    BY ONLY <1>9, <2>2, <2>3
  <2> QED
    BY ONLY <2>1, <2>3, <2>4
<1> QED
  BY <1>8, <1>10 DEF block

(* Every line between the brackets of a block is indented.                 *)
LEMMA PlanRuled ==
  ASSUME NEW blocks, AreBlocks(blocks)
  PROVE  \A s \in 1..Len(blocks) :
           \A p \in (Above(blocks, s - 1) + 3)..(Above(blocks, s) - 1) :
             IsRuled(RuledLines(blocks)[p]) /\ RuledLines(blocks)[p].tabs # 0
<1> SUFFICES ASSUME NEW s \in 1..Len(blocks),
                    NEW p \in (Above(blocks, s - 1) + 3)..(Above(blocks, s) - 1)
             PROVE  IsRuled(RuledLines(blocks)[p]) /\ RuledLines(blocks)[p].tabs # 0
  OBVIOUS
<1>1. PICK i \in 1..Len(blocks[s]) : \E n \in 1..Len(ItemLines(blocks[s][i])) : p = At(blocks, s, i - 1) + n
  BY PlanCover
<1>2. PICK n \in 1..Len(ItemLines(blocks[s][i])) : p = At(blocks, s, i - 1) + n
  BY <1>1
<1>3. IsItem(blocks[s][i]) /\ RuledLines(blocks)[p] = ItemLines(blocks[s][i])[n]
  <2>1. /\ IsItem(blocks[s][i])
        /\ \A j \in 1..Len(ItemLines(blocks[s][i])) :
             RuledLines(blocks)[At(blocks, s, i - 1) + j] = ItemLines(blocks[s][i])[j]
    BY PlanItem
  <2> QED
    BY <1>2, <2>1
<1> QED
  BY <1>3, ItemRuled

(* Every line of a file is a ruled one.                                    *)
LEMMA AllRuled ==
  ASSUME NEW blocks, AreBlocks(blocks)
  PROVE  \A p \in 1..Len(RuledLines(blocks)) : IsRuled(RuledLines(blocks)[p])
<1> SUFFICES ASSUME NEW p \in 1..Len(RuledLines(blocks)) PROVE IsRuled(RuledLines(blocks)[p])
  OBVIOUS
<1> DEFINE ss == Servers(blocks)
           e == EndsOf(ss)
           R == RuledLines(blocks)
<1>1. /\ Len(ss) \in Nat /\ Len(ss) = Len(blocks) /\ IsEnds(e, ss) /\ FlattenSeq(ss) = R
      /\ \A s \in 1..Len(ss) : Len(ss[s]) \in Nat
  BY ServersEnd
<1>2. \A s : Above(blocks, s) = e[s]
  BY DEF Above
<1>3. p \in 1..Len(FlattenSeq(ss))
  BY <1>1
<1> HIDE DEF ss, e, R
<1>4. PICK s \in 1..Len(ss) : \E n \in 1..Len(ss[s]) : p = e[s - 1] + n
  BY <1>1, <1>3, EndsCover DEF Covered
<1>5. s \in 1..Len(blocks) /\ e[s] = e[s - 1] + Len(ss[s]) /\ e[s] \in Nat /\ e[s - 1] \in Nat
  BY <1>1, EndsAt
<1> DEFINE top == Above(blocks, s - 1)
           end == Above(blocks, s)
<1>6. /\ top \in Nat /\ end \in Nat
      /\ R[top + 1] = Ruled(0, << <<"server">> >>) /\ R[top + 2] = Ruled(0, <<OpenBracket>>)
      /\ R[end] = Ruled(0, <<CloseBracket>>)
  BY <1>5, PlanServer DEF R
<1>7. p \in (top + 1)..end
  BY <1>1, <1>2, <1>4, <1>5
<1>8. ASSUME NEW words, AreWords(words) PROVE IsRuled(Ruled(0, words))
  BY <1>8 DEF IsRuled, Ruled
<1> HIDE DEF top, end
<1>9. CASE p = top + 1
  BY <1>6, <1>8, <1>9, FixedWords DEF R
<1>10. CASE p = top + 2
  BY <1>6, <1>8, <1>10, FixedWords DEF R
<1>11. CASE p = end
  BY <1>6, <1>8, <1>11, FixedWords DEF R
<1>12. CASE p \notin {top + 1, top + 2, end}
  <2>1. p \in (top + 3)..(end - 1)
    BY <1>6, <1>7, <1>12
  <2> QED
    BY <1>5, <2>1, PlanRuled DEF top, end
<1> QED
  BY <1>9, <1>10, <1>11, <1>12

-----------------------------------------------------------------------------
(***************************************************************************)
(* What is picked from the items of a block: its locations, its directives.*)
(***************************************************************************)
Singles(n, S, v) == [k \in 1..n |-> IF k \in S THEN <<v[k]>> ELSE <<>>]
Picks(n, S, v) == FlattenSeq(Singles(n, S, v))

(* Of no places nothing is picked.                                         *)
LEMMA PicksNone ==
  ASSUME NEW S, NEW v
  PROVE  Picks(0, S, v) = <<>>
<1>1. Singles(0, S, v) = <<>>
  BY DEF Singles
<1> QED
  BY <1>1, FlattenNone DEF Picks

(* One place more is picked or is not.                                     *)
LEMMA PicksStep ==
  ASSUME NEW n \in Nat, NEW S, NEW v, IsSeq(Picks(n, S, v))
  PROVE  Picks(n + 1, S, v) = IF n + 1 \in S THEN Append(Picks(n, S, v), v[n + 1]) ELSE Picks(n, S, v)
<1> DEFINE T == {v[k] : k \in 1..(n + 1)}
           f == Singles(n, S, v)
           g == Singles(n + 1, S, v)
           e == IF n + 1 \in S THEN <<v[n + 1]>> ELSE <<>>
<1>1. \A k \in 1..(n + 1) : (IF k \in S THEN <<v[k]>> ELSE <<>>) \in Seq(T)
  <2> SUFFICES ASSUME NEW k \in 1..(n + 1) PROVE (IF k \in S THEN <<v[k]>> ELSE <<>>) \in Seq(T)
    OBVIOUS
  <2>1. v[k] \in T
    OBVIOUS
  <2> HIDE DEF T
  <2> QED
    BY <2>1
<1>2. n \in Nat /\ \A k \in 1..n : k \in 1..(n + 1)
  OBVIOUS
<1>3. n + 1 \in 1..(n + 1)
  OBVIOUS
<1>4. e \in Seq(T)
  BY <1>1, <1>3
<1> HIDE DEF T, e
<1>5. f \in Seq(Seq(T)) /\ Len(f) = n
  BY <1>1, <1>2 DEF Singles
<1>6. g = Append(f, e)
  <2>1. g \in Seq(Seq(T)) /\ Len(g) = n + 1
    BY <1>1 DEF Singles
  <2>2. /\ Append(f, e) \in Seq(Seq(T)) /\ Len(Append(f, e)) = n + 1
        /\ \A k \in 1..n : Append(f, e)[k] = f[k] /\ Append(f, e)[n + 1] = e
    BY <1>4, <1>5, AppendProperties
  <2>3. \A k \in 1..n : g[k] = f[k]
    BY DEF Singles
  <2>4. g[n + 1] = e /\ Append(f, e)[n + 1] = e
    <3>1. g[n + 1] = e
      BY <1>3 DEF Singles, e
    <3>2. Append(f, e)[Len(f) + 1] = e
      BY <1>4, <1>5, AppendProperties
    <3> QED
      BY <1>5, <3>1, <3>2
  <2> HIDE DEF f, g
  <2>5. \A k \in 1..(n + 1) : g[k] = Append(f, e)[k]
    <3> SUFFICES ASSUME NEW k \in 1..(n + 1) PROVE g[k] = Append(f, e)[k]
      OBVIOUS
    <3>1. CASE k = n + 1
      BY <2>4, <3>1
    <3>2. CASE k # n + 1
      <4>1. k \in 1..n
        BY <3>2
      <4> QED
        BY <2>2, <2>3, <4>1
    <3> QED
      BY <3>1, <3>2
  <2> QED
    BY <2>1, <2>2, <2>5, SeqEqual
<1> HIDE DEF f, g
<1>7. FlattenSeq(g) = IF f = <<>> THEN e ELSE FlattenSeq(f) \o e
  BY <1>4, <1>5, <1>6, FlattenAppend
<1>8. FlattenSeq(f) \in Seq(T)
  BY <1>5, FlattenAppend, FlattenNone, EmptySeq
<1>9. FlattenSeq(g) = FlattenSeq(f) \o e
  BY <1>4, <1>7, FlattenNone, ConcatEmptySeq
<1>10. CASE n + 1 \in S
  <2>1. v[n + 1] \in T
    BY <1>3 DEF T
  <2>2. Append(FlattenSeq(f), v[n + 1]) = FlattenSeq(f) \o <<v[n + 1]>>
    BY <1>8, <2>1, AppendIsConcat
  <2> QED
    BY <1>9, <1>10, <2>2 DEF Picks, f, g, e
<1>11. CASE n + 1 \notin S
  <2>1. FlattenSeq(f) \o <<>> = FlattenSeq(f)
    BY <1>8, ConcatEmptySeq
  <2> QED
    BY <1>9, <1>11, <2>1 DEF Picks, f, g, e
<1> QED
  BY <1>10, <1>11

(* Two pickings with the same marks pick the same places.                  *)
Alike(n, S, x, y, p, q) ==
  /\ IsSeq(p) /\ IsSeq(q) /\ Len(p) = Len(q) /\ Len(p) \in Nat
  /\ \A k \in 1..Len(p) : \E i \in 1..n : i \in S /\ p[k] = x[i] /\ q[k] = y[i]
  /\ \A i \in 1..n : i \in S => \E k \in 1..Len(p) : p[k] = x[i] /\ q[k] = y[i]

(* Picking at one place more keeps two pickings alike.                     *)
LEMMA AlikeStep ==
  ASSUME NEW n \in Nat, NEW S, NEW x, NEW y, NEW p, NEW q, Alike(n, S, x, y, p, q)
  PROVE  /\ n + 1 \notin S => Alike(n + 1, S, x, y, p, q)
         /\ n + 1 \in S => Alike(n + 1, S, x, y, Append(p, x[n + 1]), Append(q, y[n + 1]))
<1>1. ASSUME n + 1 \notin S PROVE Alike(n + 1, S, x, y, p, q)
  <2>1. \A i \in 1..(n + 1) : i \in S => i \in 1..n
    BY <1>1
  <2>2. \A i \in 1..n : i \in 1..(n + 1)
    OBVIOUS
  <2> QED
    BY <2>1, <2>2 DEF Alike
<1>2. ASSUME n + 1 \in S PROVE Alike(n + 1, S, x, y, Append(p, x[n + 1]), Append(q, y[n + 1]))
  <2> DEFINE m == Len(p)
             pp == Append(p, x[n + 1])
             qq == Append(q, y[n + 1])
  <2>1. IsSeq(p) /\ IsSeq(q) /\ m \in Nat /\ Len(q) = m
    BY DEF Alike
  <2>2. Len(pp) = m + 1 /\ Len(qq) = m + 1
    BY <2>1, AppendLen
  <2>3. IsSeq(pp) /\ pp[m + 1] = x[n + 1] /\ \A k \in 1..m : pp[k] = p[k]
    BY <2>1, AppendSeq, SeqDomain
  <2>4. IsSeq(qq) /\ qq[m + 1] = y[n + 1] /\ \A k \in 1..m : qq[k] = q[k]
    BY <2>1, AppendSeq, SeqDomain
  <2>5. /\ \A k \in 1..m : \E i \in 1..n : i \in S /\ p[k] = x[i] /\ q[k] = y[i]
        /\ \A i \in 1..n : i \in S => \E k \in 1..m : p[k] = x[i] /\ q[k] = y[i]
    BY DEF Alike
  <2> HIDE DEF m, pp, qq
  <2>6. ASSUME NEW k \in 1..(m + 1)
        PROVE  \E i \in 1..(n + 1) : i \in S /\ pp[k] = x[i] /\ qq[k] = y[i]
    <3>1. CASE k = m + 1
      <4>1. n + 1 \in 1..(n + 1)
        OBVIOUS
      <4> QED
        BY <1>2, <2>3, <2>4, <3>1, <4>1
    <3>2. CASE k # m + 1
      <4>1. k \in 1..m
        BY <2>1, <3>2
      <4>2. PICK i \in 1..n : i \in S /\ p[k] = x[i] /\ q[k] = y[i]
        BY <2>5, <4>1
      <4>3. i \in 1..(n + 1)
        OBVIOUS
      <4> QED
        BY <2>3, <2>4, <4>1, <4>2, <4>3
    <3> QED
      BY <3>1, <3>2
  <2>7. ASSUME NEW i \in 1..(n + 1), i \in S PROVE \E k \in 1..(m + 1) : pp[k] = x[i] /\ qq[k] = y[i]
    <3>1. CASE i = n + 1
      <4>1. m + 1 \in 1..(m + 1)
        BY <2>1
      <4> QED
        BY <2>3, <2>4, <3>1, <4>1
    <3>2. CASE i # n + 1
      <4>1. i \in 1..n
        BY <3>2
      <4>2. PICK k \in 1..m : p[k] = x[i] /\ q[k] = y[i]
        BY <2>5, <2>7, <4>1
      <4>3. k \in 1..(m + 1)
        BY <2>1
      <4> QED
        BY <2>3, <2>4, <4>2, <4>3
    <3> QED
      BY <3>1, <3>2
  <2>8. Len(pp) \in Nat /\ Len(pp) = Len(qq)
    BY <2>1, <2>2
  <2>9. /\ \A k \in 1..Len(pp) : \E i \in 1..(n + 1) : i \in S /\ pp[k] = x[i] /\ qq[k] = y[i]
        /\ \A i \in 1..(n + 1) : i \in S => \E k \in 1..Len(pp) : pp[k] = x[i] /\ qq[k] = y[i]
    BY <2>2, <2>6, <2>7
  <2>10. Alike(n + 1, S, x, y, pp, qq)
    BY <2>3, <2>4, <2>8, <2>9 DEF Alike
  <2> QED
    BY <2>10 DEF pp, qq
<1> QED
  BY <1>1, <1>2

(* Two lists picked at the same places have their places in common.        *)
LEMMA PicksAlike ==
  ASSUME NEW S, NEW v, NEW w
  PROVE  \A n \in Nat : Alike(n, S, v, w, Picks(n, S, v), Picks(n, S, w))
<1> DEFINE N == {n \in Nat : Alike(n, S, v, w, Picks(n, S, v), Picks(n, S, w))}
<1>1. 0 \in N
  <2>1. Picks(0, S, v) = <<>> /\ Picks(0, S, w) = <<>> /\ IsSeq(<<>>) /\ Len(<<>>) = 0
    BY PicksNone, NoneDomain
  <2> QED
    BY <2>1 DEF Alike
<1>2. ASSUME NEW n \in Nat, n \in N PROVE n + 1 \in N
  <2>1. Alike(n, S, v, w, Picks(n, S, v), Picks(n, S, w))
    BY <1>2
  <2>2. IsSeq(Picks(n, S, v)) /\ IsSeq(Picks(n, S, w))
    BY <2>1 DEF Alike
  <2>3. /\ Picks(n + 1, S, v) = IF n + 1 \in S THEN Append(Picks(n, S, v), v[n + 1]) ELSE Picks(n, S, v)
        /\ Picks(n + 1, S, w) = IF n + 1 \in S THEN Append(Picks(n, S, w), w[n + 1]) ELSE Picks(n, S, w)
    BY <2>2, PicksStep
  <2>4. Alike(n + 1, S, v, w, Picks(n + 1, S, v), Picks(n + 1, S, w))
    BY <2>1, <2>3, AlikeStep
  <2> QED
    BY <2>4
<1> HIDE DEF N
<1>3. \A n \in Nat : n \in N
  BY <1>1, <1>2, NatSetInduction
<1> QED
  BY <1>3 DEF N

-----------------------------------------------------------------------------
(***************************************************************************)
(* What one more line changes in the configuration a list of lines stands  *)
(* for.                                                                    *)
(***************************************************************************)
AreDirectives(lines) == IsSeq(lines) /\ \A k \in DOMAIN lines : IsDirective(lines[k])
Name(words) == words[1][1]
Worth(words) == Value(Name(words), Tail(words), FALSE)
Setting(lines, known, m) == {k \in DOMAIN lines : Name(lines[k]) \in known /\ Member[Name(lines[k])] = m}
Gathered(lines, S) == [k \in DOMAIN lines |-> IF k \in S THEN Worth(lines[k]) ELSE <<>>]

(* The value of one member, by the last line that sets it.                 *)
LEMMA EffectAt ==
  ASSUME NEW base, NEW lines, NEW known, NEW m \in DOMAIN base
  PROVE  LET S == Setting(lines, known, m)
         IN  Effect(base, lines, known)[m] =
               IF S = {} THEN base[m]
               ELSE IF Name(lines[Max(S)]) \in Lists THEN FlattenSeq(Gathered(lines, S))
               ELSE Worth(lines[Max(S)])
BY DEF Effect, Setting, Gathered, Name, Worth

(* No two directives set the same member.                                  *)
LEMMA MembersDiffer ==
  ASSUME NEW d \in ServerDirectives, NEW e \in ServerDirectives, Member[d] = Member[e]
  PROVE  d = e
BY DEF ServerDirectives, Member

(* The words behind the first.                                             *)
LEMMA TailSeq ==
  ASSUME NEW s, IsSeq(s), s # <<>>
  PROVE  IsSeq(Tail(s)) /\ Len(Tail(s)) = Len(s) - 1 /\ \A k \in 1..(Len(s) - 1) : Tail(s)[k] = s[k + 1]
<1> DEFINE T == {s[k] : k \in DOMAIN s}
<1>1. s \in Seq(T)
  BY DEF IsSeq
<1> HIDE DEF T
<1>2. Tail(s) \in Seq(T) /\ Len(Tail(s)) = Len(s) - 1 /\ \A k \in 1..Len(Tail(s)) : Tail(s)[k] = s[k + 1]
  BY <1>1, HeadTailProperties
<1> QED
  BY <1>2, SeqIntro

(* A directive whose values are gathered gives a list.                     *)
LEMMA ListWorth ==
  ASSUME NEW words, IsDirective(words), Name(words) \in Lists
  PROVE  IsSeq(Worth(words))
<1> DEFINE args == Tail(words)
           d == Name(words)
<1>1. IsSeq(words) /\ words # <<>>
  BY EmptySeq DEF IsDirective
<1>2. IsSeq(args)
  BY <1>1, TailSeq
<1> HIDE DEF args, d
<1>3. CASE d = "index_pages"
  <2> DEFINE f == [k \in DOMAIN args |-> Path(args[k])]
  <2>1. Value(d, args, FALSE) = f
    BY <1>3 DEF Value
  <2>2. f = [k \in DOMAIN args |-> f[k]]
    OBVIOUS
  <2> HIDE DEF f
  <2>3. IsSeq(f)
    BY <1>2, <2>2, SeqOver
  <2> QED
    BY <2>1, <2>3 DEF Worth, d, args
<1>4. CASE d # "index_pages"
  <2>1. d \in Lists
    BY DEF d
  <2>2. Value(d, args, FALSE) = args
    BY <1>4, <2>1 DEF Value, Lists
  <2> QED
    BY <1>2, <2>2 DEF Worth, d, args
<1> QED
  BY <1>3, <1>4

(* Concatenating nothing.                                                  *)
LEMMA ConcatNone ==
  ASSUME NEW s, IsSeq(s)
  PROVE  s \o <<>> = s /\ <<>> \o s = s
<1> DEFINE T == {s[k] : k \in DOMAIN s}
<1>1. s \in Seq(T)
  BY DEF IsSeq
<1> QED
  BY <1>1, ConcatEmptySeq

(* FlattenAppend for sequences of anything.                                *)
LEMMA FlattenMore ==
  ASSUME NEW ss, IsSeq(ss), \A i \in DOMAIN ss : IsSeq(ss[i]), NEW e, IsSeq(e)
  PROVE  FlattenSeq(Append(ss, e)) = FlattenSeq(ss) \o e /\ IsSeq(FlattenSeq(ss))
<1> DEFINE T == Elements(ss) \cup {e[k] : k \in DOMAIN e}
<1>1. ss \in Seq(Seq(T)) /\ e \in Seq(T)
  <2>1. ss \in Seq(Seq(Elements(ss)))
    BY SeqsTyped
  <2>2. Seq(Elements(ss)) \subseteq Seq(T)
    BY SeqMonotonic
  <2>3. ss \in Seq(Seq(T))
    BY <2>1, <2>2, SeqMonotonic
  <2>4. e \in Seq({e[k] : k \in DOMAIN e})
    BY DEF IsSeq
  <2>5. e \in Seq(T)
    BY <2>4, SeqMonotonic
  <2> QED
    BY <2>3, <2>5
<1> HIDE DEF T
<1>2. FlattenSeq(Append(ss, e)) = IF ss = <<>> THEN e ELSE FlattenSeq(ss) \o e
  BY <1>1, FlattenAppend
<1>3. ss = <<>> => FlattenSeq(ss) \o e = e
  BY FlattenNone, ConcatNone
<1>4. IsSeq(FlattenSeq(ss))
  BY EndsExist
<1> QED
  BY <1>2, <1>3, <1>4

(* What is gathered from one line more.                                    *)
LEMMA GatheredMore ==
  ASSUME NEW lines, IsSeq(lines), NEW words, NEW S, NEW SS,
         S \subseteq DOMAIN lines, SS \subseteq 1..(Len(lines) + 1),
         \A k \in DOMAIN lines : k \in SS <=> k \in S,
         \A k \in S : IsSeq(Worth(lines[k])),
         Len(lines) + 1 \in SS => IsSeq(Worth(words))
  PROVE  /\ IsSeq(FlattenSeq(Gathered(lines, S)))
         /\ FlattenSeq(Gathered(Append(lines, words), SS)) =
              IF Len(lines) + 1 \in SS THEN FlattenSeq(Gathered(lines, S)) \o Worth(words)
              ELSE FlattenSeq(Gathered(lines, S))
<1> DEFINE n == Len(lines)
           more == Append(lines, words)
           f == Gathered(lines, S)
           g == Gathered(more, SS)
           e == IF n + 1 \in SS THEN Worth(words) ELSE <<>>
<1>1. n \in Nat /\ DOMAIN lines = 1..n
  BY SeqDomain
<1>2. DOMAIN more = 1..(n + 1) /\ more[n + 1] = words /\ \A k \in 1..n : more[k] = lines[k]
  BY <1>1, AppendSeq
<1>3. IsSeq(e)
  BY NoneDomain
<1>4. IsSeq(f) /\ DOMAIN f = 1..n /\ Len(f) = n /\ \A k \in 1..n : f[k] = IF k \in S THEN Worth(lines[k]) ELSE <<>>
  <2>1. f = [k \in DOMAIN lines |-> f[k]]
    BY DEF Gathered
  <2>2. \A k \in 1..n : f[k] = IF k \in S THEN Worth(lines[k]) ELSE <<>>
    BY <1>1 DEF Gathered
  <2> HIDE DEF f, n
  <2>3. IsSeq(f) /\ Len(f) = Len(lines) /\ DOMAIN f = 1..Len(lines)
    BY <2>1, SeqOver
  <2> QED
    BY <2>2, <2>3 DEF n
<1>5. \A k \in DOMAIN f : IsSeq(f[k])
  BY <1>4, NoneDomain
<1>6. DOMAIN g = 1..(n + 1) /\ \A k \in 1..(n + 1) : g[k] = IF k \in SS THEN Worth(more[k]) ELSE <<>>
  BY <1>2 DEF Gathered
<1>7. g[n + 1] = e
  <2>1. n + 1 \in 1..(n + 1)
    BY <1>1
  <2> QED
    BY <1>2, <1>6, <2>1
<1>8. \A k \in 1..n : g[k] = f[k]
  <2> SUFFICES ASSUME NEW k \in 1..n PROVE g[k] = f[k]
    OBVIOUS
  <2>1. k \in 1..(n + 1) /\ k \in DOMAIN lines
    BY <1>1
  <2> QED
    BY <1>2, <1>4, <1>6, <2>1
<1>9. g = Append(f, e)
  <2> HIDE DEF f, e, n
  <2> DEFINE a == Append(f, e)
  <2>1. IsSeq(a) /\ DOMAIN a = 1..(n + 1) /\ a[n + 1] = e /\ \A k \in 1..n : a[k] = f[k]
    BY <1>4, AppendSeq
  <2>2. g = [k \in 1..(n + 1) |-> g[k]]
    BY <1>6 DEF Gathered
  <2>3. a = [k \in 1..(n + 1) |-> a[k]]
    <3>1. a = [k \in DOMAIN a |-> a[k]]
      <4>1. a \in Seq({a[k] : k \in DOMAIN a})
        BY <2>1 DEF IsSeq
      <4> DEFINE T == {a[k] : k \in DOMAIN a}
      <4> HIDE DEF T, a
      <4>2. a \in Seq(T)
        BY <4>1 DEF T
      <4>3. a \in [1..Len(a) -> T] /\ DOMAIN a = 1..Len(a)
        BY <4>2, LenProperties
      <4> QED
        BY <4>3
    <3> QED
      BY <2>1, <3>1
  <2> HIDE DEF g, a
  <2>4. \A k \in 1..(n + 1) : g[k] = a[k]
    <3> SUFFICES ASSUME NEW k \in 1..(n + 1) PROVE g[k] = a[k]
      OBVIOUS
    <3>1. CASE k = n + 1
      BY <1>7, <2>1, <3>1
    <3>2. CASE k # n + 1
      <4>1. k \in 1..n
        BY <1>1, <3>2
      <4> QED
        BY <1>8, <2>1, <4>1
    <3> QED
      BY <3>1, <3>2
  <2>5. g = a
    BY <2>2, <2>3, <2>4
  <2> QED
    BY <2>5 DEF a
<1> HIDE DEF f, g
<1>10. FlattenSeq(g) = FlattenSeq(f) \o e /\ IsSeq(FlattenSeq(f))
  BY <1>3, <1>4, <1>5, <1>9, FlattenMore
<1>11. FlattenSeq(f) \o <<>> = FlattenSeq(f)
  BY <1>10, ConcatNone
<1> QED
  BY <1>10, <1>11 DEF f, g

(* From no line nothing is gathered.                                       *)
LEMMA NothingGathered ==
  ASSUME NEW lines, IsSeq(lines)
  PROVE  FlattenSeq(Gathered(lines, {})) = <<>>
<1> DEFINE N == {n \in Nat : \A x : IsSeq(x) /\ Len(x) = n => FlattenSeq(Gathered(x, {})) = <<>>}
<1>1. 0 \in N
  <2> SUFFICES ASSUME NEW x, IsSeq(x), Len(x) = 0 PROVE FlattenSeq(Gathered(x, {})) = <<>>
    OBVIOUS
  <2>1. DOMAIN x = {}
    BY SeqDomain
  <2>2. Gathered(x, {}) = <<>>
    BY <2>1 DEF Gathered
  <2> QED
    BY <2>2, FlattenNone
<1>2. ASSUME NEW n \in Nat, n \in N PROVE n + 1 \in N
  <2> SUFFICES ASSUME NEW x, IsSeq(x), Len(x) = n + 1 PROVE FlattenSeq(Gathered(x, {})) = <<>>
    OBVIOUS
  <2>1. PICK y, e : IsSeq(y) /\ x = Append(y, e)
    <3> DEFINE T == {x[k] : k \in DOMAIN x}
    <3>1. x \in Seq(T) /\ x # <<>>
      BY EmptySeq DEF IsSeq
    <3> HIDE DEF T
    <3>2. PICK y \in Seq(T), e \in T : x = Append(y, e)
      BY <3>1, SequenceEmptyOrAppend
    <3> QED
      BY <3>2, SeqIntro
  <2>2. Len(y) \in Nat /\ Len(y) = n
    BY <2>1, AppendLen
  <2>3. FlattenSeq(Gathered(y, {})) = <<>>
    BY <1>2, <2>1, <2>2
  <2>4. Len(y) + 1 \notin {}
    OBVIOUS
  <2>5. FlattenSeq(Gathered(Append(y, e), {})) = FlattenSeq(Gathered(y, {}))
    BY <2>1, GatheredMore
  <2> QED
    BY <2>1, <2>3, <2>5
<1> HIDE DEF N
<1>3. \A n \in Nat : n \in N
  BY <1>1, <1>2, NatSetInduction
<1>4. Len(lines) \in Nat
  BY SeqDomain
<1> QED
  BY <1>3, <1>4 DEF N

(* The last of some places is one of them.                                 *)
LEMMA MaxIn ==
  ASSUME NEW n \in Nat, NEW S \in SUBSET (1..n), S # {}
  PROVE  Max(S) \in S
<1> DEFINE T == {n - x : x \in S}
<1>1. T \in SUBSET Nat /\ T # {}
  <2>1. \A x \in S : x \in Nat /\ n - x \in Nat
    OBVIOUS
  <2>2. PICK x \in S : TRUE
    OBVIOUS
  <2>3. n - x \in T
    OBVIOUS
  <2> QED
    BY <2>1, <2>3
<1>2. Min(T) \in T /\ \A y \in T : Min(T) <= y
  BY <1>1, MinIn
<1>3. PICK x \in S : Min(T) = n - x
  BY <1>2
<1>4. \A y \in S : x >= y
  <2> SUFFICES ASSUME NEW y \in S PROVE x >= y
    OBVIOUS
  <2>1. n - y \in T
    OBVIOUS
  <2>2. n - x <= n - y
    BY <1>2, <1>3, <2>1
  <2> QED
    BY <2>2
<1> QED
  BY <1>4 DEF Max

(* Which lines set a member, with one line more.                           *)
LEMMA SettingMore ==
  ASSUME NEW lines, IsSeq(lines), NEW words, NEW known, NEW m
  PROVE  LET S  == Setting(lines, known, m)
             SS == Setting(Append(lines, words), known, m)
             n  == Len(lines)
         IN  /\ n \in Nat /\ DOMAIN lines = 1..n /\ S \subseteq 1..n /\ SS \subseteq 1..(n + 1)
             /\ \A k \in 1..n : k \in SS <=> k \in S
             /\ n + 1 \in SS <=> Name(words) \in known /\ Member[Name(words)] = m
<1> DEFINE S == Setting(lines, known, m)
           more == Append(lines, words)
           SS == Setting(more, known, m)
           n == Len(lines)
<1>1. n \in Nat /\ DOMAIN lines = 1..n
  BY SeqDomain
<1>2. DOMAIN more = 1..(n + 1) /\ more[n + 1] = words /\ \A k \in 1..n : more[k] = lines[k]
  BY <1>1, AppendSeq
<1>3. S \subseteq 1..n /\ SS \subseteq 1..(n + 1)
  BY <1>1, <1>2 DEF Setting
<1>4. \A k \in 1..n : k \in SS <=> k \in S
  <2> SUFFICES ASSUME NEW k \in 1..n PROVE k \in SS <=> k \in S
    OBVIOUS
  <2>1. k \in 1..(n + 1) /\ more[k] = lines[k]
    BY <1>1, <1>2
  <2> HIDE DEF more, n
  <2> QED
    BY <1>1, <1>2, <2>1 DEF Setting
<1>5. n + 1 \in SS <=> Name(words) \in known /\ Member[Name(words)] = m
  <2>1. n + 1 \in 1..(n + 1)
    BY <1>1
  <2> HIDE DEF more, n
  <2> QED
    BY <1>2, <2>1 DEF Setting
<1> QED
  BY <1>1, <1>3, <1>4, <1>5

(* The lines that set one member name one directive.                       *)
LEMMA SettingSame ==
  ASSUME NEW lines, NEW known \in SUBSET ServerDirectives, NEW m,
         NEW j \in Setting(lines, known, m), NEW k \in Setting(lines, known, m)
  PROVE  Name(lines[j]) = Name(lines[k])
<1>1. /\ Name(lines[j]) \in ServerDirectives /\ Name(lines[k]) \in ServerDirectives
      /\ Member[Name(lines[j])] = Member[Name(lines[k])]
  BY DEF Setting
<1> QED
  BY <1>1, MembersDiffer

(* One line more changes the member its directive sets: a list grows by    *)
(* its values, anything else is replaced; the other members stay.          *)
LEMMA EffectAppend ==
  ASSUME NEW base, NEW lines, AreDirectives(lines), NEW words, IsDirective(words),
         NEW known \in SUBSET ServerDirectives, NEW m \in DOMAIN base
  PROVE  Effect(base, Append(lines, words), known)[m] =
           IF Name(words) \in known /\ Member[Name(words)] = m
           THEN IF Name(words) \in Lists /\ Setting(lines, known, m) # {}
                THEN Effect(base, lines, known)[m] \o Worth(words)
                ELSE Worth(words)
           ELSE Effect(base, lines, known)[m]
<1> DEFINE S == Setting(lines, known, m)
           more == Append(lines, words)
           SS == Setting(more, known, m)
           n == Len(lines)
           d == Name(words)
           old == Effect(base, lines, known)[m]
           new == Effect(base, more, known)[m]
<1>1. /\ n \in Nat /\ DOMAIN lines = 1..n /\ S \subseteq 1..n /\ SS \subseteq 1..(n + 1)
      /\ \A k \in 1..n : k \in SS <=> k \in S
      /\ n + 1 \in SS <=> d \in known /\ Member[d] = m
  BY SettingMore DEF AreDirectives
<1>2. more[n + 1] = words /\ \A k \in 1..n : more[k] = lines[k]
  BY <1>1, AppendSeq DEF AreDirectives
<1>3. old = IF S = {} THEN base[m]
            ELSE IF Name(lines[Max(S)]) \in Lists THEN FlattenSeq(Gathered(lines, S))
            ELSE Worth(lines[Max(S)])
  BY EffectAt
<1>4. new = IF SS = {} THEN base[m]
            ELSE IF Name(more[Max(SS)]) \in Lists THEN FlattenSeq(Gathered(more, SS))
            ELSE Worth(more[Max(SS)])
  <2> HIDE DEF more
  <2> QED
    BY EffectAt
<1>5. S # {} => Max(S) \in S
  BY <1>1, MaxIn
<1>6. \A j, k \in S : Name(lines[j]) = Name(lines[k])
  BY SettingSame
<1>7. ASSUME \A k \in S : Name(lines[k]) \in Lists, n + 1 \in SS => d \in Lists
      PROVE  /\ IsSeq(FlattenSeq(Gathered(lines, S)))
             /\ FlattenSeq(Gathered(more, SS)) =
                  IF n + 1 \in SS THEN FlattenSeq(Gathered(lines, S)) \o Worth(words)
                  ELSE FlattenSeq(Gathered(lines, S))
  <2>1. \A k \in S : IsSeq(Worth(lines[k]))
    <3> TAKE k \in S
    <3>1. IsDirective(lines[k])
      BY <1>1 DEF AreDirectives
    <3> QED
      BY <1>7, <3>1, ListWorth
  <2>2. n + 1 \in SS => IsSeq(Worth(words))
    BY <1>7, ListWorth
  <2>3. IsSeq(lines)
    BY DEF AreDirectives
  <2>4. S \subseteq DOMAIN lines /\ \A k \in DOMAIN lines : k \in SS <=> k \in S
    BY <1>1
  <2> HIDE DEF S, SS
  <2> QED
    BY <1>1, <2>1, <2>2, <2>3, <2>4, GatheredMore
<1> HIDE DEF S, SS, old, new, more
<1>8. CASE ~(d \in known /\ Member[d] = m)
  <2>1. n + 1 \notin SS
    BY <1>1, <1>8
  <2>2. SS = S
    <3>1. \A k \in SS : k \in 1..n
      BY <1>1, <2>1
    <3> QED
      BY <1>1, <3>1
  <2>3. CASE S = {}
    BY <1>3, <1>4, <1>8, <2>2, <2>3 DEF old, new, more
  <2>4. CASE S # {}
    <3>1. Max(S) \in S /\ more[Max(S)] = lines[Max(S)]
      BY <1>1, <1>2, <1>5, <2>4
    <3>2. CASE Name(lines[Max(S)]) \in Lists
      <4>1. \A k \in S : Name(lines[k]) \in Lists
        BY <1>6, <3>1, <3>2
      <4>2. FlattenSeq(Gathered(more, SS)) = FlattenSeq(Gathered(lines, S))
        BY <1>7, <2>1, <4>1
      <4>3. new = old
        BY <1>3, <1>4, <2>2, <2>4, <3>1, <3>2, <4>2
      <4> QED
        BY <1>8, <4>3 DEF old, new, more
    <3>3. CASE Name(lines[Max(S)]) \notin Lists
      <4>1. new = old
        BY <1>3, <1>4, <2>2, <2>4, <3>1, <3>3
      <4> QED
        BY <1>8, <4>1 DEF old, new, more
    <3> QED
      BY <3>2, <3>3
  <2> QED
    BY <2>3, <2>4
<1>9. CASE d \in known /\ Member[d] = m
  <2>1. n + 1 \in SS /\ SS # {}
    BY <1>1, <1>9
  <2>2. Max(SS) = n + 1
    BY <1>1, <2>1, MaxLast
  <2>3. \A k \in S : Name(lines[k]) = d
    <3> TAKE k \in S
    <3>1. k \in SS /\ more[k] = lines[k]
      BY <1>1, <1>2
    <3>2. Name(more[k]) = Name(more[n + 1])
      BY <2>1, <3>1, SettingSame DEF SS
    <3> QED
      BY <1>2, <3>1, <3>2
  <2>4. CASE d \notin Lists
    <3>1. new = Worth(words)
      BY <1>2, <1>4, <2>1, <2>2, <2>4
    <3> QED
      BY <1>9, <2>4, <3>1 DEF new, more
  <2>5. CASE d \in Lists
    <3>1. \A k \in S : Name(lines[k]) \in Lists
      BY <2>3, <2>5
    <3>2. /\ IsSeq(FlattenSeq(Gathered(lines, S)))
          /\ FlattenSeq(Gathered(more, SS)) = FlattenSeq(Gathered(lines, S)) \o Worth(words)
      BY <1>7, <2>1, <2>5, <3>1
    <3>3. new = FlattenSeq(Gathered(lines, S)) \o Worth(words)
      BY <1>2, <1>4, <2>1, <2>2, <2>5, <3>2
    <3>4. CASE S # {}
      <4>1. Max(S) \in S
        BY <1>5, <3>4
      <4>2. old = FlattenSeq(Gathered(lines, S))
        BY <1>3, <3>1, <3>4, <4>1
      <4> QED
        BY <1>9, <2>5, <3>3, <3>4, <4>2 DEF old, new, more, S
    <3>5. CASE S = {}
      <4>1. FlattenSeq(Gathered(lines, S)) = <<>>
        BY <1>1, <3>5, NothingGathered DEF AreDirectives
      <4>2. IsSeq(Worth(words))
        BY <2>5, ListWorth
      <4>3. new = Worth(words)
        BY <3>3, <4>1, <4>2, ConcatNone
      <4> QED
        BY <1>9, <2>5, <3>5, <4>3 DEF new, more, S
    <3> QED
      BY <3>4, <3>5
  <2> QED
    BY <2>4, <2>5
<1> QED
  BY <1>8, <1>9

(* The value that a directive of the file is read as is the one it is      *)
(* written with: nothing uninitialised is used.                            *)
LEMMA ValueFixed ==
  ASSUME NEW words, IsDirective(words), NEW uninitialised
  PROVE  Value(Name(words), Tail(words), uninitialised) = Worth(words)
<1> DEFINE d == Name(words)
           args == Tail(words)
<1>1. CASE d = "autoindex"
  <2>1. IsSeq(words) /\ words # <<>> /\ Len(words) \in Nat /\ Len(words) >= 2
    BY SeqDomain, EmptySeq DEF IsDirective
  <2>2. 1 \in 1..(Len(words) - 1)
    BY <2>1
  <2>3. args[1] = words[2]
    BY <2>1, <2>2, TailSeq
  <2>4. words[2] = <<"on">> \/ words[2] = <<"off">>
    BY <1>1 DEF IsDirective, Name
  <2> HIDE DEF args
  <2>5. /\ "autoindex" \notin {"root", "error_page", "auth_basic_user_file"} /\ "autoindex" # "port"
        /\ "autoindex" \notin {"timeout", "client_max_body_size"}
    OBVIOUS
  <2>6. Value("autoindex", args, uninitialised) = Value("autoindex", args, FALSE)
    <3>1. CASE args[1] = <<"on">>
      BY <2>5, <3>1 DEF Value
    <3>2. CASE args[1] = <<"off">> /\ args[1] # <<"on">>
      BY <2>5, <3>2 DEF Value
    <3> QED
      BY <2>3, <2>4, <3>1, <3>2
  <2> QED
    BY <1>1, <2>6 DEF Worth, args
<1>2. CASE d # "autoindex"
  <2> HIDE DEF d, args
  <2>1. Value(d, args, uninitialised) = Value(d, args, FALSE)
    BY <1>2 DEF Value
  <2> QED
    BY <2>1 DEF Worth, d, args
<1> QED
  BY <1>1, <1>2

Met(lines, known) == {Name(lines[k]) : k \in DOMAIN lines} \cap known
ReadSoFar(base, lines, known) ==
  [config |-> Effect(base, lines, known), exist |-> Met(lines, known), result |-> "ok"]

(* Which directives have been met, with one line more.                     *)
LEMMA MetMore ==
  ASSUME NEW lines, IsSeq(lines), NEW words, NEW known
  PROVE  Met(Append(lines, words), known) = Met(lines, known) \cup ({Name(words)} \cap known)
<1> DEFINE more == Append(lines, words)
           n == Len(lines)
<1>1. n \in Nat /\ DOMAIN lines = 1..n
  BY SeqDomain
<1>2. DOMAIN more = 1..(n + 1) /\ more[n + 1] = words /\ \A k \in 1..n : more[k] = lines[k]
  BY <1>1, AppendSeq
<1> HIDE DEF more, n
<1>3. \A x : (\E k \in DOMAIN more : x = Name(more[k])) <=> x = Name(words) \/ \E k \in DOMAIN lines : x = Name(lines[k])
  <2> TAKE x
  <2>1. ASSUME NEW k \in DOMAIN more, x = Name(more[k])
        PROVE  x = Name(words) \/ \E l \in DOMAIN lines : x = Name(lines[l])
    <3>1. CASE k = n + 1
      BY <1>2, <2>1, <3>1
    <3>2. CASE k # n + 1
      <4>1. k \in 1..n
        BY <1>1, <1>2, <3>2
      <4> QED
        BY <1>1, <1>2, <2>1, <4>1
    <3> QED
      BY <3>1, <3>2
  <2>2. ASSUME x = Name(words) PROVE \E k \in DOMAIN more : x = Name(more[k])
    <3>1. n + 1 \in DOMAIN more
      BY <1>1, <1>2
    <3> QED
      BY <1>2, <2>2, <3>1
  <2>3. ASSUME NEW k \in DOMAIN lines, x = Name(lines[k]) PROVE \E l \in DOMAIN more : x = Name(more[l])
    <3>1. k \in DOMAIN more /\ more[k] = lines[k]
      BY <1>1, <1>2
    <3> QED
      BY <2>3, <3>1
  <2> QED
    BY <2>1, <2>2, <2>3
<1>4. Met(more, known) = Met(lines, known) \cup ({Name(words)} \cap known)
  BY <1>3 DEF Met
<1> QED
  BY <1>4 DEF more

(* A directive has been met when a line sets its member.                   *)
LEMMA MetSetting ==
  ASSUME NEW lines, NEW known \in SUBSET ServerDirectives, NEW d \in known
  PROVE  d \in Met(lines, known) <=> Setting(lines, known, Member[d]) # {}
<1>1. ASSUME d \in Met(lines, known) PROVE Setting(lines, known, Member[d]) # {}
  <2>1. PICK k \in DOMAIN lines : d = Name(lines[k])
    BY <1>1 DEF Met
  <2>2. k \in Setting(lines, known, Member[d])
    BY <2>1 DEF Setting
  <2> QED
    BY <2>2
<1>2. ASSUME Setting(lines, known, Member[d]) # {} PROVE d \in Met(lines, known)
  <2>1. PICK k \in DOMAIN lines : Name(lines[k]) \in known /\ Member[Name(lines[k])] = Member[d]
    BY <1>2 DEF Setting
  <2>2. Name(lines[k]) = d
    BY <2>1, MembersDiffer
  <2> QED
    BY <2>2 DEF Met
<1> QED
  BY <1>1, <1>2

ReadingWith(reading, x, y) == [reading EXCEPT !.config = x, !.exist = y]
(* The two fields of a reading that a directive changes.                   *)
LEMMA RecordSet ==
  ASSUME NEW a, NEW b, NEW c, NEW from, from = [config |-> a, exist |-> b, result |-> c],
         NEW x, NEW y
  PROVE  ReadingWith(from, x, y) = [config |-> x, exist |-> y, result |-> c]
<1> DEFINE D == {"config", "exist", "result"}
           left == [from EXCEPT !.config = x, !.exist = y]
           right == [config |-> x, exist |-> y, result |-> c]
<1>1. DOMAIN from = D /\ from.result = c
  OBVIOUS
<1>2. left = [m \in D |-> left[m]]
  BY <1>1
<1>3. left.config = x /\ left.exist = y /\ left.result = c
  BY <1>1
<1>4. right = [m \in D |-> right[m]] /\ right.config = x /\ right.exist = y /\ right.result = c
  OBVIOUS
<1> HIDE DEF left, right
<1>5. \A m \in D : left[m] = right[m]
  BY <1>3, <1>4
<1>6. left = right
  BY <1>2, <1>4, <1>5
<1> QED
  BY <1>6 DEF left, right, ReadingWith

(* Reading one directive takes the reading of the lines so far to that of  *)
(* one line more.                                                          *)
LEMMA DirectiveRead ==
  ASSUME NEW base, NEW lines, AreDirectives(lines), NEW words, IsDirective(words),
         NEW known \in SUBSET ServerDirectives, NEW uninitialised
  PROVE  Directive(ReadSoFar(base, lines, known), words, known, uninitialised) =
           ReadSoFar(base, Append(lines, words), known)
<1> DEFINE d == words[1][1]
           args == Tail(words)
           v == Value(d, args, uninitialised)
           reading == ReadSoFar(base, lines, known)
           old == Effect(base, lines, known)
           new == Effect(base, Append(lines, words), known)
           over == reading.result # "ok" \/ Len(words[1]) # 1 \/ d \notin known
           wrong == (d \in Lists \ {"index_pages"} /\ args = <<>>) \/ (d \notin Lists /\ Len(args) # 1)
           error == [reading EXCEPT !.result = "error"]
<1>1. Directive(reading, words, known, uninitialised) =
        IF over THEN reading ELSE IF wrong THEN error ELSE DirectiveSet(reading, d, v)
  BY DEF Directive, DirectiveSet
<1>2. /\ IsSeq(words) /\ words # <<>> /\ Len(words) \in Nat /\ Len(words) >= 2 /\ Len(words[1]) = 1
      /\ d \notin Lists => Len(words) = 2
  BY SeqDomain, EmptySeq DEF IsDirective
<1>3. Len(args) = Len(words) - 1 /\ args # <<>>
  <2>1. Len(args) = Len(words) - 1
    BY <1>2, TailSeq
  <2> QED
    BY <1>2, <2>1, EmptySeq
<1>4. ~wrong
  BY <1>2, <1>3
<1>5. over <=> d \notin known
  BY <1>2 DEF ReadSoFar
<1>6. v = Worth(words)
  BY ValueFixed DEF Name
<1>7. IsSeq(lines)
  BY DEF AreDirectives
<1>8. DOMAIN old = DOMAIN base /\ DOMAIN new = DOMAIN base
  BY DEF Effect
<1>9. old = [m \in DOMAIN base |-> old[m]] /\ new = [m \in DOMAIN base |-> new[m]]
  BY DEF Effect
<1>10. \A m \in DOMAIN base :
         new[m] = IF d \in known /\ Member[d] = m
                  THEN IF d \in Lists /\ Setting(lines, known, m) # {} THEN old[m] \o v ELSE v
                  ELSE old[m]
  <2> HIDE DEF old, new, v, d
  <2> TAKE m \in DOMAIN base
  <2>1. Effect(base, Append(lines, words), known)[m] =
           IF Name(words) \in known /\ Member[Name(words)] = m
           THEN IF Name(words) \in Lists /\ Setting(lines, known, m) # {}
                THEN Effect(base, lines, known)[m] \o Worth(words)
                ELSE Worth(words)
           ELSE Effect(base, lines, known)[m]
    BY EffectAppend
  <2>2. Name(words) = d
    BY DEF Name, d
  <2> QED
    BY <1>6, <2>1, <2>2 DEF old, new
<1>11. Met(Append(lines, words), known) = Met(lines, known) \cup ({d} \cap known)
  BY <1>7, MetMore DEF Name
<1> HIDE DEF over, wrong, error, v, d, old, new
<1>12. CASE d \notin known
  <2>1. new = old
    <3>1. \A m \in DOMAIN base : new[m] = old[m]
      BY <1>10, <1>12
    <3> QED
      BY <1>9, <3>1
  <2>2. Met(Append(lines, words), known) = Met(lines, known)
    BY <1>11, <1>12
  <2>3. ReadSoFar(base, Append(lines, words), known) = reading
    BY <2>1, <2>2 DEF ReadSoFar, old, new
  <2> QED
    BY <1>1, <1>5, <1>12, <2>3
<1>13. CASE d \in known
  <2> DEFINE config == [old EXCEPT ![Member[d]] = IF d \in Lists \cap reading.exist THEN @ \o v ELSE v]
             exist == reading.exist \cup {d}
  <2>1. reading.exist = Met(lines, known) /\ reading.config = old
    BY DEF ReadSoFar, old
  <2>2. d \in reading.exist <=> Setting(lines, known, Member[d]) # {}
    BY <1>13, <2>1, MetSetting
  <2>3. config = new
    <3>1. DOMAIN config = DOMAIN base
      BY <1>8
    <3>2. config = [m \in DOMAIN base |-> config[m]]
      BY <1>8
    <3> HIDE DEF reading
    <3>3. \A m \in DOMAIN base :
            config[m] = IF m = Member[d] THEN IF d \in Lists /\ d \in reading.exist THEN old[m] \o v ELSE v
                        ELSE old[m]
      BY <1>8
    <3> HIDE DEF config
    <3>4. \A m \in DOMAIN base : config[m] = new[m]
      BY <1>10, <1>13, <2>2, <3>3
    <3> QED
      BY <1>9, <3>2, <3>4
  <2>4. exist = Met(Append(lines, words), known)
    BY <1>11, <1>13, <2>1
  <2>5. DirectiveSet(reading, d, v) = [reading EXCEPT !.config = config, !.exist = exist]
    BY <2>1 DEF DirectiveSet
  <2> HIDE DEF config, exist
  <2>6. [reading EXCEPT !.config = config, !.exist = exist] =
          [config |-> config, exist |-> exist, result |-> "ok"]
    <3>1. reading = [config |-> old, exist |-> Met(lines, known), result |-> "ok"]
      BY DEF ReadSoFar, old
    <3> HIDE DEF reading
    <3>2. ReadingWith(reading, config, exist) = [config |-> config, exist |-> exist, result |-> "ok"]
      BY ONLY <3>1, RecordSet
    <3> QED
      BY <3>2 DEF ReadingWith
  <2>7. ReadSoFar(base, Append(lines, words), known) = [config |-> config, exist |-> exist, result |-> "ok"]
    BY <2>3, <2>4 DEF ReadSoFar, new
  <2> HIDE DEF reading
  <2>8. Directive(reading, words, known, uninitialised) = DirectiveSet(reading, d, v)
    BY <1>1, <1>4, <1>5, <1>13, Zenon
  <2>9. Directive(reading, words, known, uninitialised) = ReadSoFar(base, Append(lines, words), known)
    BY <2>5, <2>6, <2>7, <2>8, Zenon
  <2> QED
    BY <2>9 DEF reading
<1> QED
  BY <1>12, <1>13

-----------------------------------------------------------------------------
(***************************************************************************)
(* The lines that get_next_line takes hold no new line.                    *)
(***************************************************************************)
LEMMA BeforeFree ==
  ASSUME NEW T, NEW s \in Seq(T)
  PROVE  /\ newline(s) = 0 => Without(s, EOL)
         /\ newline(s) # 0 => Without(before(s), EOL)
<1> DEFINE I == {i \in 1..Len(s) : s[i] = EOL}
           n == newline(s)
<1>1. Len(s) \in Nat /\ DOMAIN s = 1..Len(s)
  BY LenProperties
<1>2. n = IF I # {} THEN Min(I) ELSE 0
  BY DEF newline, SelectInSeq
<1>3. I \in SUBSET Nat
  OBVIOUS
<1>4. CASE n = 0
  <2>1. I = {}
    <3> SUFFICES ASSUME I # {} PROVE FALSE
      OBVIOUS
    <3>1. Min(I) \in I
      <4> HIDE DEF I
      <4> QED
        BY <1>3, MinIn
    <3> QED
      BY <1>2, <1>4, <3>1
  <2> QED
    BY <1>1, <1>4, <2>1 DEF Without
<1>5. CASE n # 0
  <2>1. n \in I /\ \A x \in I : n <= x
    <3>1. I # {}
      BY <1>2, <1>5
    <3> HIDE DEF I
    <3> QED
      BY <1>2, <1>3, <3>1, MinIn
  <2>2. \A k \in 1..(n - 1) : s[k] # EOL
    BY <1>1, <2>1
  <2>3. n \in 1..Len(s)
    BY <2>1
  <2>4. DOMAIN before(s) = 1..(n - 1) /\ \A k \in 1..(n - 1) : before(s)[k] = s[k]
    <3> HIDE DEF n
    <3>1. 1 \in 1..(Len(s) + 1) /\ n - 1 \in 0..Len(s) /\ n - 1 \in Nat
      BY <1>1, <2>3
    <3> DEFINE u == n - 1
    <3> HIDE DEF u
    <3>2. 1 \in 1..(Len(s) + 1) /\ u \in 0..Len(s) /\ u \in Nat
      BY <3>1 DEF u
    <3>3. SubSeq(s, 1, u) \in Seq(T) /\ Len(SubSeq(s, 1, u)) = u /\ \A k \in 1..u : SubSeq(s, 1, u)[k] = s[k]
      BY <1>1, <3>2, SubSeqProperties
    <3>4. DOMAIN SubSeq(s, 1, u) = 1..u
      BY <3>2, <3>3, LenProperties
    <3> QED
      BY <3>3, <3>4 DEF before, n, u
  <2> QED
    BY <1>5, <2>2, <2>4 DEF Without
<1> QED
  BY <1>4, <1>5

(* Two lists without a new line have none together.                        *)
LEMMA FreeConcat ==
  ASSUME NEW T, NEW s \in Seq(T), NEW t \in Seq(T), Without(s, EOL), Without(t, EOL)
  PROVE  Without(s \o t, EOL)
<1>1. /\ Len(s) \in Nat /\ Len(t) \in Nat /\ DOMAIN s = 1..Len(s) /\ DOMAIN t = 1..Len(t)
      /\ s \o t \in Seq(T) /\ Len(s \o t) = Len(s) + Len(t)
      /\ \A i \in 1..(Len(s) + Len(t)) : (s \o t)[i] = IF i <= Len(s) THEN s[i] ELSE t[i - Len(s)]
  BY LenProperties, ConcatProperties
<1>2. DOMAIN (s \o t) = 1..(Len(s) + Len(t))
  BY <1>1, LenProperties
<1> SUFFICES ASSUME NEW k \in 1..(Len(s) + Len(t)) PROVE (s \o t)[k] # EOL
  BY <1>2 DEF Without
<1>3. (s \o t)[k] = IF k <= Len(s) THEN s[k] ELSE t[k - Len(s)]
  BY <1>1
<1>4. CASE k <= Len(s)
  <2>1. k \in DOMAIN s
    BY <1>1, <1>4
  <2> QED
    BY <1>3, <1>4, <2>1 DEF Without
<1>5. CASE ~(k <= Len(s))
  <2>1. k - Len(s) \in DOMAIN t
    BY <1>1, <1>5
  <2> QED
    BY <1>3, <1>5, <2>1 DEF Without
<1> QED
  BY <1>4, <1>5

AreFree(lines) == IsSeq(lines) /\ \A k \in DOMAIN lines : IsSeq(lines[k]) /\ Without(lines[k], EOL)

(* One line more without a new line.                                       *)
LEMMA MoreFree ==
  ASSUME NEW lines, AreFree(lines), NEW T, NEW l \in Seq(T), Without(l, EOL)
  PROVE  AreFree(Append(lines, l))
<1>1. IsSeq(lines) /\ IsSeq(l)
  BY SeqIntro DEF AreFree
<1>2. /\ IsSeq(Append(lines, l)) /\ DOMAIN Append(lines, l) = 1..(Len(lines) + 1)
      /\ DOMAIN lines = 1..Len(lines) /\ Len(lines) \in Nat
      /\ \A k \in DOMAIN lines : Append(lines, l)[k] = lines[k]
      /\ Append(lines, l)[Len(lines) + 1] = l
  BY <1>1, AppendSeq, SeqDomain
<1>3. ASSUME NEW k \in DOMAIN Append(lines, l)
      PROVE  IsSeq(Append(lines, l)[k]) /\ Without(Append(lines, l)[k], EOL)
  <2>1. CASE k \in DOMAIN lines
    BY <1>2, <2>1 DEF AreFree
  <2>2. CASE k = Len(lines) + 1
    BY <1>1, <1>2, <2>2
  <2> QED
    BY <1>2, <2>1, <2>2
<1> QED
  BY <1>2, <1>3 DEF AreFree

(* Until Step1 every line that has been taken is free of new lines, and no *)
(* configuration has been kept.                                            *)
LEMMA ReadKeepsFree ==
  ASSUME ReadingInv, file.kind = "text", pc \in {"main", "ReadConfigFile", "SetGnl"}, AreFree(mGnl), Next
  PROVE  /\ pc' \in {"ReadConfigFile", "SetGnl", "Step1", "exited"}
         /\ AreFree(mGnl')
         /\ mConfigs' = mConfigs /\ mServerBracket' = mServerBracket
         /\ pc' = "Step1" => line' = 1 /\ mGnl' # <<>>
<1>1. CASE main
  BY <1>1 DEF main
<1>2. CASE ReadConfigFile
  BY <1>2 DEF ReadConfigFile
<1> DEFINE T == Tokens
<1>3. pc = "SetGnl" => mGnl \in Seq(Seq(T)) /\ remain_string \in Seq(T) /\ unread \in Seq(T)
  BY DEF ReadingInv, Accounted
<1>4. IsSeq(mGnl)
  BY DEF AreFree
<1> HIDE DEF T
<1>5. CASE NextLine
  <2>1. pc = "SetGnl" /\ newline(remain_string) # 0 /\ mGnl' = Append(mGnl, before(remain_string))
    BY <1>5 DEF NextLine
  <2>2. remain_string \in Seq(T)
    BY <1>3, <2>1
  <2>3. before(remain_string) \in Seq(T) /\ Without(before(remain_string), EOL)
    BY <2>1, <2>2, SplitAtLine, BeforeFree
  <2> QED
    BY <1>5, <2>1, <2>3, MoreFree DEF NextLine
<1>6. ASSUME NEW n \in 1..BUFFER_SIZE_GNL, ReadPiece(n)
      PROVE  /\ pc' = "SetGnl" /\ AreFree(mGnl')
             /\ mConfigs' = mConfigs /\ mServerBracket' = mServerBracket
  <2> DEFINE buffer == SubSeq(unread, 1, n)
  <2>1. pc = "SetGnl" /\ newline(remain_string) = 0 /\ n <= Len(unread) /\ pc' = pc
        /\ mConfigs' = mConfigs /\ mServerBracket' = mServerBracket
    BY <1>6 DEF ReadPiece
  <2>2. remain_string \in Seq(T) /\ unread \in Seq(T) /\ Without(remain_string, EOL)
    BY <1>3, <2>1, BeforeFree
  <2>3. n \in 0..Len(unread)
    BY <1>6, <2>1, <2>2, LenProperties, BufferAssumption
  <2>4. buffer \in Seq(T)
    BY <2>2, <2>3, SplitAt
  <2>5. \/ newline(buffer) # 0 /\ mGnl' = Append(mGnl, remain_string \o before(buffer))
        \/ mGnl' = mGnl
    BY <1>6 DEF ReadPiece
  <2> HIDE DEF buffer
  <2>6. CASE mGnl' = mGnl
    BY <2>1, <2>6
  <2>7. CASE newline(buffer) # 0 /\ mGnl' = Append(mGnl, remain_string \o before(buffer))
    <3>1. before(buffer) \in Seq(T) /\ Without(before(buffer), EOL)
      BY <2>4, <2>7, SplitAtLine, BeforeFree
    <3>2. remain_string \o before(buffer) \in Seq(T) /\ Without(remain_string \o before(buffer), EOL)
      BY <2>2, <3>1, FreeConcat, ConcatProperties
    <3> QED
      BY <2>1, <2>7, <3>2, MoreFree
  <2> QED
    BY <2>5, <2>6, <2>7
<1>7. CASE ReadEnd
  <2>1. pc = "SetGnl" /\ newline(remain_string) = 0 /\ mGnl' = Append(mGnl, remain_string)
        /\ pc' = "Step1" /\ line' = 1 /\ mConfigs' = mConfigs /\ mServerBracket' = mServerBracket
    BY <1>7 DEF ReadEnd
  <2>2. remain_string \in Seq(T) /\ Without(remain_string, EOL)
    BY <1>3, <2>1, BeforeFree
  <2>3. AreFree(mGnl')
    BY <2>1, <2>2, MoreFree
  <2>4. mGnl' # <<>>
    BY <1>4, <2>1, AppendSeq
  <2> QED
    BY <2>1, <2>3, <2>4
<1>8. CASE ReadFails
  BY <1>8 DEF ReadFails
<1>9. CASE Parse
  <2>1. pc \in {"Step1", "Step2", "SetConfigs"}
    BY <1>9 DEF Parse, Step1, Step2Server, Step2, ParseServer, ParseLocation, ParseEnd
  <2> QED
    BY <2>1
<1> QED
  BY <1>1, <1>2, <1>5, <1>6, <1>7, <1>8, <1>9 DEF Next, Read

-----------------------------------------------------------------------------
(***************************************************************************)
(* The lines of a file that is not damaged, while they lose their tabs:    *)
(* those before done have lost all of them, those from there to end one.   *)
(***************************************************************************)
Tabs(r, k, done, end) == IF k < done THEN 0 ELSE IF k < end THEN r.tabs - 1 ELSE r.tabs
Laid(lines, R, done, end) ==
  /\ Len(lines) \in {Len(R), Len(R) + 1}
  /\ \A k \in 1..Len(R) : lines[k] = Line(Tabs(R[k], k, done, end), R[k].words)
  /\ Len(lines) = Len(R) + 1 => lines[Len(R) + 1] = <<>>

(* The lines of the blocks, and the empty line behind the last new line,   *)
(* before any has lost a tab.                                              *)
LEMMA LinesLaid ==
  ASSUME NEW blocks, AreBlocks(blocks)
  PROVE  /\ AreFree(Lines(blocks)) /\ Len(Lines(blocks)) = Len(RuledLines(blocks))
         /\ Laid(Lines(blocks), RuledLines(blocks), 0, 0)
         /\ AreFree(Append(Lines(blocks), <<>>)) /\ Append(Lines(blocks), <<>>) # <<>>
         /\ Laid(Append(Lines(blocks), <<>>), RuledLines(blocks), 0, 0)
<1> DEFINE R == RuledLines(blocks)
           L == Lines(blocks)
<1>1. IsSeq(R) /\ Len(R) \in Nat
  BY ServersEnd
<1>2. L = [k \in DOMAIN R |-> Line(R[k].tabs, R[k].words)]
  BY DEF Lines
<1>3. IsSeq(L) /\ Len(L) = Len(R) /\ DOMAIN L = 1..Len(R) /\ DOMAIN R = 1..Len(R)
  <2>1. L = [k \in DOMAIN R |-> L[k]]
    BY <1>2
  <2> HIDE DEF L, R
  <2> QED
    BY <1>1, <2>1, SeqOver, SeqDomain
<1>4. \A p \in 1..Len(R) : IsRuled(R[p])
  BY AllRuled
<1> HIDE DEF L, R
<1>5. \A k \in 1..Len(R) : L[k] = Line(R[k].tabs, R[k].words)
  BY <1>2, <1>3
<1>6. \A k \in 1..Len(R) : IsSeq(L[k]) /\ Without(L[k], EOL)
  <2> TAKE k \in 1..Len(R)
  <2>1. R[k].tabs \in Nat /\ AreWords(R[k].words)
    BY <1>4 DEF IsRuled
  <2> QED
    BY <1>5, <2>1, LineOfWords
<1>7. AreFree(L)
  BY <1>3, <1>6 DEF AreFree
<1>8. \A k \in 1..Len(R) : Tabs(R[k], k, 0, 0) = R[k].tabs
  BY <1>1 DEF Tabs
<1> DEFINE n == Len(R)
<1> HIDE DEF n
<1>13. \A k \in 1..n : L[k] = Line(Tabs(R[k], k, 0, 0), R[k].words)
  <2> TAKE k \in 1..n
  <2>1. Tabs(R[k], k, 0, 0) = R[k].tabs /\ L[k] = Line(R[k].tabs, R[k].words)
    BY <1>5, <1>8 DEF n
  <2> QED
    BY <2>1
<1>9. Laid(L, R, 0, 0)
  <2>1. n \in Nat /\ Len(L) = n /\ Len(R) = n
    BY <1>1, <1>3 DEF n
  <2> QED
    BY <1>13, <2>1 DEF Laid
<1> DEFINE M == Append(L, <<>>)
<1>10. AreFree(M)
  <2>1. <<>> \in Seq({}) /\ Without(<<>>, EOL)
    BY EmptySeq DEF Without
  <2> QED
    BY <1>7, <2>1, MoreFree
<1> DEFINE none == <<>>
<1> HIDE DEF none
<1>11. /\ Append(L, none) # <<>> /\ Len(Append(L, none)) = n + 1
       /\ \A k \in 1..n : Append(L, none)[k] = L[k]
       /\ Append(L, none)[n + 1] = none
  <2>1. IsSeq(L) /\ Len(L) = n /\ DOMAIN L = 1..n
    BY <1>3 DEF n
  <2>2. /\ DOMAIN Append(L, none) = 1..(Len(L) + 1) /\ Append(L, none) # <<>>
        /\ \A k \in DOMAIN L : Append(L, none)[k] = L[k]
        /\ Append(L, none)[Len(L) + 1] = none
    BY ONLY <2>1, AppendSeq
  <2>3. Len(Append(L, none)) = Len(L) + 1
    BY ONLY <2>1, AppendLen
  <2> QED
    BY <2>1, <2>2, <2>3
<1>12. Laid(M, R, 0, 0) /\ M # <<>>
  <2>1. n \in Nat /\ Len(R) = n
    BY <1>1 DEF n
  <2>2. M # <<>> /\ Len(M) = n + 1 /\ M[n + 1] = <<>> /\ \A k \in 1..n : M[k] = L[k]
    BY <1>11 DEF none
  <2> HIDE DEF M
  <2> QED
    BY <1>13, <2>1, <2>2 DEF Laid
<1> HIDE DEF M
<1> QED
  BY <1>3, <1>7, <1>9, <1>10, <1>11, <1>12 DEF L, R, M

(* What WrittenAssumption says of the file that is read.                   *)
LEMMA SaidBlocks ==
  ASSUME Said, file \in Files
  PROVE  AreBlocks(file.servers)
BY FilesAssumption, WrittenAssumption DEF Said, AreBlocks

(* No line and one empty line have the same, empty text.                   *)
LEMMA TextOfNone == Text(<<>>) = <<>> /\ Text(<< <<>> >>) = <<>>
<1>1. Text(<<>>) = <<>>
  <2>1. [k \in DOMAIN <<>> |-> IF k = 1 THEN <<>>[k] ELSE <<EOL>> \o <<>>[k]] = <<>>
    OBVIOUS
  <2> QED
    BY <2>1, FlattenNone DEF Text, Join
<1>2. <<>> \in Seq({EOL}) /\ EOL \in {EOL}
  BY EmptySeq
<1>3. Text(<< <<>> >>) = <<>>
  BY <1>2, JoinOne DEF Text
<1> QED
  BY <1>1, <1>3

(* get_next_line gives the lines of the blocks back.                       *)
LEMMA LinesBack ==
  ASSUME Said, file \in Files, NEW lines, AreFree(lines), lines # <<>>, Text(lines) = file.text
  PROVE  Laid(lines, RuledLines(file.servers), 0, 0)
<1> DEFINE L == Lines(file.servers)
           M == Append(L, <<>>)
<1>1. AreBlocks(file.servers)
  BY SaidBlocks
<1>2. file.text = Text(L) \/ file.text = Text(M)
  BY WrittenAssumption DEF Said
<1>3. /\ AreFree(L) /\ AreFree(M) /\ M # <<>>
      /\ Laid(L, RuledLines(file.servers), 0, 0) /\ Laid(M, RuledLines(file.servers), 0, 0)
  BY <1>1, LinesLaid
<1>4. ASSUME NEW b, AreFree(b), b # <<>>, file.text = Text(b)
      PROVE  lines = b
  BY <1>4, TextInjective DEF AreFree
<1>5. CASE L = <<>>
  <2>1. M = << <<>> >>
    BY <1>5
  <2>2. file.text = Text(M)
    BY <1>2, <1>5, <2>1, TextOfNone
  <2> QED
    BY <1>3, <1>4, <2>2
<1>6. CASE L # <<>>
  <2> HIDE DEF L, M
  <2> QED
    BY <1>2, <1>3, <1>4, <1>6
<1> QED
  BY <1>5, <1>6

-----------------------------------------------------------------------------
(***************************************************************************)
(* The brackets are found where they were put.                             *)
(***************************************************************************)
LEMMA BracketAt ==
  ASSUME NEW from \in Int, NEW to \in Int, NEW c \in Int, 1 <= from, from < c, c <= to,
         mGnl[from] = OpenBracket, mGnl[c] = CloseBracket,
         \A k \in (from + 1)..(c - 1) : mGnl[k] \notin {OpenBracket, CloseBracket}
  PROVE  /\ checkBracketSyntax(from, to)
         /\ Bracket(from, to).mStart = from /\ Bracket(from, to).mEnd = c
<1> DEFINE I == {k \in from..to : mGnl[k] = CloseBracket}
           O == Opens(from, to)
<1>1. OpenBracket # CloseBracket
  BY DEF OpenBracket, CloseBracket
<1>2. c \in I /\ \A k \in I : c <= k
  <2>1. ASSUME NEW k \in I, ~(c <= k) PROVE FALSE
    <3>1. k \in from..to /\ mGnl[k] = CloseBracket /\ k < c
      BY <2>1
    <3>2. k # from
      BY <1>1, <3>1
    <3>3. k \in (from + 1)..(c - 1)
      BY <3>1, <3>2
    <3> QED
      BY <3>1, <3>3
  <2> QED
    BY <2>1
<1>3. Close(from, to) = IF I # {} THEN Min(I) ELSE 0
  BY DEF Close, SelectInSubSeq
<1>4. Close(from, to) = c
  <2>1. I \in SUBSET Nat /\ I \in SUBSET Int /\ I # {}
    BY <1>2
  <2> HIDE DEF I
  <2>2. Min(I) \in I /\ \A x \in I : Min(I) <= x
    BY <2>1, MinIn
  <2>3. Min(I) <= c /\ c <= Min(I) /\ Min(I) \in Int
    BY <1>2, <2>1, <2>2
  <2> QED
    BY <1>3, <2>1, <2>3
<1>5. O = {from}
  <2>1. O = {k \in from..to : mGnl[k] = OpenBracket /\ k < c}
    BY <1>4 DEF Opens
  <2>2. from \in O
    BY <2>1
  <2>3. ASSUME NEW k \in O PROVE k = from
    <3>1. k \in from..to /\ mGnl[k] = OpenBracket /\ k < c
      BY <2>1, <2>3
    <3>2. k \notin (from + 1)..(c - 1)
      BY <3>1
    <3> QED
      BY <3>1, <3>2
  <2> QED
    BY <2>2, <2>3
<1>6. checkBracketSyntax(from, to)
  BY <1>4, <1>5 DEF checkBracketSyntax
<1> HIDE DEF O
<1>7. Bracket(from, to) = [mStart |-> CHOOSE k \in O : TRUE, mEnd |-> c]
  BY <1>4 DEF Bracket, O
<1>8. (CHOOSE k \in O : TRUE) = from
  BY <1>5
<1> QED
  BY <1>6, <1>7, <1>8

(* The brackets of a block, with the locations that are among its first i  *)
(* items.                                                                  *)
LocationItems(block) == {i \in 1..Len(block) : isLocation(block[i])}
LocationBracket(blocks, s) ==
  [i \in 1..Len(blocks[s]) |->
     [mStart |-> At(blocks, s, i - 1) + 2, mEnd |-> At(blocks, s, i),
      mLocationPath |-> Path(blocks[s][i].path)]]
Located(blocks, s, i) == Picks(i, LocationItems(blocks[s]), LocationBracket(blocks, s))
ServerBracket(blocks, s, i) ==
  [mStart |-> Above(blocks, s - 1) + 2, mEnd |-> Above(blocks, s),
   mLocationBracket |-> Located(blocks, s, i)]

(* Among no items there is no location.                                    *)
LEMMA LocatedNone ==
  ASSUME NEW blocks, NEW s
  PROVE  Located(blocks, s, 0) = <<>>
BY PicksNone DEF Located

(* The lines of a block, before any of them has lost a tab.                *)
LEMMA LaidServer ==
  ASSUME NEW blocks, AreBlocks(blocks), NEW s \in 1..Len(blocks), NEW lines,
         Laid(lines, RuledLines(blocks), 0, 0)
  PROVE  LET top == Above(blocks, s - 1)
             end == Above(blocks, s)
         IN  /\ top \in Nat /\ end \in Nat /\ top + 3 <= end /\ end <= Len(lines)
             /\ lines[top + 1] = <<"server">>
             /\ lines[top + 2] = OpenBracket /\ lines[end] = CloseBracket
             /\ \A k \in (top + 3)..(end - 1) : lines[k] \notin {OpenBracket, CloseBracket}
<1> DEFINE top == Above(blocks, s - 1)
           end == Above(blocks, s)
           R == RuledLines(blocks)
           n == Len(R)
<1>1. Len(R) \in Nat
  BY ServersEnd
<1>2. /\ top \in Nat /\ end \in Nat /\ end = top + 3 + Len(Inner(blocks[s])) /\ end <= Len(R)
      /\ R[top + 1] = Ruled(0, << <<"server">> >>) /\ R[top + 2] = Ruled(0, <<OpenBracket>>)
      /\ R[end] = Ruled(0, <<CloseBracket>>)
  BY PlanServer
<1>3. Len(Inner(blocks[s])) \in Nat
  BY PlanServer, ItemsEnd
<1>4. \A p \in (top + 3)..(end - 1) : IsRuled(R[p]) /\ R[p].tabs # 0
  BY PlanRuled
<1>5. /\ Len(lines) \in {n, n + 1}
      /\ \A k \in 1..n : lines[k] = Line(Tabs(R[k], k, 0, 0), R[k].words)
  BY DEF Laid
<1> HIDE DEF top, end, R
<1>6. \A k \in 1..n : Tabs(R[k], k, 0, 0) = R[k].tabs
  BY <1>1 DEF Tabs
<1>7. \A k \in 1..n : lines[k] = Line(R[k].tabs, R[k].words)
  <2> TAKE k \in 1..n
  <2>1. Tabs(R[k], k, 0, 0) = R[k].tabs /\ lines[k] = Line(Tabs(R[k], k, 0, 0), R[k].words)
    BY <1>5, <1>6
  <2> QED
    BY <2>1
<1>8. top + 3 <= end /\ end <= Len(lines) /\ top + 1 \in 1..n /\ top + 2 \in 1..n /\ end \in 1..n
  BY <1>1, <1>2, <1>3, <1>5
<1>9. ASSUME NEW k \in 1..n, NEW w, IsWord(w), R[k] = Ruled(0, <<w>>)
      PROVE  lines[k] = w
  <2>1. R[k].tabs = 0 /\ R[k].words = <<w>>
    BY <1>9, RuledOf
  <2>2. Line(0, <<w>>) = w
    BY <1>9, LineOfOne
  <2> QED
    BY <1>7, <2>1, <2>2
<1>10. lines[top + 1] = <<"server">> /\ lines[top + 2] = OpenBracket /\ lines[end] = CloseBracket
  BY <1>2, <1>8, <1>9, FixedWords
<1>11. ASSUME NEW k \in (top + 3)..(end - 1) PROVE lines[k] \notin {OpenBracket, CloseBracket}
  <2>1. k \in 1..n
    BY <1>1, <1>2
  <2>2. R[k].tabs \in Nat /\ R[k].tabs # 0 /\ AreWords(R[k].words)
    BY <1>4 DEF IsRuled
  <2> QED
    BY <1>7, <2>1, <2>2, NoBracketIndented
<1> QED
  BY <1>2, <1>8, <1>10, <1>11 DEF top, end

(***************************************************************************)
(* Step1: the server blocks, one turn for each and one for the empty line  *)
(* behind the last new line.                                               *)
(***************************************************************************)
Found(brackets, blocks, n) ==
  /\ IsSeq(brackets) /\ Len(brackets) = n
  /\ \A k \in 1..n : brackets[k] = ServerBracket(blocks, k, 0)
AtStep1(lines, brackets, at, blocks) ==
  /\ Laid(lines, RuledLines(blocks), 0, 0)
  /\ \E j \in 0..Len(blocks) :
       /\ Found(brackets, blocks, j)
       /\ at = Above(blocks, j) + 1 \/ (j = Len(blocks) /\ at = Above(blocks, j) + 2)

(* One server block more has been found.                                   *)
LEMMA FoundMore ==
  ASSUME NEW brackets, NEW blocks, NEW j \in Nat, Found(brackets, blocks, j),
         NEW b, b = ServerBracket(blocks, j + 1, 0)
  PROVE  Found(Append(brackets, b), blocks, j + 1)
<1>1. IsSeq(brackets) /\ Len(brackets) = j /\ \A k \in 1..j : brackets[k] = ServerBracket(blocks, k, 0)
  BY DEF Found
<1>2. DOMAIN brackets = 1..j
  BY <1>1, SeqDomain
<1>3. /\ IsSeq(Append(brackets, b)) /\ \A k \in 1..j : Append(brackets, b)[k] = brackets[k]
      /\ Append(brackets, b)[j + 1] = b
  BY <1>1, <1>2, AppendSeq
<1>4. Len(Append(brackets, b)) = j + 1
  BY <1>1, AppendLen
<1>5. ASSUME NEW k \in 1..(j + 1) PROVE Append(brackets, b)[k] = ServerBracket(blocks, k, 0)
  <2>1. CASE k \in 1..j
    BY <1>1, <1>3, <2>1
  <2>2. CASE k = j + 1
    BY <1>3, <2>2
  <2>3. k \in 1..j \/ k = j + 1
    OBVIOUS
  <2> QED
    BY <2>1, <2>2, <2>3, Zenon
<1> QED
  BY <1>3, <1>4, <1>5 DEF Found

(* A turn of Step1 finds the next server block.                            *)
LEMMA Step1Turn ==
  ASSUME NEW blocks, AreBlocks(blocks), AtStep1(mGnl, mServerBracket, line, blocks), Step1
  PROVE  pc' = "Step1" /\ AtStep1(mGnl', mServerBracket', line', blocks)
<1> DEFINE n == Len(blocks)
           R == RuledLines(blocks)
<1>1. n \in Nat /\ Len(R) \in Nat
  BY ServersEnd
<1>2. Above(blocks, n) = Len(R) /\ \A k \in 0..n : Above(blocks, k) \in Nat
  BY AboveGrows
<1>3. Laid(mGnl, R, 0, 0)
  BY DEF AtStep1
<1>4. PICK j \in 0..n : /\ Found(mServerBracket, blocks, j)
                        /\ line = Above(blocks, j) + 1 \/ (j = n /\ line = Above(blocks, j) + 2)
  BY DEF AtStep1
<1>5. pc = "Step1" /\ line <= Len(mGnl) /\ mGnl' = mGnl
  BY DEF Step1
<1>6. /\ Len(mGnl) \in {Len(R), Len(R) + 1}
      /\ Len(mGnl) = Len(R) + 1 => mGnl[Len(R) + 1] = <<>>
  BY <1>3 DEF Laid
<1> HIDE DEF n, R
<1>7. CASE j = n
  <2>1. line = Len(R) + 1 /\ mGnl[line] = <<>>
    BY <1>1, <1>2, <1>4, <1>5, <1>6, <1>7
  <2>2. mGnl[line] # <<"server">>
    BY <2>1
  <2>3. line' = line + 1 /\ pc' = pc /\ mServerBracket' = mServerBracket
    BY <2>2 DEF Step1
  <2>4. line' = Above(blocks, n) + 2
    BY <1>1, <1>2, <2>1, <2>3
  <2>5. Found(mServerBracket', blocks, n)
    BY <1>4, <1>7, <2>3
  <2>6. n \in 0..n
    BY <1>1
  <2> QED
    BY <1>3, <1>5, <2>3, <2>4, <2>5, <2>6 DEF AtStep1, n, R
<1>8. CASE j # n
  <2> DEFINE top == Above(blocks, j)
             end == Above(blocks, j + 1)
             from == line + 1
             to == Len(mGnl)
             b == Bracket(from, to)
  <2>1. j + 1 \in 1..Len(blocks) /\ j + 1 - 1 = j /\ j + 1 \in 0..n /\ j \in Nat
    BY <1>1, <1>8 DEF n
  <2>2. Laid(mGnl, RuledLines(blocks), 0, 0)
    BY <1>3 DEF R
  <2>3. /\ top \in Nat /\ end \in Nat /\ top + 3 <= end /\ end <= Len(mGnl)
        /\ mGnl[top + 1] = <<"server">>
        /\ mGnl[top + 2] = OpenBracket /\ mGnl[end] = CloseBracket
        /\ \A k \in (top + 3)..(end - 1) : mGnl[k] \notin {OpenBracket, CloseBracket}
    <3> DEFINE s == j + 1
    <3>1. s \in 1..Len(blocks) /\ s - 1 = j
      BY <2>1
    <3> HIDE DEF s
    <3>2. LET t == Above(blocks, s - 1)
              e == Above(blocks, s)
          IN  /\ t \in Nat /\ e \in Nat /\ t + 3 <= e /\ e <= Len(mGnl)
              /\ mGnl[t + 1] = <<"server">>
              /\ mGnl[t + 2] = OpenBracket /\ mGnl[e] = CloseBracket
              /\ \A k \in (t + 3)..(e - 1) : mGnl[k] \notin {OpenBracket, CloseBracket}
      BY <2>2, <3>1, LaidServer
    <3> QED
      BY <3>1, <3>2 DEF s
  <2> HIDE DEF top, end
  <2>4. line = top + 1
    BY <1>4, <1>8 DEF top
  <2>5. Len(mGnl) \in Int
    BY <1>1, <1>6
  <2>6. /\ from \in Int /\ to \in Int /\ end \in Int /\ 1 <= from /\ from < end /\ end <= to
        /\ mGnl[from] = OpenBracket /\ mGnl[end] = CloseBracket
    BY <2>3, <2>4, <2>5
  <2>7. \A k \in (from + 1)..(end - 1) : mGnl[k] \notin {OpenBracket, CloseBracket}
    <3>1. from + 1 = top + 3
      BY <2>3, <2>4
    <3> QED
      BY <2>3, <3>1
  <2> HIDE DEF from, to
  <2>8. checkBracketSyntax(from, to) /\ b.mStart = from /\ b.mEnd = end
    BY <2>6, <2>7, BracketAt
  <2>9. mGnl[line] = <<"server">>
    BY <2>3, <2>4
  <2>10. /\ mServerBracket' =
              Append(mServerBracket, [mStart |-> b.mStart, mEnd |-> b.mEnd, mLocationBracket |-> <<>>])
         /\ line' = b.mEnd + 1 /\ pc' = pc
    BY <2>8, <2>9 DEF Step1, from, to
  <2>11. [mStart |-> b.mStart, mEnd |-> b.mEnd, mLocationBracket |-> <<>>] = ServerBracket(blocks, j + 1, 0)
    <3>1. from = Above(blocks, j + 1 - 1) + 2
      BY <2>1, <2>3, <2>4 DEF from, top
    <3>2. Located(blocks, j + 1, 0) = <<>>
      BY LocatedNone
    <3> QED
      BY <2>8, <3>1, <3>2 DEF ServerBracket, end
  <2>12. Found(mServerBracket', blocks, j + 1)
    BY <1>4, <2>1, <2>10, <2>11, FoundMore
  <2>13. line' = Above(blocks, j + 1) + 1
    BY <2>8, <2>10 DEF end
  <2> QED
    BY <1>3, <1>5, <2>1, <2>10, <2>12, <2>13 DEF AtStep1, n, R
<1> QED
  BY <1>7, <1>8

-----------------------------------------------------------------------------
(***************************************************************************)
(* Step2Server: the lines of the next block lose a tab.                    *)
(***************************************************************************)
Searched(brackets, blocks, s, i) ==
  /\ IsSeq(brackets) /\ Len(brackets) = Len(blocks)
  /\ \A k \in 1..Len(blocks) :
       brackets[k] = ServerBracket(blocks, k, IF k < s THEN Len(blocks[k]) ELSE IF k = s THEN i ELSE 0)
AtStep2(lines, brackets, s, at, blocks) ==
  /\ s \in 1..Len(blocks)
  /\ Laid(lines, RuledLines(blocks), at, Above(blocks, s))
  /\ \E i \in 0..Len(blocks[s]) : Searched(brackets, blocks, s, i) /\ at = At(blocks, s, i) + 1

(* What is done to each of the lines is done to their tabs.                *)
LEMMA Relaid ==
  ASSUME NEW lines, NEW R, Len(R) \in Nat, NEW done, NEW end, Laid(lines, R, done, end),
         NEW more, IsSeq(lines), more = [k \in DOMAIN lines |-> more[k]],
         NEW done2, NEW end2,
         \A k \in 1..Len(R) : more[k] = Line(Tabs(R[k], k, done2, end2), R[k].words),
         Len(lines) = Len(R) + 1 => more[Len(R) + 1] = <<>>
  PROVE  Laid(more, R, done2, end2)
<1>1. Len(more) = Len(lines)
  BY SeqOver
<1> QED
  BY <1>1 DEF Laid

(* The three lines of a server block that are not indented.                *)
LEMMA ZeroTabs ==
  ASSUME NEW blocks, AreBlocks(blocks), NEW s \in 1..Len(blocks)
  PROVE  /\ RuledLines(blocks)[Above(blocks, s - 1) + 1].tabs = 0
         /\ RuledLines(blocks)[Above(blocks, s - 1) + 2].tabs = 0
         /\ RuledLines(blocks)[Above(blocks, s)].tabs = 0
<1>1. /\ RuledLines(blocks)[Above(blocks, s - 1) + 1] = Ruled(0, << <<"server">> >>)
      /\ RuledLines(blocks)[Above(blocks, s - 1) + 2] = Ruled(0, <<OpenBracket>>)
      /\ RuledLines(blocks)[Above(blocks, s)] = Ruled(0, <<CloseBracket>>)
  BY PlanServer
<1> QED
  BY ONLY <1>1, RuledOf

(* The line in front of a server block is not indented.                    *)
LEMMA AboveZero ==
  ASSUME NEW blocks, AreBlocks(blocks), NEW s \in 0..Len(blocks), NEW k \in 1..Len(RuledLines(blocks)),
         k = Above(blocks, s)
  PROVE  RuledLines(blocks)[k].tabs = 0
<1>1. Len(blocks) \in Nat
  BY ServersEnd
<1>2. Above(blocks, 0) = 0
  BY AboveGrows
<1>3. s # 0
  BY <1>2
<1>4. s \in 1..Len(blocks)
  BY <1>1, <1>3
<1> QED
  BY <1>4, ZeroTabs

(* When the lines between its brackets lose a tab, a block is laid out as  *)
(* one whose items can be searched.                                        *)
LEMMA OutdentServer ==
  ASSUME NEW blocks, AreBlocks(blocks), NEW s \in 1..Len(blocks),
         NEW top, top = Above(blocks, s - 1), NEW end, end = Above(blocks, s),
         NEW lines, IsSeq(lines), Laid(lines, RuledLines(blocks), top, top)
  PROVE  Laid([k \in DOMAIN lines |-> IF k \in (top + 3)..(end - 1) THEN outdentTab(lines[k]) ELSE lines[k]],
              RuledLines(blocks), top + 3, end)
<1> DEFINE R == RuledLines(blocks)
           n == Len(R)
           more == [k \in DOMAIN lines |-> IF k \in (top + 3)..(end - 1) THEN outdentTab(lines[k]) ELSE lines[k]]
<1>1. n \in Nat /\ Len(blocks) \in Nat
  BY ServersEnd
<1>2. /\ top \in Nat /\ end \in Nat /\ end = top + 3 + Len(Inner(blocks[s])) /\ end <= n
      /\ Len(Inner(blocks[s])) \in Nat
  BY PlanServer, ItemsEnd
<1>3. /\ Len(lines) \in {n, n + 1} /\ DOMAIN lines = 1..Len(lines)
      /\ \A k \in 1..n : lines[k] = Line(Tabs(R[k], k, top, top), R[k].words)
      /\ Len(lines) = n + 1 => lines[n + 1] = <<>>
  BY SeqDomain DEF Laid
<1>4. \A k \in 1..n : IsRuled(R[k])
  BY AllRuled
<1>5. \A k \in (top + 3)..(end - 1) : R[k].tabs # 0
  BY PlanRuled
<1>6. \A k \in 1..n : k \in {top, top + 1, top + 2} => R[k].tabs = 0
  <2> TAKE k \in 1..n
  <2>1. R[top + 1].tabs = 0 /\ R[top + 2].tabs = 0
    BY ZeroTabs
  <2>2. s - 1 \in 0..Len(blocks)
    BY <1>1
  <2>3. k = top => R[k].tabs = 0
    BY <2>2, AboveZero
  <2> QED
    BY <2>1, <2>3
<1> HIDE DEF n, R
<1>7. ASSUME NEW k \in 1..n
      PROVE  (IF k \in (top + 3)..(end - 1) THEN outdentTab(lines[k]) ELSE lines[k])
               = Line(Tabs(R[k], k, top + 3, end), R[k].words)
  <2> DEFINE r == R[k]
             a == Tabs(r, k, top, top)
             b == Tabs(r, k, top + 3, end)
  <2>1. r.tabs \in 0..2 /\ AreWords(r.words)
    BY <1>4 DEF IsRuled
  <2>2. lines[k] = Line(a, r.words)
    BY <1>3
  <2>3. CASE k \in (top + 3)..(end - 1)
    <3>1. r.tabs # 0
      BY <1>5, <2>3
    <3> HIDE DEF r
    <3>2. a = r.tabs /\ b = r.tabs - 1 /\ r.tabs \in Nat
      <4>1. a = IF k < top THEN 0 ELSE r.tabs
        BY <1>2 DEF Tabs
      <4>2. b = IF k < top + 3 THEN 0 ELSE IF k < end THEN r.tabs - 1 ELSE r.tabs
        BY DEF Tabs
      <4> HIDE DEF a, b
      <4>3. r.tabs \in Nat
        BY ONLY <2>1
      <4>4. top \in Nat /\ end \in Nat
        BY ONLY <1>2
      <4>5. ~(k < top) /\ ~(k < top + 3) /\ k < end
        BY ONLY <2>3, <4>4
      <4> QED
        BY ONLY <4>1, <4>2, <4>3, <4>5
    <3> HIDE DEF a, b
    <3>3. outdentTab(Line(r.tabs, r.words)) = Line(r.tabs - 1, r.words)
      BY <2>1, <3>1, <3>2, LineOfWords
    <3>4. outdentTab(lines[k]) = Line(b, r.words)
      BY <2>2, <3>2, <3>3
    <3> QED
      BY <2>3, <3>4 DEF b, r
  <2>4. CASE k \notin (top + 3)..(end - 1)
    <3>1. k \in {top, top + 1, top + 2} => r.tabs = 0
      BY <1>6
    <3> HIDE DEF r
    <3>2. a = b
      <4>1. a = IF k < top THEN 0 ELSE r.tabs
        BY <1>2 DEF Tabs
      <4>2. b = IF k < top + 3 THEN 0 ELSE IF k < end THEN r.tabs - 1 ELSE r.tabs
        BY DEF Tabs
      <4>3. top \in Nat /\ end \in Nat /\ k \in Nat
        BY <1>1, <1>2
      <4>4. /\ k < top + 3 /\ ~(k < top) => k \in {top, top + 1, top + 2}
            /\ ~(k < top + 3) => ~(k < end)
        BY ONLY <2>4, <4>3
      <4> HIDE DEF a, b
      <4>5. CASE k < top
        BY ONLY <4>1, <4>2, <4>3, <4>5
      <4>6. CASE ~(k < top) /\ k < top + 3
        BY ONLY <3>1, <4>1, <4>2, <4>4, <4>6
      <4>7. CASE ~(k < top) /\ ~(k < top + 3)
        BY ONLY <4>1, <4>2, <4>4, <4>7
      <4> QED
        BY ONLY <4>5, <4>6, <4>7
    <3> HIDE DEF a, b
    <3>3. lines[k] = Line(b, r.words)
      BY <2>2, <3>2
    <3> QED
      BY <2>4, <3>3 DEF b, r
  <2> QED
    BY <2>3, <2>4
<1>8. \A k \in 1..n : k \in DOMAIN lines
  <2>1. Len(lines) \in {n, n + 1} /\ DOMAIN lines = 1..Len(lines)
    BY <1>3
  <2> DEFINE m == Len(lines)
             D == DOMAIN lines
  <2> HIDE DEF m, D
  <2>2. m \in {n, n + 1} /\ D = 1..m
    BY <2>1 DEF m, D
  <2>3. \A k \in 1..n : k \in D
    BY <1>1, <2>2
  <2> QED
    BY <2>3 DEF D
<1>9. \A k \in 1..n : more[k] = Line(Tabs(R[k], k, top + 3, end), R[k].words)
  <2> TAKE k \in 1..n
  <2>1. more[k] = IF k \in (top + 3)..(end - 1) THEN outdentTab(lines[k]) ELSE lines[k]
    BY <1>8
  <2> QED
    BY <1>7, <2>1
<1>10. Len(lines) = n + 1 => more[n + 1] = <<>>
  <2> SUFFICES ASSUME Len(lines) = n + 1 PROVE more[n + 1] = <<>>
    OBVIOUS
  <2>1. n + 1 \in DOMAIN lines /\ n + 1 \notin (top + 3)..(end - 1)
    BY <1>1, <1>2, <1>3
  <2> QED
    BY <1>3, <2>1
<1>11. more = [k \in DOMAIN lines |-> more[k]]
  OBVIOUS
<1> HIDE DEF more
<1>12. Laid(lines, R, top, top) /\ Len(R) \in Nat /\ Len(R) = n
  BY <1>1 DEF R, n
<1>13. Laid(more, R, top + 3, end)
  BY <1>9, <1>10, <1>11, <1>12, Relaid
<1> QED
  BY <1>13 DEF more, R

(* The search in server s begins.                                          *)
LEMMA SearchServer ==
  ASSUME NEW blocks, AreBlocks(blocks), NEW s \in 1..Len(blocks), IsSeq(mGnl),
         Laid(mGnl, RuledLines(blocks), Above(blocks, s - 1), Above(blocks, s - 1)),
         Searched(mServerBracket, blocks, s, 0)
  PROVE  LET b == mServerBracket[s]
         IN  /\ s \in 1..Len(mServerBracket)
             /\ AtStep2(outdented(b.mStart + 1, b.mEnd - 1), mServerBracket, s, b.mStart + 1, blocks)
<1> DEFINE b == mServerBracket[s]
           top == Above(blocks, s - 1)
           end == Above(blocks, s)
<1>1. b = ServerBracket(blocks, s, 0) /\ s \in 1..Len(mServerBracket)
  <2>1. b = ServerBracket(blocks, s, IF s < s THEN Len(blocks[s]) ELSE IF s = s THEN 0 ELSE 0)
    BY DEF Searched
  <2>2. ~(s < s)
    BY ServersEnd
  <2> QED
    BY <2>1, <2>2 DEF Searched
<1>2. b.mStart = top + 2 /\ b.mEnd = end
  BY <1>1 DEF ServerBracket
<1>3. top \in Nat /\ At(blocks, s, 0) = top + 2 /\ IsSeq(blocks[s])
  BY PlanServer
<1>4. b.mStart + 1 = top + 3
  BY <1>2, <1>3
<1>5. Laid(outdented(top + 3, end - 1), RuledLines(blocks), top + 3, end)
  BY OutdentServer DEF outdented
<1>6. 0 \in 0..Len(blocks[s])
  BY <1>3, SeqDomain
<1> HIDE DEF b, top
<1>7. top + 3 = At(blocks, s, 0) + 1
  BY <1>3
<1>8. AtStep2(outdented(top + 3, end - 1), mServerBracket, s, top + 3, blocks)
  BY <1>5, <1>6, <1>7 DEF AtStep2
<1> QED
  BY <1>1, <1>2, <1>4, <1>8 DEF b

(* An item has a line.                                                     *)
LEMMA ItemLen ==
  ASSUME NEW item, IsItem(item)
  PROVE  Len(ItemLines(item)) \in Nat \ {0}
<1>1. CASE isLocation(item)
  <2>1. Len(item.body) \in Nat /\ Len(ItemLines(item)) = Len(item.body) + 3
    BY <1>1, ItemShape
  <2> DEFINE m == Len(item.body)
  <2> HIDE DEF m
  <2>2. m \in Nat /\ Len(ItemLines(item)) = m + 3
    BY <2>1 DEF m
  <2> QED
    BY <2>2
<1>2. CASE ~isLocation(item)
  <2>1. Len(ItemLines(item)) = 1
    BY <1>2, ItemShape
  <2> QED
    BY <2>1
<1> QED
  BY <1>1, <1>2

(* The last item is the one that ends in front of the closing bracket.     *)
LEMMA LastItem ==
  ASSUME NEW blocks, AreBlocks(blocks), NEW s \in 1..Len(blocks), NEW i \in 0..Len(blocks[s])
  PROVE  /\ Len(blocks[s]) \in Nat
         /\ i = Len(blocks[s]) <=> At(blocks, s, i) + 1 >= Above(blocks, s)
         /\ i = Len(blocks[s]) => At(blocks, s, i) + 1 = Above(blocks, s)
<1>1. IsSeq(blocks[s]) /\ At(blocks, s, Len(blocks[s])) = Above(blocks, s) - 1 /\ Above(blocks, s) \in Nat
  BY PlanServer
<1>2. Len(blocks[s]) \in Nat
  BY <1>1, SeqDomain
<1>3. ASSUME i # Len(blocks[s]) PROVE At(blocks, s, i) + 1 < Above(blocks, s)
  <2> DEFINE k == i + 1
  <2>1. k \in 1..Len(blocks[s]) /\ k - 1 = i
    BY <1>2, <1>3
  <2> HIDE DEF k
  <2>2. /\ IsItem(blocks[s][k]) /\ At(blocks, s, k - 1) \in Nat
        /\ At(blocks, s, k) = At(blocks, s, k - 1) + Len(ItemLines(blocks[s][k]))
        /\ At(blocks, s, k) <= Above(blocks, s) - 1
    BY <2>1, PlanItem
  <2>3. Len(ItemLines(blocks[s][k])) \in Nat \ {0}
    BY <2>2, ItemLen
  <2> DEFINE p == At(blocks, s, k - 1)
             q == Len(ItemLines(blocks[s][k]))
             e == Above(blocks, s)
  <2>4. p \in Nat /\ q \in Nat \ {0} /\ p + q <= e - 1 /\ e \in Nat /\ p = At(blocks, s, i)
    BY <1>1, <2>1, <2>2, <2>3
  <2> HIDE DEF p, q, e
  <2>5. p + 1 < e
    BY <2>4
  <2> QED
    BY <2>4, <2>5 DEF e
<1>4. ASSUME i = Len(blocks[s]) PROVE At(blocks, s, i) + 1 = Above(blocks, s)
  BY <1>1, <1>4
<1> DEFINE p == At(blocks, s, i)
           e == Above(blocks, s)
<1>5. p \in Nat /\ e \in Nat
  BY <1>1, PlanOrder
<1>6. (i # Len(blocks[s]) => p + 1 < e) /\ (i = Len(blocks[s]) => p + 1 = e)
  BY <1>3, <1>4
<1> HIDE DEF p, e
<1>7. (i = Len(blocks[s]) <=> p + 1 >= e) /\ (i = Len(blocks[s]) => p + 1 = e)
  BY <1>5, <1>6
<1> QED
  BY <1>2, <1>7 DEF p, e

(* Behind the last server no line has a tab left.                          *)
LEMMA SearchDone ==
  ASSUME NEW blocks, AreBlocks(blocks), NEW lines,
         Laid(lines, RuledLines(blocks), Above(blocks, Len(blocks)), Above(blocks, Len(blocks)))
  PROVE  Laid(lines, RuledLines(blocks), Len(RuledLines(blocks)) + 1, 0)
<1> DEFINE R == RuledLines(blocks)
           n == Len(R)
<1>1. n \in Nat /\ Len(blocks) \in Nat /\ Above(blocks, Len(blocks)) = n
  BY ServersEnd, AboveGrows
<1>2. Laid(lines, R, n, n)
  BY <1>1
<1>3. \A k \in 1..n : IsRuled(R[k])
  BY AllRuled
<1>4. \A k \in 1..n : k = n => R[k].tabs = 0
  BY <1>1, AboveZero
<1> HIDE DEF R
<1>5. \A k \in 1..n : Tabs(R[k], k, n, n) = Tabs(R[k], k, n + 1, 0)
  BY <1>1, <1>4 DEF Tabs
<1>6. \A k \in 1..n : lines[k] = Line(Tabs(R[k], k, n + 1, 0), R[k].words)
  <2> TAKE k \in 1..n
  <2>1. /\ Tabs(R[k], k, n, n) = Tabs(R[k], k, n + 1, 0)
        /\ lines[k] = Line(Tabs(R[k], k, n, n), R[k].words)
    BY <1>2, <1>5 DEF Laid
  <2> QED
    BY <2>1
<1>7. Laid(lines, R, n + 1, 0)
  BY <1>2, <1>6 DEF Laid
<1> QED
  BY <1>7 DEF R

(* All server blocks found, the search in the first can begin.             *)
LEMMA FoundAll ==
  ASSUME NEW blocks, Len(blocks) \in Nat, NEW brackets, Found(brackets, blocks, Len(blocks))
  PROVE  Searched(brackets, blocks, 1, 0)
<1> DEFINE n == Len(blocks)
<1>1. IsSeq(brackets) /\ Len(brackets) = n /\ \A k \in 1..n : brackets[k] = ServerBracket(blocks, k, 0)
  BY DEF Found
<1>2. ASSUME NEW k \in 1..n
      PROVE  brackets[k] = ServerBracket(blocks, k, IF k < 1 THEN Len(blocks[k]) ELSE IF k = 1 THEN 0 ELSE 0)
  <2>1. ~(k < 1)
    OBVIOUS
  <2> QED
    BY <1>1, <2>1
<1> QED
  BY <1>1, <1>2 DEF Searched

(* One server block searched, the search in the next can begin.            *)
LEMMA SearchedNext ==
  ASSUME NEW blocks, Len(blocks) \in Nat, NEW s \in 1..Len(blocks), NEW brackets,
         Searched(brackets, blocks, s, Len(blocks[s]))
  PROVE  Searched(brackets, blocks, s + 1, 0)
<1> DEFINE n == Len(blocks)
<1>1. /\ IsSeq(brackets) /\ Len(brackets) = n
      /\ \A k \in 1..n : brackets[k] = ServerBracket(blocks, k, IF k < s THEN Len(blocks[k])
                                                     ELSE IF k = s THEN Len(blocks[s]) ELSE 0)
  BY DEF Searched
<1>2. ASSUME NEW k \in 1..n
      PROVE  brackets[k] = ServerBracket(blocks, k, IF k < s + 1 THEN Len(blocks[k])
                                                    ELSE IF k = s + 1 THEN 0 ELSE 0)
  <2> DEFINE a == IF k < s THEN Len(blocks[k]) ELSE IF k = s THEN Len(blocks[s]) ELSE 0
             b == IF k < s + 1 THEN Len(blocks[k]) ELSE IF k = s + 1 THEN 0 ELSE 0
  <2>1. a = b
    OBVIOUS
  <2>2. brackets[k] = ServerBracket(blocks, k, a)
    BY <1>1
  <2> HIDE DEF a, b
  <2>3. brackets[k] = ServerBracket(blocks, k, b)
    BY <2>1, <2>2
  <2> QED
    BY <2>3 DEF b
<1> QED
  BY <1>1, <1>2 DEF Searched

(* What the next server block finds.                                       *)
LEMMA BeforeServer ==
  ASSUME NEW blocks, AreBlocks(blocks), Step2Server,
         \/ pc = "Step1" /\ AtStep1(mGnl, mServerBracket, line, blocks)
         \/ pc = "Step2" /\ AtStep2(mGnl, mServerBracket, server, line, blocks),
         NEW s, s = IF pc = "Step1" THEN 1 ELSE server + 1
  PROVE  /\ s \in 1..(Len(blocks) + 1)
         /\ Laid(mGnl, RuledLines(blocks), Above(blocks, s - 1), Above(blocks, s - 1))
         /\ Searched(mServerBracket, blocks, s, 0)
<1> DEFINE R == RuledLines(blocks)
           n == Len(blocks)
<1>1. n \in Nat /\ Len(R) \in Nat
  BY ServersEnd
<1>2. Above(blocks, n) = Len(R) /\ Above(blocks, 0) = 0 /\ \A k \in 0..n : Above(blocks, k) \in Nat
  BY AboveGrows
<1>3. CASE pc = "Step1"
  <2>1. line > Len(mGnl) /\ s = 1
    BY <1>3 DEF Step2Server
  <2>2. Laid(mGnl, R, 0, 0)
    BY <1>3 DEF AtStep1
  <2>3. PICK j \in 0..n : /\ Found(mServerBracket, blocks, j)
                          /\ line = Above(blocks, j) + 1 \/ (j = n /\ line = Above(blocks, j) + 2)
    BY <1>3 DEF AtStep1
  <2>4. Len(mGnl) \in {Len(R), Len(R) + 1}
    BY <2>2 DEF Laid
  <2>5. j = n
    <3> SUFFICES ASSUME j # n PROVE FALSE
      OBVIOUS
    <3>1. j + 1 \in 1..n /\ j + 1 - 1 = j
      BY <1>1
    <3>2. Above(blocks, j) + 1 <= Len(R)
      <4> DEFINE u == j + 1
      <4>1. u \in 1..Len(blocks) /\ u - 1 = j
        BY <3>1
      <4> HIDE DEF u
      <4>2. /\ Above(blocks, u - 1) \in Nat /\ IsSeq(blocks[u]) /\ Above(blocks, u) <= Len(R)
            /\ \A i \in DOMAIN blocks[u] : IsItem(blocks[u][i])
            /\ Above(blocks, u) = Above(blocks, u - 1) + 3 + Len(Inner(blocks[u]))
        BY <4>1, PlanServer
      <4>3. Len(Inner(blocks[u])) \in Nat
        BY <4>2, ItemsEnd
      <4> QED
        BY <1>1, <4>1, <4>2, <4>3
    <3>3. line = Above(blocks, j) + 1
      BY <2>3
    <3> QED
      BY <1>1, <1>2, <2>1, <2>3, <2>4, <3>2, <3>3
  <2>6. Searched(mServerBracket, blocks, 1, 0)
    BY <1>1, <2>3, <2>5, FoundAll
  <2>7. Above(blocks, s - 1) = 0 /\ s \in 1..(n + 1)
    BY <1>1, <1>2, <2>1
  <2> QED
    BY <2>1, <2>2, <2>6, <2>7
<1>4. CASE pc = "Step2"
  <2>1. /\ server \in 1..n /\ Laid(mGnl, R, line, Above(blocks, server))
        /\ s = server + 1
    BY <1>4 DEF AtStep2
  <2>2. PICK i \in 0..Len(blocks[server]) :
          Searched(mServerBracket, blocks, server, i) /\ line = At(blocks, server, i) + 1
    BY <1>4 DEF AtStep2
  <2>3. line >= mServerBracket[server].mEnd
    BY <1>4 DEF Step2Server
  <2>4. mServerBracket[server].mEnd = Above(blocks, server)
    <3>1. \E m : mServerBracket[server] = ServerBracket(blocks, server, m)
      BY <2>1, <2>2 DEF Searched
    <3>2. PICK m : mServerBracket[server] = ServerBracket(blocks, server, m)
      BY <3>1
    <3> QED
      BY <3>2 DEF ServerBracket
  <2>5. i = Len(blocks[server]) /\ line = Above(blocks, server)
    BY <2>1, <2>2, <2>3, <2>4, LastItem
  <2>6. Searched(mServerBracket, blocks, server + 1, 0)
    BY <1>1, <2>1, <2>2, <2>5, SearchedNext
  <2>7. s \in 1..(n + 1) /\ s - 1 = server
    BY <1>1, <2>1
  <2> QED
    BY <2>1, <2>5, <2>6, <2>7
<1> QED
  BY <1>3, <1>4

(* A turn of Step2Server begins the search in the next server block, or    *)
(* goes on to SetConfigs behind the last.                                  *)
LEMMA Step2ServerTurn ==
  ASSUME NEW blocks, AreBlocks(blocks), IsSeq(mGnl), Step2Server,
         \/ pc = "Step1" /\ AtStep1(mGnl, mServerBracket, line, blocks)
         \/ pc = "Step2" /\ AtStep2(mGnl, mServerBracket, server, line, blocks)
  PROVE  \/ pc' = "Step2" /\ AtStep2(mGnl', mServerBracket', server', line', blocks)
         \/ /\ pc' = "SetConfigs" /\ server' = 1 /\ line' = 0
            /\ Laid(mGnl', RuledLines(blocks), Len(RuledLines(blocks)) + 1, 0)
            /\ Searched(mServerBracket', blocks, Len(blocks) + 1, 0)
<1> DEFINE s == IF pc = "Step1" THEN 1 ELSE server + 1
           b == mServerBracket[s]
<1>1. /\ IF s <= Len(mServerBracket)
         THEN /\ pc' = "Step2" /\ server' = s /\ line' = b.mStart + 1
              /\ mGnl' = outdented(b.mStart + 1, b.mEnd - 1)
         ELSE pc' = "SetConfigs" /\ server' = 1 /\ line' = 0 /\ UNCHANGED mGnl
      /\ mServerBracket' = mServerBracket
  BY DEF Step2Server
<1>2. s = IF pc = "Step1" THEN 1 ELSE server + 1
  OBVIOUS
<1> HIDE DEF s
<1>3. /\ s \in 1..(Len(blocks) + 1)
      /\ Laid(mGnl, RuledLines(blocks), Above(blocks, s - 1), Above(blocks, s - 1))
      /\ Searched(mServerBracket, blocks, s, 0)
  BY <1>2, BeforeServer
<1>4. Len(blocks) \in Nat /\ Len(mServerBracket) = Len(blocks)
  BY <1>3, ServersEnd DEF Searched
<1>5. CASE s <= Len(blocks)
  <2>1. s \in 1..Len(blocks)
    BY <1>3, <1>4, <1>5
  <2>2. AtStep2(outdented(b.mStart + 1, b.mEnd - 1), mServerBracket, s, b.mStart + 1, blocks)
    BY <1>3, <2>1, SearchServer
  <2>3. pc' = "Step2" /\ server' = s /\ line' = b.mStart + 1 /\ mGnl' = outdented(b.mStart + 1, b.mEnd - 1)
    BY <1>1, <1>4, <1>5
  <2> HIDE DEF b
  <2> QED
    BY <1>1, <2>2, <2>3
<1>6. CASE ~(s <= Len(blocks))
  <2>1. s = Len(blocks) + 1 /\ s - 1 = Len(blocks)
    BY <1>3, <1>4, <1>6
  <2>2. Laid(mGnl, RuledLines(blocks), Len(RuledLines(blocks)) + 1, 0)
    BY <1>3, <2>1, SearchDone
  <2>3. pc' = "SetConfigs" /\ server' = 1 /\ line' = 0 /\ mGnl' = mGnl
    BY <1>1, <1>4, <1>6
  <2> QED
    BY <1>1, <1>3, <2>1, <2>2, <2>3
<1> QED
  BY <1>5, <1>6

-----------------------------------------------------------------------------
(***************************************************************************)
(* Step2: the items of a block, one turn for each.                         *)
(***************************************************************************)
(* The lines of a location, in the plan of the file.                       *)
LocationPlan(R, item, from, to, end) ==
  LET m == Len(item.body)
  IN  /\ from \in Nat /\ to \in Nat /\ end \in Nat /\ m \in Nat
      /\ to = from + m + 3 /\ to <= end - 1 /\ end <= Len(R) /\ Len(R) \in Nat
      /\ IsWord(item.path) /\ IsSeq(item.body)
      /\ \A k \in 1..m : AreWords(item.body[k])
      /\ R[from + 1] = Ruled(1, << <<"location">>, item.path >>)
      /\ R[from + 2] = Ruled(1, <<OpenBracket>>)
      /\ \A k \in 1..m : R[from + 2 + k] = Ruled(2, item.body[k])
      /\ R[to] = Ruled(1, <<CloseBracket>>)

(* Where the lines of a location are.                                      *)
LEMMA PlanLocation ==
  ASSUME NEW blocks, AreBlocks(blocks), NEW s \in 1..Len(blocks), NEW i \in 1..Len(blocks[s]),
         isLocation(blocks[s][i])
  PROVE  LocationPlan(RuledLines(blocks), blocks[s][i], At(blocks, s, i - 1), At(blocks, s, i),
                      Above(blocks, s))
<1> DEFINE item == blocks[s][i]
           R    == RuledLines(blocks)
           from == At(blocks, s, i - 1)
           to   == At(blocks, s, i)
           m    == Len(item.body)
           l    == ItemLines(item)
<1>1. /\ IsItem(item) /\ from \in Nat /\ Above(blocks, s - 1) + 2 <= from
      /\ to = from + Len(l) /\ to <= Above(blocks, s) - 1
      /\ \A n \in 1..Len(l) : R[from + n] = l[n]
  BY PlanItem
<1> HIDE DEF item, R, from, to
<1>2. isLocation(item)
  BY DEF item
<1>3. /\ IsWord(item.path) /\ IsSeq(item.body) /\ m \in Nat
      /\ \A k \in 1..m : IsDirective(item.body[k]) /\ AreWords(item.body[k])
      /\ Len(l) = m + 3
      /\ l[1] = Ruled(1, << <<"location">>, item.path >>)
      /\ l[2] = Ruled(1, <<OpenBracket>>)
      /\ \A k \in 1..m : l[2 + k] = Ruled(2, item.body[k])
      /\ l[m + 3] = Ruled(1, <<CloseBracket>>)
  BY <1>1, <1>2, ItemShape
<1> HIDE DEF m, l
<1>4. to = from + m + 3 /\ to \in Nat /\ from + (m + 3) = to
  <2>1. from \in Nat /\ m \in Nat /\ to = from + (m + 3)
    BY <1>1, <1>3
  <2> QED
    BY ONLY <2>1
<1>5. R[from + 1] = l[1] /\ R[from + 2] = l[2] /\ R[from + (m + 3)] = l[m + 3]
  BY <1>1, <1>3
<1>6. \A k \in 1..m : R[from + 2 + k] = Ruled(2, item.body[k])
  <2> TAKE k \in 1..m
  <2>1. 2 + k \in 1..Len(l) /\ from + (2 + k) = from + 2 + k
    BY <1>1, <1>3
  <2>2. R[from + (2 + k)] = l[2 + k] /\ l[2 + k] = Ruled(2, item.body[k])
    BY <1>1, <1>3, <2>1
  <2> QED
    BY <2>1, <2>2
<1>7. \A k \in 1..m : AreWords(item.body[k])
  BY <1>3
<1>8. Above(blocks, s) \in Nat /\ Above(blocks, s) <= Len(R) /\ Len(R) \in Nat
  BY PlanServer, ServersEnd DEF R
<1>9. /\ R[from + 1] = Ruled(1, << <<"location">>, item.path >>)
      /\ R[from + 2] = Ruled(1, <<OpenBracket>>) /\ R[to] = Ruled(1, <<CloseBracket>>)
  BY <1>3, <1>4, <1>5
<1> DEFINE end == Above(blocks, s)
<1>10. end = Above(blocks, s)
  OBVIOUS
<1> HIDE DEF end
<1>11. m = Len(item.body)
  BY DEF m
<1>12. LocationPlan(R, item, from, to, end)
  BY <1>1, <1>3, <1>4, <1>6, <1>7, <1>8, <1>9, <1>10, <1>11 DEF LocationPlan
<1> QED
  BY <1>12 DEF item, R, from, to, end

(* In a block that has lost a tab.                                         *)
LEMMA LaidAt ==
  ASSUME NEW lines, NEW R, NEW done \in Nat, NEW end \in Nat, Laid(lines, R, done, end),
         NEW k \in done..(end - 1), k \in 1..Len(R)
  PROVE  lines[k] = Line(R[k].tabs - 1, R[k].words)
<1>1. Tabs(R[k], k, done, end) = R[k].tabs - 1
  BY DEF Tabs
<1> QED
  BY <1>1 DEF Laid

(* What the lines of a location look like when the search comes to them.   *)
LEMMA LaidLocation ==
  ASSUME NEW R, NEW item, NEW from, NEW to, NEW end, LocationPlan(R, item, from, to, end),
         NEW lines, Laid(lines, R, from + 1, end)
  PROVE  /\ lines[from + 1] = Line(0, << <<"location">>, item.path >>)
         /\ lines[from + 2] = OpenBracket /\ lines[to] = CloseBracket
         /\ \A k \in (from + 3)..(to - 1) :
              /\ lines[k] \notin {OpenBracket, CloseBracket}
              /\ R[k].tabs = 2 /\ AreWords(R[k].words) /\ lines[k] = Line(1, R[k].words)
<1> DEFINE m == Len(item.body)
<1>1. /\ \A k \in 1..m : AreWords(item.body[k])
      /\ R[from + 1] = Ruled(1, << <<"location">>, item.path >>)
      /\ R[from + 2] = Ruled(1, <<OpenBracket>>)
      /\ \A k \in 1..m : R[from + 2 + k] = Ruled(2, item.body[k])
      /\ R[to] = Ruled(1, <<CloseBracket>>)
  BY DEF LocationPlan
<1>2. /\ from \in Nat /\ to \in Nat /\ end \in Nat /\ m \in Nat /\ Len(R) \in Nat
      /\ to = from + m + 3 /\ to <= end - 1 /\ end <= Len(R)
  BY DEF LocationPlan
<1> HIDE DEF m
<1>3. ASSUME NEW k \in (from + 1)..to
      PROVE  lines[k] = Line(R[k].tabs - 1, R[k].words)
  <2> DEFINE done == from + 1
  <2>1. k \in done..(end - 1) /\ k \in 1..Len(R) /\ done \in Nat
    BY <1>2
  <2>2. Laid(lines, R, done, end)
    OBVIOUS
  <2> HIDE DEF done
  <2> QED
    BY ONLY <1>2, <2>1, <2>2, LaidAt
<1>4. ASSUME NEW k \in (from + 1)..to, NEW w, R[k] = Ruled(1, w)
      PROVE  lines[k] = Line(0, w)
  <2>1. R[k].tabs = 1 /\ R[k].words = w
    BY <1>4, RuledOf
  <2>2. R[k].tabs - 1 = 0
    BY <2>1
  <2> QED
    BY <1>3, <2>1, <2>2
<1>5. lines[from + 1] = Line(0, << <<"location">>, item.path >>)
  <2>1. from + 1 \in (from + 1)..to
    BY <1>2
  <2> QED
    BY <1>1, <1>4, <2>1
<1>6. lines[from + 2] = OpenBracket /\ lines[to] = CloseBracket
  <2>1. Line(0, <<OpenBracket>>) = OpenBracket /\ Line(0, <<CloseBracket>>) = CloseBracket
    BY LineOfOne, FixedWords
  <2>2. from + 2 \in (from + 1)..to /\ to \in (from + 1)..to
    BY <1>2
  <2>3. lines[from + 2] = Line(0, <<OpenBracket>>) /\ lines[to] = Line(0, <<CloseBracket>>)
    BY <1>1, <1>4, <2>2
  <2> QED
    BY <2>1, <2>3
<1>7. ASSUME NEW k \in (from + 3)..(to - 1)
      PROVE  /\ lines[k] \notin {OpenBracket, CloseBracket}
             /\ R[k].tabs = 2 /\ AreWords(R[k].words) /\ lines[k] = Line(1, R[k].words)
  <2> DEFINE n == k - (from + 2)
  <2>1. n \in 1..m /\ from + 2 + n = k /\ k \in (from + 1)..to
    BY <1>2
  <2> HIDE DEF n
  <2>2. R[k] = Ruled(2, item.body[n]) /\ AreWords(item.body[n])
    BY <1>1, <2>1
  <2>3. R[k].tabs = 2 /\ R[k].words = item.body[n]
    BY <2>2, RuledOf
  <2>4. R[k].tabs - 1 = 1
    BY <2>3
  <2>5. lines[k] = Line(1, item.body[n])
    BY <1>3, <2>1, <2>3, <2>4
  <2>6. Line(1, item.body[n]) \notin {OpenBracket, CloseBracket}
    BY <2>2, NoBracketIndented
  <2> QED
    BY <2>2, <2>3, <2>5, <2>6
<1> QED
  BY <1>5, <1>6, <1>7

(* What a concatenation begins with.                                       *)
LEMMA ConcatFirst ==
  ASSUME NEW T, NEW s \in Seq(T), NEW t \in Seq(T), Len(s) # 0
  PROVE  s \o t \in Seq(T) /\ Len(s \o t) # 0 /\ (s \o t)[1] = s[1]
<1>1. /\ Len(s) \in Nat /\ Len(t) \in Nat
      /\ s \o t \in Seq(T) /\ Len(s \o t) = Len(s) + Len(t)
      /\ \A i \in 1..(Len(s) + Len(t)) : (s \o t)[i] = IF i <= Len(s) THEN s[i] ELSE t[i - Len(s)]
  BY LenProperties, ConcatProperties
<1>2. 1 \in 1..(Len(s) + Len(t)) /\ 1 <= Len(s)
  BY <1>1
<1>3. (s \o t)[1] = s[1]
  BY <1>1, <1>2
<1>4. Len(s) + Len(t) # 0
  BY <1>1
<1> QED
  BY <1>1, <1>3, <1>4

(* outdentTab leaves alone the first two lines of a location, that have    *)
(* lost their tab.                                                         *)
LEMMA NotIndented ==
  ASSUME NEW path, IsWord(path)
  PROVE  /\ outdentTab(Line(0, << <<"location">>, path >>)) = Line(0, << <<"location">>, path >>)
         /\ outdentTab(OpenBracket) = OpenBracket
<1>1. outdentTab(OpenBracket) = OpenBracket
  <2>1. OpenBracket[1] # Tab
    BY DEF OpenBracket, Tab
  <2> QED
    BY <2>1 DEF outdentTab
<1> DEFINE T == Elements(<< <<"location">>, path >>) \cup {"location", Space}
<1>2. AreWords(<< <<"location">>, path >>)
  BY LocationLine
<1>3. Line(0, << <<"location">>, path >>) = Join(<< <<"location">>, path >>, Space)
  BY <1>2, LineOfWords
<1>4. <<"location">> \in Seq(T) /\ path \in Seq(T) /\ Space \in T
  <2>1. << <<"location">>, path >> \in Seq(Seq(Elements(<< <<"location">>, path >>)))
    BY <1>2, WordsTyped
  <2> HIDE DEF T
  <2>2. path \in Seq(Elements(<< <<"location">>, path >>))
    BY <2>1
  <2>3. path \in Seq(T)
    BY <2>2, SeqMonotonic DEF T
  <2> QED
    BY <2>3 DEF T
<1> HIDE DEF T
<1>5. Join(<< <<"location">>, path >>, Space) = (<<"location">> \o <<Space>>) \o path
  BY <1>4, JoinTwo
<1>6. ((<<"location">> \o <<Space>>) \o path)[1] = "location"
  <2> DEFINE u == <<"location">>
             v == <<Space>>
  <2>1. u \in Seq(T) /\ v \in Seq(T) /\ Len(u) # 0 /\ u[1] = "location"
    BY <1>4
  <2> HIDE DEF u, v
  <2>2. u \o v \in Seq(T) /\ Len(u \o v) # 0 /\ (u \o v)[1] = u[1]
    BY <2>1, ConcatFirst
  <2>3. ((u \o v) \o path)[1] = (u \o v)[1]
    BY <1>4, <2>2, ConcatFirst
  <2> QED
    BY <2>1, <2>2, <2>3 DEF u, v
<1>7. "location" # Tab
  BY DEF Tab
<1>8. Line(0, << <<"location">>, path >>)[1] = "location"
  BY <1>3, <1>5, <1>6
<1>9. outdentTab(Line(0, << <<"location">>, path >>)) = Line(0, << <<"location">>, path >>)
  <2> DEFINE l == Line(0, << <<"location">>, path >>)
  <2> HIDE DEF l
  <2>1. l[1] # Tab
    BY <1>7, <1>8 DEF l
  <2>2. outdentTab(l) = l
    BY <2>1 DEF outdentTab
  <2> QED
    BY <2>2 DEF l
<1> QED
  BY <1>1, <1>9

(* Behind a location that is found, all lines in front have lost their     *)
(* tabs.                                                                   *)
LEMMA OutdentLocation ==
  ASSUME NEW R, NEW item, NEW from, NEW to, NEW end, LocationPlan(R, item, from, to, end),
         NEW lines, IsSeq(lines), Laid(lines, R, from + 1, end)
  PROVE  Laid([k \in DOMAIN lines |-> IF k \in (from + 1)..(to - 1) THEN outdentTab(lines[k]) ELSE lines[k]],
              R, to + 1, end)
<1> DEFINE n == Len(R)
           more == [k \in DOMAIN lines |-> IF k \in (from + 1)..(to - 1) THEN outdentTab(lines[k]) ELSE lines[k]]
<1>1. /\ from \in Nat /\ to \in Nat /\ end \in Nat /\ n \in Nat
      /\ from + 3 <= to /\ to <= end - 1 /\ end <= n
  BY DEF LocationPlan
<1>2. /\ IsWord(item.path)
      /\ R[from + 1] = Ruled(1, << <<"location">>, item.path >>)
      /\ R[from + 2] = Ruled(1, <<OpenBracket>>) /\ R[to] = Ruled(1, <<CloseBracket>>)
  BY DEF LocationPlan
<1>3. /\ lines[from + 1] = Line(0, << <<"location">>, item.path >>)
      /\ lines[from + 2] = OpenBracket /\ lines[to] = CloseBracket
      /\ \A k \in (from + 3)..(to - 1) :
           /\ lines[k] \notin {OpenBracket, CloseBracket}
           /\ R[k].tabs = 2 /\ AreWords(R[k].words) /\ lines[k] = Line(1, R[k].words)
  BY ONLY LocationPlan(R, item, from, to, end), Laid(lines, R, from + 1, end), LaidLocation
<1>4. /\ Len(lines) \in {n, n + 1}
      /\ \A k \in 1..n : lines[k] = Line(Tabs(R[k], k, from + 1, end), R[k].words)
      /\ Len(lines) = n + 1 => lines[n + 1] = <<>>
  BY DEF Laid
<1> HIDE DEF n
<1>5. ASSUME NEW k \in 1..n
      PROVE  (IF k \in (from + 1)..(to - 1) THEN outdentTab(lines[k]) ELSE lines[k])
               = Line(Tabs(R[k], k, to + 1, end), R[k].words)
  <2> DEFINE r == R[k]
             a == Tabs(r, k, from + 1, end)
             b == Tabs(r, k, to + 1, end)
             new == IF k \in (from + 1)..(to - 1) THEN outdentTab(lines[k]) ELSE lines[k]
  <2>1. lines[k] = Line(a, r.words)
    BY <1>4
  <2>2. k <= to => b = 0
    BY <1>1 DEF Tabs
  <2>3. k <= from \/ k > to => a = b /\ new = lines[k]
    BY <1>1 DEF Tabs
  <2>4. CASE k <= from \/ k > to
    <3> HIDE DEF a, b, new, r
    <3> QED
      BY <2>1, <2>3, <2>4 DEF new, r, b
  <2>5. CASE k = from + 1
    <3>1. r.words = << <<"location">>, item.path >>
      BY <1>2, <2>5, RuledOf
    <3>2. k \in (from + 1)..(to - 1) /\ k <= to
      BY <1>1, <2>5
    <3>3. outdentTab(lines[k]) = lines[k]
      BY <1>2, <1>3, <2>5, NotIndented
    <3>4. b = 0 /\ new = lines[k]
      BY <2>2, <3>2, <3>3
    <3> HIDE DEF a, b, new, r
    <3>5. lines[k] = Line(0, r.words)
      BY <1>3, <2>5, <3>1
    <3>6. new = Line(b, r.words)
      BY <3>4, <3>5
    <3> QED
      BY <3>6 DEF new, r, b
  <2>6. CASE k = from + 2
    <3>1. r.words = <<OpenBracket>>
      BY <1>2, <2>6, RuledOf
    <3>2. k \in (from + 1)..(to - 1) /\ k <= to
      BY <1>1, <2>6
    <3>3. outdentTab(lines[k]) = lines[k]
      BY <1>2, <1>3, <2>6, NotIndented
    <3>4. b = 0 /\ new = lines[k]
      BY <2>2, <3>2, <3>3
    <3> HIDE DEF a, b, new, r
    <3>5. lines[k] = Line(0, r.words)
      BY <1>3, <2>6, <3>1, LineOfOne, FixedWords
    <3>6. new = Line(b, r.words)
      BY <3>4, <3>5
    <3> QED
      BY <3>6 DEF new, r, b
  <2>7. CASE k \in (from + 3)..(to - 1)
    <3>1. AreWords(r.words) /\ lines[k] = Line(1, r.words)
      BY <1>3, <2>7
    <3>2. k \in (from + 1)..(to - 1) /\ k <= to
      BY <1>1, <2>7
    <3>3. b = 0 /\ new = outdentTab(lines[k])
      BY <2>2, <3>2
    <3> HIDE DEF a, b, new, r
    <3>4. outdentTab(Line(1, r.words)) = Line(1 - 1, r.words)
      BY <3>1, LineOfWords
    <3>5. new = Line(b, r.words)
      BY <3>1, <3>3, <3>4
    <3> QED
      BY <3>5 DEF new, r, b
  <2>8. CASE k = to
    <3>1. r.words = <<CloseBracket>>
      BY <1>2, <2>8, RuledOf
    <3>2. k \notin (from + 1)..(to - 1) /\ k <= to
      BY <1>1, <2>8
    <3>3. b = 0 /\ new = lines[k]
      BY <2>2, <3>2
    <3> HIDE DEF a, b, new, r
    <3>4. lines[k] = Line(0, r.words)
      BY <1>3, <2>8, <3>1, LineOfOne, FixedWords
    <3>5. new = Line(b, r.words)
      BY <3>3, <3>4
    <3> QED
      BY <3>5 DEF new, r, b
  <2>9. (k <= from \/ k > to) \/ k = from + 1 \/ k = from + 2 \/ k \in (from + 3)..(to - 1) \/ k = to
    BY <1>1
  <2> QED
    BY <2>4, <2>5, <2>6, <2>7, <2>8, <2>9
<1>6. Len(lines) \in {n, n + 1} /\ DOMAIN lines = 1..Len(lines)
  BY <1>4, SeqDomain
<1>7. \A k \in 1..n : k \in DOMAIN lines
  <2> DEFINE m == Len(lines)
             D == DOMAIN lines
  <2> HIDE DEF m, D
  <2>1. m \in {n, n + 1} /\ D = 1..m
    BY <1>6 DEF m, D
  <2>2. \A k \in 1..n : k \in D
    BY <1>1, <2>1
  <2> QED
    BY <2>2 DEF D
<1>8. \A k \in 1..n : more[k] = Line(Tabs(R[k], k, to + 1, end), R[k].words)
  <2> TAKE k \in 1..n
  <2>1. more[k] = IF k \in (from + 1)..(to - 1) THEN outdentTab(lines[k]) ELSE lines[k]
    BY <1>7
  <2> QED
    BY <1>5, <2>1
<1>9. Len(lines) = n + 1 => more[n + 1] = <<>>
  <2> SUFFICES ASSUME Len(lines) = n + 1 PROVE more[n + 1] = <<>>
    OBVIOUS
  <2>1. n + 1 \in DOMAIN lines /\ n + 1 \notin (from + 1)..(to - 1)
    BY <1>1, <1>6
  <2> QED
    BY <1>4, <2>1
<1>10. more = [k \in DOMAIN lines |-> more[k]]
  OBVIOUS
<1> HIDE DEF more
<1> DEFINE d == from + 1
           e == to + 1
<1>11. Laid(lines, R, d, end) /\ Len(R) \in Nat /\ Len(R) = n
  BY <1>1 DEF n
<1>12. \A k \in 1..n : more[k] = Line(Tabs(R[k], k, e, end), R[k].words)
  BY <1>8
<1> HIDE DEF d, e
<1>13. Laid(more, R, e, end)
  BY <1>9, <1>10, <1>11, <1>12, Relaid
<1> QED
  BY <1>13 DEF more, e

(* A directive's line has lost its only tab already.                       *)
LEMMA LaidDirective ==
  ASSUME NEW lines, NEW R, Len(R) \in Nat, NEW at \in Nat, NEW end \in Nat, Laid(lines, R, at, end),
         at < end, NEW words, at \in 1..Len(R), R[at] = Ruled(1, words)
  PROVE  lines[at] = Line(0, words) /\ Laid(lines, R, at + 1, end)
<1>1. R[at].tabs = 1 /\ R[at].words = words
  BY RuledOf
<1>2. R[at].tabs - 1 = 0
  BY <1>1
<1>3. lines[at] = Line(0, words)
  BY <1>1, <1>2, LaidAt
<1>4. \A k \in 1..Len(R) : Tabs(R[k], k, at + 1, end) = Tabs(R[k], k, at, end)
  <2> TAKE k \in 1..Len(R)
  <2>1. CASE k = at
    BY <1>1, <2>1 DEF Tabs
  <2>2. CASE k # at
    <3>1. k < at + 1 <=> k < at
      BY <2>2
    <3> QED
      BY <3>1 DEF Tabs
  <2> QED
    BY <2>1, <2>2
<1>5. \A k \in 1..Len(R) : lines[k] = Line(Tabs(R[k], k, at + 1, end), R[k].words)
  <2> TAKE k \in 1..Len(R)
  <2>1. lines[k] = Line(Tabs(R[k], k, at, end), R[k].words) /\ Tabs(R[k], k, at + 1, end) = Tabs(R[k], k, at, end)
    BY <1>4 DEF Laid
  <2> QED
    BY <2>1
<1>6. Laid(lines, R, at + 1, end)
  BY <1>5 DEF Laid
<1> QED
  BY <1>3, <1>6

(* The locations among one item more.                                      *)
LEMMA LocatedMore ==
  ASSUME NEW blocks, NEW s, Len(blocks[s]) \in Nat, NEW i \in 1..Len(blocks[s])
  PROVE  Located(blocks, s, i) =
           IF isLocation(blocks[s][i]) THEN Append(Located(blocks, s, i - 1), LocationBracket(blocks, s)[i])
           ELSE Located(blocks, s, i - 1)
<1> DEFINE S == LocationItems(blocks[s])
           v == LocationBracket(blocks, s)
           n == i - 1
<1>1. n \in Nat /\ n + 1 = i
  OBVIOUS
<1>2. i \in S <=> isLocation(blocks[s][i])
  BY DEF LocationItems
<1> HIDE DEF S, v, n
<1>3. Alike(n, S, v, v, Picks(n, S, v), Picks(n, S, v))
  BY <1>1, PicksAlike
<1>4. IsSeq(Picks(n, S, v))
  BY <1>3 DEF Alike
<1>5. Picks(n + 1, S, v) = IF n + 1 \in S THEN Append(Picks(n, S, v), v[n + 1]) ELSE Picks(n, S, v)
  BY <1>1, <1>4, PicksStep
<1>6. Picks(i, S, v) = IF i \in S THEN Append(Picks(n, S, v), v[i]) ELSE Picks(n, S, v)
  BY <1>1, <1>5
<1> QED
  BY <1>2, <1>6 DEF Located, S, v, n

(* Only the brackets of server s change while it is searched.              *)
LEMMA SearchedOther ==
  ASSUME NEW blocks, Len(blocks) \in Nat, NEW s \in 1..Len(blocks), NEW i, NEW j, NEW brackets,
         Searched(brackets, blocks, s, i), NEW more, IsSeq(more), Len(more) = Len(brackets),
         \A k \in 1..Len(blocks) : k # s => more[k] = brackets[k],
         more[s] = ServerBracket(blocks, s, j)
  PROVE  Searched(more, blocks, s, j)
<1> DEFINE n == Len(blocks)
<1>1. /\ Len(brackets) = n
      /\ \A k \in 1..n : brackets[k] = ServerBracket(blocks, k, IF k < s THEN Len(blocks[k])
                                                     ELSE IF k = s THEN i ELSE 0)
  BY DEF Searched
<1>2. ASSUME NEW k \in 1..n
      PROVE  more[k] = ServerBracket(blocks, k, IF k < s THEN Len(blocks[k]) ELSE IF k = s THEN j ELSE 0)
  <2> DEFINE a == IF k < s THEN Len(blocks[k]) ELSE IF k = s THEN i ELSE 0
             b == IF k < s THEN Len(blocks[k]) ELSE IF k = s THEN j ELSE 0
  <2>1. CASE k = s
    <3>1. b = j
      BY <2>1
    <3> HIDE DEF b
    <3>2. more[k] = ServerBracket(blocks, k, b)
      BY <2>1, <3>1
    <3> QED
      BY <3>2 DEF b
  <2>2. CASE k # s
    <3>1. a = b
      BY <2>2
    <3>2. more[k] = ServerBracket(blocks, k, a)
      BY <1>1, <2>2
    <3> HIDE DEF a, b
    <3>3. more[k] = ServerBracket(blocks, k, b)
      BY <3>1, <3>2
    <3> QED
      BY <3>3 DEF b
  <2> QED
    BY <2>1, <2>2
<1> QED
  BY <1>1, <1>2 DEF Searched

(* What has been found in server s.                                        *)
LEMMA SearchedAt ==
  ASSUME NEW blocks, Len(blocks) \in Nat, NEW s \in 1..Len(blocks), NEW i, NEW brackets,
         Searched(brackets, blocks, s, i)
  PROVE  brackets[s] = ServerBracket(blocks, s, i) /\ s \in DOMAIN brackets
<1>1. ~(s < s)
  OBVIOUS
<1>2. brackets[s] = ServerBracket(blocks, s, IF s < s THEN Len(blocks[s]) ELSE IF s = s THEN i ELSE 0)
  BY DEF Searched
<1>3. s \in DOMAIN brackets
  BY SeqDomain DEF Searched
<1> QED
  BY <1>1, <1>2, <1>3

(* A bracket with other locations.                                         *)
LEMMA BracketSet ==
  ASSUME NEW from, NEW to, NEW old, NEW new, NEW b,
         b = [mStart |-> from, mEnd |-> to, mLocationBracket |-> old]
  PROVE  [b EXCEPT !.mLocationBracket = new] = [mStart |-> from, mEnd |-> to, mLocationBracket |-> new]
<1> DEFINE left == [b EXCEPT !.mLocationBracket = new]
           right == [mStart |-> from, mEnd |-> to, mLocationBracket |-> new]
<1>1. left = [m \in BracketMembers |-> left[m]] /\ right = [m \in BracketMembers |-> right[m]]
  BY DEF BracketMembers
<1>2. left.mStart = from /\ left.mEnd = to /\ left.mLocationBracket = new
  OBVIOUS
<1>3. right.mStart = from /\ right.mEnd = to /\ right.mLocationBracket = new
  OBVIOUS
<1> HIDE DEF left, right
<1>4. \A m \in BracketMembers : left[m] = right[m]
  BY <1>2, <1>3 DEF BracketMembers
<1>5. left = right
  BY <1>1, <1>4
<1> QED
  BY <1>5 DEF left, right

(* A location has been found.                                              *)
LEMMA SearchedLocation ==
  ASSUME NEW blocks, Len(blocks) \in Nat, NEW s \in 1..Len(blocks), Len(blocks[s]) \in Nat,
         NEW i \in 1..Len(blocks[s]), isLocation(blocks[s][i]),
         NEW brackets, Searched(brackets, blocks, s, i - 1),
         NEW l, l = LocationBracket(blocks, s)[i],
         NEW more, more = [brackets EXCEPT ![s].mLocationBracket = Append(@, l)]
  PROVE  Searched(more, blocks, s, i)
<1> DEFINE b == ServerBracket(blocks, s, i - 1)
           c == [b EXCEPT !.mLocationBracket = Append(b.mLocationBracket, l)]
           j == i - 1
<1>1. brackets[s] = b /\ s \in DOMAIN brackets /\ IsSeq(brackets)
  BY SearchedAt DEF Searched
<1>2. Located(blocks, s, i) = Append(Located(blocks, s, i - 1), l)
  BY LocatedMore
<1>3. c = ServerBracket(blocks, s, i)
  <2> DEFINE from == Above(blocks, s - 1) + 2
             to == Above(blocks, s)
             old == Located(blocks, s, i - 1)
             new == Located(blocks, s, i)
  <2>1. b = [mStart |-> from, mEnd |-> to, mLocationBracket |-> old] /\ b.mLocationBracket = old
    BY DEF ServerBracket
  <2>2. ServerBracket(blocks, s, i) = [mStart |-> from, mEnd |-> to, mLocationBracket |-> new]
    BY DEF ServerBracket
  <2>3. new = Append(old, l)
    BY <1>2
  <2> HIDE DEF b, from, to, old, new
  <2>4. [b EXCEPT !.mLocationBracket = new] = [mStart |-> from, mEnd |-> to, mLocationBracket |-> new]
    BY <2>1, BracketSet
  <2>5. [b EXCEPT !.mLocationBracket = Append(b.mLocationBracket, l)] = [b EXCEPT !.mLocationBracket = new]
    BY <2>1, <2>3
  <2> QED
    BY <2>2, <2>4, <2>5
<1>4. more = [brackets EXCEPT ![s] = c]
  BY <1>1
<1> HIDE DEF b, c
<1>5. /\ IsSeq(more) /\ DOMAIN more = DOMAIN brackets
      /\ \A k \in DOMAIN brackets : more[k] = IF k = s THEN c ELSE brackets[k]
  <2> DEFINE put == [brackets EXCEPT ![s] = c]
  <2>1. /\ IsSeq(put) /\ DOMAIN put = DOMAIN brackets
        /\ \A k \in DOMAIN brackets : put[k] = IF k = s THEN c ELSE brackets[k]
    BY ONLY <1>1, ReplaceSeq
  <2>2. more = put
    BY <1>4
  <2> HIDE DEF put
  <2> QED
    BY ONLY <2>1, <2>2
<1>6. DOMAIN brackets = 1..Len(blocks) /\ Len(brackets) = Len(blocks)
  BY SeqDomain DEF Searched
<1>7. Len(more) = Len(brackets)
  <2>1. Len(more) \in Nat /\ DOMAIN more = 1..Len(more)
    BY <1>5, SeqDomain
  <2>2. 1..Len(more) = 1..Len(blocks)
    BY <1>5, <1>6, <2>1
  <2> QED
    BY <1>6, <2>1, <2>2
<1>8. /\ \A k \in 1..Len(blocks) : k # s => more[k] = brackets[k]
      /\ more[s] = ServerBracket(blocks, s, i)
  BY <1>3, <1>5, <1>6
<1>9. Searched(brackets, blocks, s, j)
  OBVIOUS
<1>10. IsSeq(more)
  BY <1>5
<1> HIDE DEF j
<1> QED
  BY ONLY Len(blocks) \in Nat, s \in 1..Len(blocks), <1>7, <1>8, <1>9, <1>10, SearchedOther

(* A directive adds no location.                                           *)
LEMMA SearchedDirective ==
  ASSUME NEW blocks, Len(blocks) \in Nat, NEW s \in 1..Len(blocks), Len(blocks[s]) \in Nat,
         NEW i \in 1..Len(blocks[s]), ~isLocation(blocks[s][i]),
         NEW brackets, Searched(brackets, blocks, s, i - 1)
  PROVE  Searched(brackets, blocks, s, i)
<1> DEFINE j == i - 1
<1>1. brackets[s] = ServerBracket(blocks, s, i - 1) /\ IsSeq(brackets)
  BY SearchedAt DEF Searched
<1>2. Located(blocks, s, i) = Located(blocks, s, i - 1)
  BY LocatedMore
<1>3. brackets[s] = ServerBracket(blocks, s, i)
  BY <1>1, <1>2 DEF ServerBracket
<1>4. Searched(brackets, blocks, s, j)
  OBVIOUS
<1> HIDE DEF j
<1> QED
  BY <1>1, <1>3, <1>4, SearchedOther

(* A turn of Step2 takes the next item of the block: a location as a       *)
(* whole, or the one line of a directive.                                  *)
LEMMA Step2Turn ==
  ASSUME NEW blocks, AreBlocks(blocks), IsSeq(mGnl),
         AtStep2(mGnl, mServerBracket, server, line, blocks), Step2
  PROVE  pc' = "Step2" /\ AtStep2(mGnl', mServerBracket', server', line', blocks)
<1> DEFINE R == RuledLines(blocks)
           s == server
           end == Above(blocks, s)
<1>1. /\ s \in 1..Len(blocks) /\ Laid(mGnl, R, line, end)
  BY DEF AtStep2
<1>2. PICK h \in 0..Len(blocks[s]) : Searched(mServerBracket, blocks, s, h) /\ line = At(blocks, s, h) + 1
  BY DEF AtStep2
<1>3. /\ pc = "Step2" /\ line <= mServerBracket[server].mEnd - 1 /\ server' = server
  BY DEF Step2
<1>4. Len(blocks) \in Nat /\ Len(R) \in Nat
  BY ServersEnd
<1>5. mServerBracket[s] = ServerBracket(blocks, s, h)
  BY <1>1, <1>2, <1>4, SearchedAt
<1>6. mServerBracket[server].mEnd = end
  BY <1>5 DEF ServerBracket
<1>7. end \in Nat /\ end <= Len(R)
  BY <1>1, PlanServer
<1>8. At(blocks, s, h) \in Nat
  BY <1>1, <1>2, PlanOrder
<1>9. Len(blocks[s]) \in Nat /\ h # Len(blocks[s])
  <2>1. /\ Len(blocks[s]) \in Nat
        /\ h = Len(blocks[s]) => At(blocks, s, h) + 1 = Above(blocks, s)
    BY <1>1, <1>2, LastItem
  <2> QED
    BY <1>2, <1>3, <1>6, <1>7, <1>8, <2>1
<1> DEFINE i == h + 1
           item == blocks[s][i]
           from == At(blocks, s, i - 1)
           to == At(blocks, s, i)
<1>10. i \in 1..Len(blocks[s]) /\ i - 1 = h /\ i \in 0..Len(blocks[s])
  BY <1>9
<1>11. line = from + 1 /\ from \in Nat /\ line \in Nat /\ line <= end - 1
  BY <1>2, <1>3, <1>6, <1>8, <1>10
<1> HIDE DEF i
<1>12. Searched(mServerBracket, blocks, s, i - 1)
  BY <1>2, <1>10
<1>13. /\ IsItem(item) /\ Len(ItemLines(item)) \in Nat
       /\ to = from + Len(ItemLines(item)) /\ to <= end - 1
       /\ \A n \in 1..Len(ItemLines(item)) : R[from + n] = ItemLines(item)[n]
  <2>1. s \in 1..Len(blocks) /\ i \in 1..Len(blocks[s])
    BY <1>1, <1>10
  <2> HIDE DEF s
  <2>2. LET it == blocks[s][i]
            f == At(blocks, s, i - 1)
        IN  /\ IsItem(it) /\ Len(ItemLines(it)) \in Nat /\ i - 1 \in 0..Len(blocks[s])
            /\ f \in Nat /\ Above(blocks, s - 1) + 2 <= f
            /\ At(blocks, s, i) = f + Len(ItemLines(it)) /\ At(blocks, s, i) <= Above(blocks, s) - 1
            /\ \A n \in 1..Len(ItemLines(it)) : RuledLines(blocks)[f + n] = ItemLines(it)[n]
    BY ONLY AreBlocks(blocks), <2>1, PlanItem
  <2> QED
    BY ONLY <2>2
<1>14. CASE ~isLocation(item)
  <2>1. /\ Len(ItemLines(item)) = 1 /\ ItemLines(item)[1] = Ruled(1, item.words)
        /\ ~hasLocation(Line(0, item.words))
    BY <1>13, <1>14, ItemShape
  <2>2. to = line /\ R[line] = Ruled(1, item.words)
    <3>1. 1 \in 1..Len(ItemLines(item))
      BY <2>1
    <3>2. R[from + 1] = ItemLines(item)[1]
      BY <1>13, <3>1
    <3> QED
      BY <1>11, <1>13, <2>1, <3>2
  <2>3. line \in 1..Len(R) /\ line < end
    BY <1>4, <1>7, <1>11
  <2> HIDE DEF R, item, from, to, s, end
  <2>4. mGnl[line] = Line(0, item.words) /\ Laid(mGnl, R, line + 1, end)
    <3>1. Len(R) \in Nat /\ line \in Nat /\ end \in Nat /\ Laid(mGnl, R, line, end)
      BY <1>1, <1>4, <1>7, <1>11
    <3> QED
      BY ONLY <2>2, <2>3, <3>1, LaidDirective
  <2>5. ~hasLocation(mGnl[line])
    BY <2>1, <2>4
  <2>6. line' = line + 1 /\ pc' = pc /\ mGnl' = mGnl /\ mServerBracket' = mServerBracket
    BY <2>5 DEF Step2
  <2>7. Searched(mServerBracket, blocks, s, i)
    BY <1>1, <1>4, <1>9, <1>10, <1>12, <1>14, SearchedDirective DEF item
  <2>8. line' = At(blocks, s, i) + 1
    BY <2>2, <2>6 DEF to
  <2>9. server' = s
    BY <1>3 DEF s
  <2>10. Laid(mGnl', RuledLines(blocks), line', Above(blocks, s))
    BY <2>4, <2>6 DEF R, end
  <2>11. AtStep2(mGnl', mServerBracket', server', line', blocks)
    BY <1>1, <1>10, <2>6, <2>7, <2>8, <2>9, <2>10 DEF AtStep2
  <2> QED
    BY <1>3, <2>6, <2>11
<1>15. CASE isLocation(item)
  <2>1. LocationPlan(R, item, from, to, end)
    BY <1>1, <1>10, <1>15, PlanLocation
  <2> HIDE DEF R, item, from, to, s, end
  <2>2. /\ from + 3 <= to /\ to \in Nat /\ IsWord(item.path)
    BY <2>1 DEF LocationPlan
  <2>3. Laid(mGnl, R, from + 1, end)
    BY <1>1, <1>11
  <2>4. /\ mGnl[from + 1] = Line(0, << <<"location">>, item.path >>)
        /\ mGnl[from + 2] = OpenBracket /\ mGnl[to] = CloseBracket
        /\ \A k \in (from + 3)..(to - 1) :
             /\ mGnl[k] \notin {OpenBracket, CloseBracket}
             /\ R[k].tabs = 2 /\ AreWords(R[k].words) /\ mGnl[k] = Line(1, R[k].words)
    BY ONLY <2>1, <2>3, LaidLocation
  <2> DEFINE w == << <<"location">>, item.path >>
             words == splitVector(mGnl[line], Space)
             f == line + 1
             e == mServerBracket[server].mEnd - 1
             b == Bracket(f, e)
  <2>5. hasLocation(mGnl[line]) /\ words = w
    <3>1. mGnl[line] = Line(0, w)
      BY <1>11, <2>4
    <3>2. AreWords(w) /\ hasLocation(Line(0, w))
      BY <2>2, LocationLine
    <3> HIDE DEF w
    <3>3. splitVector(Line(0, w), Space) = w
      BY <3>2, LineOfWords
    <3> QED
      BY <3>1, <3>2, <3>3
  <2>6. Len(words) = 2 /\ words[2] = item.path
    BY <2>5
  <2>7. /\ f \in Int /\ e \in Int /\ to \in Int /\ 1 <= f /\ f < to /\ to <= e
        /\ mGnl[f] = OpenBracket /\ mGnl[to] = CloseBracket
    BY <1>6, <1>7, <1>11, <1>13, <2>2, <2>4
  <2>8. \A k \in (f + 1)..(to - 1) : mGnl[k] \notin {OpenBracket, CloseBracket}
    <3>1. f + 1 = from + 3
      BY <1>11
    <3> QED
      BY <2>4, <3>1
  <2> HIDE DEF w, words, f, e
  <2>9. checkBracketSyntax(f, e) /\ b.mStart = f /\ b.mEnd = to
    BY ONLY <2>7, <2>8, BracketAt
  <2>10. /\ mServerBracket' = [mServerBracket EXCEPT ![server].mLocationBracket =
                        Append(@, [mStart |-> b.mStart, mEnd |-> b.mEnd, mLocationPath |-> Path(words[2])])]
         /\ mGnl' = outdented(line, b.mEnd - 1)
         /\ line' = b.mEnd + 1 /\ pc' = pc
    BY <2>5, <2>6, <2>9 DEF Step2, words, f, e
  <2> DEFINE l == [mStart |-> b.mStart, mEnd |-> b.mEnd, mLocationPath |-> Path(words[2])]
  <2>11. l = LocationBracket(blocks, s)[i]
    <3>1. LocationBracket(blocks, s)[i] =
            [mStart |-> At(blocks, s, i - 1) + 2, mEnd |-> At(blocks, s, i),
             mLocationPath |-> Path(blocks[s][i].path)]
      BY <1>10 DEF LocationBracket
    <3>2. f = At(blocks, s, i - 1) + 2
      BY <1>11 DEF f, from
    <3> QED
      BY <2>6, <2>9, <3>1, <3>2 DEF to, item
  <2> HIDE DEF l
  <2>12. mServerBracket' = [mServerBracket EXCEPT ![s].mLocationBracket = Append(@, l)]
    BY <2>10 DEF l, s
  <2>13. Searched(mServerBracket', blocks, s, i)
    BY <1>1, <1>4, <1>9, <1>10, <1>12, <1>15, <2>11, <2>12, SearchedLocation DEF item
  <2>14. mGnl' = [k \in DOMAIN mGnl |-> IF k \in (from + 1)..(to - 1) THEN outdentTab(mGnl[k]) ELSE mGnl[k]]
    BY <1>11, <2>9, <2>10 DEF outdented
  <2>15. Laid(mGnl', R, to + 1, end)
    BY <2>1, <2>3, <2>14, OutdentLocation
  <2>16. line' = to + 1 /\ server' = s
    BY <1>3, <2>9, <2>10 DEF s
  <2>17. AtStep2(mGnl', mServerBracket', server', line', blocks)
    BY <1>1, <1>10, <2>13, <2>15, <2>16 DEF AtStep2, R, end, to
  <2> QED
    BY <1>3, <2>10, <2>17
<1> QED
  BY <1>14, <1>15

-----------------------------------------------------------------------------
(***************************************************************************)
(* The reading of a block, turn by turn.                                   *)
(***************************************************************************)
AreTurns(r, n, base, kind, b, blank, uninitialised) ==
  /\ r[0] = base
  /\ \A k \in 1..n : r[k] = Turn(kind, b, blank, uninitialised, r[k - 1], Inside(b)[k])

(* The fold over the lines of a block, turn by turn.                       *)
LEMMA TurnsStep ==
  ASSUME NEW f, NEW n \in Nat, NEW base, NEW kind, NEW b, NEW blank, NEW uninitialised,
         IsTurns(f, n, Inside(b), base, kind, b, blank, uninitialised)
  PROVE  \E r : AreTurns(r, n, base, kind, b, blank, uninitialised) /\ r[n] = f[1..n]
<1> DEFINE lines == Inside(b)
           r == [k \in 0..n |-> f[1..k]]
<1>1. \A s \in SUBSET (1..n) :
        f[s] = IF s = {} THEN base
               ELSE Turn(kind, b, blank, uninitialised, f[s \ {Max(s)}], lines[Max(s)])
  BY Zenon DEF IsTurns
<1> HIDE DEF lines
<1>2. r[0] = base
  <2>1. 1..0 = {} /\ 1..0 \in SUBSET (1..n) /\ 0 \in 0..n
    OBVIOUS
  <2>2. f[1..0] = base
    BY <1>1, <2>1
  <2> QED
    BY <2>1, <2>2
<1>3. ASSUME NEW k \in 1..n
      PROVE  r[k] = Turn(kind, b, blank, uninitialised, r[k - 1], lines[k])
  <2>1. /\ 1..k \in SUBSET (1..n) /\ 1..k # {} /\ (1..k) \ {k} = 1..(k - 1)
        /\ k \in 0..n /\ k - 1 \in 0..n
    OBVIOUS
  <2>2. Max(1..k) = k
    <3>1. k \in Nat /\ k \in 1..k /\ 1..k \in SUBSET (1..k)
      OBVIOUS
    <3> QED
      BY <3>1, MaxLast
  <2>3. f[1..k] = Turn(kind, b, blank, uninitialised, f[1..(k - 1)], lines[k])
    BY <1>1, <2>1, <2>2
  <2>4. r[k] = f[1..k] /\ r[k - 1] = f[1..(k - 1)]
    BY <2>1
  <2> QED
    BY <2>3, <2>4
<1>4. r[n] = f[1..n]
  OBVIOUS
<1> HIDE DEF r
<1>5. AreTurns(r, n, base, kind, b, blank, uninitialised)
  BY <1>2, <1>3 DEF AreTurns, lines
<1> QED
  BY <1>4, <1>5

(* parsingserverBlock is the last of its turns.                            *)
LEMMA ServerReads ==
  ASSUME NEW b, NEW n \in Nat, DOMAIN Inside(b) = 1..n, NEW uninitialised
  PROVE  \E r : /\ AreTurns(r, n, Reading(ConfigFile), "server", b, "ok", uninitialised)
                /\ parsingserverBlock(b, uninitialised) = r[n]
<1>1. PICK f : /\ IsTurns(f, n, Inside(b), Reading(ConfigFile), "server", b, "ok", uninitialised)
               /\ parsingserverBlock(b, uninitialised) = f[1..n]
  BY ServerTurns
<1>2. PICK r : AreTurns(r, n, Reading(ConfigFile), "server", b, "ok", uninitialised) /\ r[n] = f[1..n]
  BY <1>1, TurnsStep
<1> QED
  BY <1>1, <1>2

(* parsingLocationBlock is the last of its turns.                          *)
LEMMA LocationReads ==
  ASSUME NEW b, NEW n \in Nat, DOMAIN Inside(b) = 1..n, NEW config, NEW blank, NEW uninitialised
  PROVE  \E r : /\ AreTurns(r, n, Reading(Moved(config, b.mLocationPath)), "location", b, blank, uninitialised)
                /\ parsingLocationBlock(config, b, blank, uninitialised) = r[n]
<1> DEFINE base == Reading(Moved(config, b.mLocationPath))
           read == parsingLocationBlock(config, b, blank, uninitialised)
<1>0. base = Reading(Moved(config, b.mLocationPath)) /\ read = parsingLocationBlock(config, b, blank, uninitialised)
  OBVIOUS
<1> HIDE DEF base, read
<1>1. PICK f : /\ IsTurns(f, n, Inside(b), base, "location", b, blank, uninitialised)
               /\ read = f[1..n]
  BY <1>0, LocationTurns
<1>2. PICK r : AreTurns(r, n, base, "location", b, blank, uninitialised) /\ r[n] = f[1..n]
  BY <1>1, TurnsStep
<1>3. AreTurns(r, n, base, "location", b, blank, uninitialised) /\ read = r[n]
  BY <1>1, <1>2
<1> QED
  BY <1>3 DEF base, read

(* Nothing read is the configuration it begins with.                       *)
LEMMA NothingRead ==
  ASSUME NEW config, config = [m \in DOMAIN config |-> config[m]], NEW known
  PROVE  Reading(config) = ReadSoFar(config, <<>>, known)
<1>1. \A m : Setting(<<>>, known, m) = {}
  BY NoneDomain DEF Setting
<1>2. \A m \in DOMAIN config : Effect(config, <<>>, known)[m] = config[m]
  <2> TAKE m \in DOMAIN config
  <2>1. LET S == Setting(<<>>, known, m)
         IN  Effect(config, <<>>, known)[m] =
               IF S = {} THEN config[m]
               ELSE IF Name(<<>>[Max(S)]) \in Lists THEN FlattenSeq(Gathered(<<>>, S))
               ELSE Worth(<<>>[Max(S)])
    BY EffectAt
  <2> QED
    BY <1>1, <2>1
<1> DEFINE e == Effect(config, <<>>, known)
<1>3. e = [m \in DOMAIN config |-> e[m]]
  BY DEF Effect
<1> HIDE DEF e
<1>4. e = config
  BY <1>2, <1>3 DEF e
<1>5. Met(<<>>, known) = {}
  BY NoneDomain DEF Met
<1> QED
  BY <1>4, <1>5 DEF ReadSoFar, Reading, e

(* The words of every line are those it was written from.                  *)
LEMMA WordsAt ==
  ASSUME NEW blocks, AreBlocks(blocks),
         Laid(mGnl, RuledLines(blocks), Len(RuledLines(blocks)) + 1, 0),
         NEW k \in 1..Len(RuledLines(blocks))
  PROVE  Words(k) = RuledLines(blocks)[k].words
<1> DEFINE R == RuledLines(blocks)
           n == Len(R)
<1>1. n \in Nat
  BY ServersEnd
<1>2. mGnl[k] = Line(Tabs(R[k], k, n + 1, 0), R[k].words)
  BY DEF Laid
<1>3. Tabs(R[k], k, n + 1, 0) = 0
  BY <1>1 DEF Tabs
<1>4. IsRuled(R[k])
  BY AllRuled
<1>5. AreWords(R[k].words)
  BY <1>4 DEF IsRuled
<1>6. splitVector(Line(0, R[k].words), Space) = R[k].words
  <2> HIDE DEF R
  <2>1. 0 \in Nat
    OBVIOUS
  <2> QED
    BY <1>5, <2>1, LineOfWords
<1> HIDE DEF R, n
<1> QED
  BY <1>2, <1>3, <1>6 DEF Words, R

-----------------------------------------------------------------------------
(***************************************************************************)
(* A server block: its directives are read, and what belongs to one of its *)
(* locations is not.                                                       *)
(***************************************************************************)
OwnItems(block) == {i \in 1..Len(block) : ~isLocation(block[i])}
OwnWords(block) == [i \in 1..Len(block) |-> block[i].words]
Own(block, i) == Picks(i, OwnItems(block), OwnWords(block))

(* The directives of a server among one item more.                         *)
LEMMA OwnMore ==
  ASSUME NEW block, Len(block) \in Nat, NEW i \in 1..Len(block)
  PROVE  Own(block, i) = IF isLocation(block[i]) THEN Own(block, i - 1)
                         ELSE Append(Own(block, i - 1), block[i].words)
<1> DEFINE S == OwnItems(block)
           v == OwnWords(block)
           n == i - 1
<1>1. n \in Nat /\ n + 1 = i
  OBVIOUS
<1>2. i \in S <=> ~isLocation(block[i])
  BY DEF OwnItems
<1>3. v[i] = block[i].words
  BY DEF OwnWords
<1> HIDE DEF S, v, n
<1>4. Alike(n, S, v, v, Picks(n, S, v), Picks(n, S, v))
  BY <1>1, PicksAlike
<1>5. IsSeq(Picks(n, S, v))
  BY <1>4 DEF Alike
<1>6. Picks(n + 1, S, v) = IF n + 1 \in S THEN Append(Picks(n, S, v), v[n + 1]) ELSE Picks(n, S, v)
  BY <1>1, <1>5, PicksStep
<1>7. Picks(i, S, v) = IF i \in S THEN Append(Picks(n, S, v), v[i]) ELSE Picks(n, S, v)
  BY <1>1, <1>6
<1> QED
  BY <1>2, <1>3, <1>7 DEF Own, S, v, n

(* What a server says itself are directives.                               *)
LEMMA OwnDirectives ==
  ASSUME NEW block, IsSeq(block), \A i \in DOMAIN block : IsItem(block[i]), NEW i \in 0..Len(block)
  PROVE  AreDirectives(Own(block, i))
<1> DEFINE S == OwnItems(block)
           v == OwnWords(block)
           p == Picks(i, S, v)
<1>1. i \in Nat /\ DOMAIN block = 1..Len(block) /\ Len(block) \in Nat
  BY SeqDomain
<1>2. \A j \in 1..Len(block) : j \in S => IsDirective(v[j])
  <2> TAKE j \in 1..Len(block)
  <2> HAVE j \in S
  <2>1. ~isLocation(block[j]) /\ IsItem(block[j]) /\ v[j] = block[j].words
    BY <1>1 DEF OwnItems, OwnWords
  <2>2. IsDirective(block[j].words)
    BY <2>1, ItemShape
  <2> QED
    BY <2>1, <2>2
<1> HIDE DEF S, v
<1>3. Alike(i, S, v, v, p, p)
  BY <1>1, PicksAlike
<1> HIDE DEF p
<1>4. /\ IsSeq(p) /\ Len(p) \in Nat
      /\ \A k \in 1..Len(p) : \E j \in 1..i : j \in S /\ p[k] = v[j]
  BY <1>3 DEF Alike
<1>5. DOMAIN p = 1..Len(p)
  BY <1>4, SeqDomain
<1>6. \A k \in DOMAIN p : IsDirective(p[k])
  BY <1>1, <1>2, <1>4, <1>5
<1>7. AreDirectives(p)
  BY <1>4, <1>6 DEF AreDirectives
<1> QED
  BY <1>7 DEF Own, S, v, p

(* Which lines of a block belong to a location.                            *)
LEMMA DirectiveOutside ==
  ASSUME NEW blocks, AreBlocks(blocks), NEW s \in 1..Len(blocks), NEW i \in 1..Len(blocks[s]),
         ~isLocation(blocks[s][i]),
         NEW b, b = ServerBracket(blocks, s, Len(blocks[s]))
  PROVE  isCorrespondedServerDirective(At(blocks, s, i), b)
<1> DEFINE n == Len(blocks[s])
           S == LocationItems(blocks[s])
           v == LocationBracket(blocks, s)
           p == Picks(n, S, v)
           at(j) == At(blocks, s, j)
<1>1. b.mLocationBracket = p
  BY DEF ServerBracket, Located
<1>2. n \in Nat
  BY PlanServer, SeqDomain
<1>3. i \notin S
  BY DEF LocationItems
<1>4. \A j \in 1..n : v[j].mStart = at(j - 1) + 2 /\ v[j].mEnd = at(j)
  BY DEF LocationBracket
<1>5. \A j \in 0..n : at(j) \in Nat /\ \A k \in j..n : at(j) <= at(k)
  BY PlanOrder
<1> HIDE DEF at
<1>6. at(i) = at(i - 1) + Len(ItemLines(blocks[s][i])) /\ Len(ItemLines(blocks[s][i])) \in Nat \ {0}
  <2>1. /\ IsItem(blocks[s][i])
        /\ At(blocks, s, i) = At(blocks, s, i - 1) + Len(ItemLines(blocks[s][i]))
    BY PlanItem
  <2>2. Len(ItemLines(blocks[s][i])) \in Nat \ {0}
    BY ONLY <2>1, ItemLen
  <2> QED
    BY <2>1, <2>2 DEF at
<1> HIDE DEF v, n, S
<1>7. Alike(n, S, v, v, p, p)
  BY <1>2, PicksAlike
<1> HIDE DEF p
<1>8. IsSeq(p) /\ Len(p) \in Nat /\ \A k \in 1..Len(p) : \E j \in 1..n : j \in S /\ p[k] = v[j]
  BY <1>7 DEF Alike
<1>9. DOMAIN p = 1..Len(p)
  BY <1>8, SeqDomain
<1>10. \A l \in DOMAIN p : at(i) \notin p[l].mStart..p[l].mEnd
  <2> TAKE l \in DOMAIN p
  <2>1. PICK j \in 1..n : j \in S /\ p[l] = v[j]
    BY <1>8, <1>9
  <2>2. p[l].mStart = at(j - 1) + 2 /\ p[l].mEnd = at(j)
    BY <1>4, <2>1
  <2>3. i \in 1..n
    BY DEF n
  <2>4. CASE j < i
    <3>1. at(j) <= at(i - 1) /\ at(j) \in Nat /\ at(i - 1) \in Nat /\ at(i) \in Nat /\ at(j - 1) \in Nat
      BY <1>2, <1>5, <2>3, <2>4
    <3> QED
      BY <1>6, <2>2, <3>1
  <2>5. CASE i < j
    <3>1. at(i) <= at(j - 1) /\ at(j) \in Nat /\ at(i - 1) \in Nat /\ at(i) \in Nat /\ at(j - 1) \in Nat
      BY <1>2, <1>5, <2>3, <2>5
    <3> QED
      BY <2>2, <3>1
  <2> QED
    BY <1>2, <1>3, <2>1, <2>3, <2>4, <2>5
<1> QED
  BY <1>1, <1>10 DEF isCorrespondedServerDirective, at

(* The lines of a location are not those of its server, the line that      *)
(* names it apart.                                                         *)
LEMMA LocationInside ==
  ASSUME NEW blocks, AreBlocks(blocks), NEW s \in 1..Len(blocks), NEW i \in 1..Len(blocks[s]),
         isLocation(blocks[s][i]),
         NEW b, b = ServerBracket(blocks, s, Len(blocks[s])),
         NEW k \in (At(blocks, s, i - 1) + 2)..At(blocks, s, i)
  PROVE  ~isCorrespondedServerDirective(k, b)
<1> DEFINE n == Len(blocks[s])
           S == LocationItems(blocks[s])
           v == LocationBracket(blocks, s)
           p == Picks(n, S, v)
<1>1. b.mLocationBracket = p
  BY DEF ServerBracket, Located
<1>2. n \in Nat
  BY PlanServer, SeqDomain
<1>3. i \in S /\ i \in 1..n
  BY DEF LocationItems
<1>4. v[i].mStart = At(blocks, s, i - 1) + 2 /\ v[i].mEnd = At(blocks, s, i)
  BY DEF LocationBracket
<1> HIDE DEF v, n, S
<1>7. Alike(n, S, v, v, p, p)
  BY <1>2, PicksAlike
<1> HIDE DEF p
<1>8. IsSeq(p) /\ \E l \in 1..Len(p) : p[l] = v[i]
  BY <1>3, <1>7 DEF Alike
<1>9. DOMAIN p = 1..Len(p)
  BY <1>8, SeqDomain
<1>10. \E l \in DOMAIN p : k \in p[l].mStart..p[l].mEnd
  BY <1>4, <1>8, <1>9
<1> QED
  BY <1>1, <1>10 DEF isCorrespondedServerDirective

(* No line has a tab any more.                                             *)
Plainly(lines, blocks) == Laid(lines, RuledLines(blocks), Len(RuledLines(blocks)) + 1, 0)
(* b is where server s is, all its locations found.                        *)
IsServer(b, blocks, s) ==
  /\ AreBlocks(blocks) /\ Plainly(mGnl, blocks)
  /\ s \in 1..Len(blocks) /\ b = ServerBracket(blocks, s, Len(blocks[s]))
(* Line k of the file is the mth one of item i of server s.                *)
IsLineOf(k, blocks, s, i, m) ==
  /\ i \in 1..Len(blocks[s]) /\ m \in 1..Len(ItemLines(blocks[s][i]))
  /\ k = At(blocks, s, i - 1) + m

(* What the lines of one item make of a reading.                           *)
LEMMA ServerLine ==
  ASSUME NEW blocks, NEW s, NEW b, IsServer(b, blocks, s),
         NEW i, NEW m, NEW k, IsLineOf(k, blocks, s, i, m),
         NEW reading, NEW blank, NEW uninitialised
  PROVE  Turn("server", b, blank, uninitialised, reading, k) =
           IF isLocation(blocks[s][i]) THEN reading
           ELSE Directive(reading, blocks[s][i].words, ServerDirectives, uninitialised)
<1> DEFINE item == blocks[s][i]
           from == At(blocks, s, i - 1)
           R == RuledLines(blocks)
           turn == Turn("server", b, blank, uninitialised, reading, k)
<1>0. /\ m \in 1..Len(ItemLines(item)) /\ k = from + m /\ i \in 1..Len(blocks[s])
      /\ AreBlocks(blocks) /\ Plainly(mGnl, blocks)
      /\ s \in 1..Len(blocks) /\ b = ServerBracket(blocks, s, Len(blocks[s]))
  BY DEF IsLineOf, IsServer
<1>1. /\ IsItem(item) /\ Len(ItemLines(item)) \in Nat /\ from \in Nat /\ k = from + m
      /\ At(blocks, s, i) = from + Len(ItemLines(item)) /\ At(blocks, s, i) <= Above(blocks, s) - 1
      /\ R[k] = ItemLines(item)[m]
  <2>1. i \in 1..Len(blocks[s]) /\ s \in 1..Len(blocks) /\ AreBlocks(blocks)
    BY <1>0
  <2>2. /\ IsItem(item) /\ Len(ItemLines(item)) \in Nat /\ from \in Nat
        /\ At(blocks, s, i) = from + Len(ItemLines(item)) /\ At(blocks, s, i) <= Above(blocks, s) - 1
        /\ \A j \in 1..Len(ItemLines(item)) : R[from + j] = ItemLines(item)[j]
    BY ONLY <2>1, PlanItem
  <2> QED
    BY <1>0, <2>2
<1>2. Above(blocks, s) <= Len(R) /\ Above(blocks, s) \in Nat /\ Len(R) \in Nat
  BY <1>0, PlanServer, ServersEnd
<1>3. k \in 1..Len(R)
  <2> DEFINE l == Len(ItemLines(item))
             end == At(blocks, s, i)
             above == Above(blocks, s)
             total == Len(R)
  <2>1. /\ l \in Nat /\ from \in Nat /\ m \in 1..l /\ end = from + l /\ end <= above - 1
        /\ above <= total /\ above \in Nat /\ total \in Nat
    BY <1>0, <1>1, <1>2
  <2> HIDE DEF from, l, end, above, total
  <2>2. from + m \in 1..total
    BY ONLY <2>1
  <2> QED
    BY <1>1, <2>2 DEF total, from
<1>4. Words(k) = R[k].words
  <2> QED
    BY <1>0, <1>3, WordsAt DEF R, Plainly
<1>5. Words(k) = ItemLines(item)[m].words
  BY <1>1, <1>4
<1>6. turn = IF ~isCorrespondedServerDirective(k, b) \/ Len(Words(k)) <= 1 THEN reading
             ELSE Directive(reading, Words(k), ServerDirectives, uninitialised)
  BY DEF Turn
<1>7. CASE ~isLocation(item)
  <2>1. /\ Len(ItemLines(item)) = 1 /\ ItemLines(item)[1] = Ruled(1, item.words) /\ IsDirective(item.words)
    BY <1>1, <1>7, ItemShape
  <2>2. m = 1
    BY <1>0, <2>1
  <2>3. Words(k) = item.words
    BY <1>5, <2>1, <2>2 DEF Ruled
  <2>4. Len(item.words) >= 2 /\ Len(item.words) \in Nat
    BY <2>1, SeqDomain DEF IsDirective
  <2>5. isCorrespondedServerDirective(k, b)
    <3>1. k = At(blocks, s, i)
      BY <1>1, <2>1, <2>2
    <3>2. isCorrespondedServerDirective(At(blocks, s, i), b)
      BY <1>0, <1>7, DirectiveOutside
    <3> QED
      BY <3>1, <3>2
  <2> HIDE DEF turn, item
  <2>6. ~(Len(item.words) <= 1)
    BY <2>4
  <2>7. turn = Directive(reading, item.words, ServerDirectives, uninitialised)
    BY <1>6, <2>3, <2>5, <2>6
  <2> QED
    BY <1>7, <2>7 DEF turn, item
<1>8. CASE isLocation(item)
  <2>1. turn = reading
    <3>1. CASE m = 1
      <4>1. ItemLines(item)[1] = Ruled(1, << <<"location">>, item.path >>)
        BY <1>1, <1>8, ItemShape
      <4>2. Words(k) = << <<"location">>, item.path >>
        BY <1>5, <3>1, <4>1 DEF Ruled
      <4> HIDE DEF item
      <4>3. Words(k)[1][1] = "location"
        BY <4>2
      <4>4. Words(k)[1][1] \notin ServerDirectives
        BY <4>3 DEF ServerDirectives, Member
      <4>5. Directive(reading, Words(k), ServerDirectives, uninitialised) = reading
        BY <4>4 DEF Directive
      <4> HIDE DEF turn
      <4> QED
        BY <1>6, <4>5
    <3>2. CASE m # 1
      <4>1. k \in (from + 2)..At(blocks, s, i)
        <5> DEFINE l == Len(ItemLines(item))
                   end == At(blocks, s, i)
        <5>1. l \in Nat /\ from \in Nat /\ m \in 1..l /\ end = from + l
          BY <1>0, <1>1
        <5> HIDE DEF from, l, end
        <5>2. from + m \in (from + 2)..end
          BY ONLY <3>2, <5>1
        <5> QED
          BY <1>1, <5>2 DEF end, from
      <4>2. ~isCorrespondedServerDirective(k, b)
        BY <1>0, <1>8, <4>1, LocationInside
      <4> HIDE DEF turn
      <4> QED
        BY <1>6, <4>2
    <3> QED
      BY <3>1, <3>2
  <2> QED
    BY <1>8, <2>1
<1> QED
  BY <1>7, <1>8

(* The lines parsingserverBlock goes through.                              *)
LEMMA InsideServer ==
  ASSUME NEW blocks, AreBlocks(blocks), NEW s \in 1..Len(blocks), NEW i,
         NEW b, b = ServerBracket(blocks, s, i)
  PROVE  /\ Len(Inner(blocks[s])) \in Nat
         /\ DOMAIN Inside(b) = 1..Len(Inner(blocks[s]))
         /\ At(blocks, s, 0) \in Nat
         /\ \A k \in 1..Len(Inner(blocks[s])) : Inside(b)[k] = At(blocks, s, 0) + k
         /\ At(blocks, s, Len(blocks[s])) = At(blocks, s, 0) + Len(Inner(blocks[s]))
<1> DEFINE top == Above(blocks, s - 1)
           n == Len(Inner(blocks[s]))
<1>1. top \in Nat /\ Above(blocks, s) = top + 3 + n /\ At(blocks, s, 0) = top + 2
      /\ At(blocks, s, Len(blocks[s])) = Above(blocks, s) - 1
  BY PlanServer
<1>2. n \in Nat
  BY PlanServer, ItemsEnd
<1>3. b.mStart = top + 2 /\ b.mEnd = Above(blocks, s)
  BY DEF ServerBracket
<1> HIDE DEF top, n
<1>4. b.mEnd - b.mStart - 1 = n
  BY <1>1, <1>2, <1>3
<1>5. Inside(b) = [k \in 1..n |-> top + 2 + k]
  BY <1>3, <1>4 DEF Inside
<1> QED
  <2>1. DOMAIN Inside(b) = 1..n /\ \A k \in 1..n : Inside(b)[k] = At(blocks, s, 0) + k
    BY <1>1, <1>5
  <2>2. At(blocks, s, 0) \in Nat /\ At(blocks, s, Len(blocks[s])) = At(blocks, s, 0) + n
    BY <1>1, <1>2
  <2> QED
    BY <1>2, <2>1, <2>2 DEF n

Inset(blocks, s, i) == At(blocks, s, i) - At(blocks, s, 0)
OwnRead(block, i) == ReadSoFar(ConfigFile, Own(block, i), ServerDirectives)

(* Where an item is among those lines.                                     *)
LEMMA InsetOf ==
  ASSUME NEW blocks, AreBlocks(blocks), NEW s \in 1..Len(blocks), NEW i \in 0..Len(blocks[s])
  PROVE  /\ Inset(blocks, s, i) \in 0..Len(Inner(blocks[s])) /\ Len(Inner(blocks[s])) \in Nat
         /\ At(blocks, s, i) = At(blocks, s, 0) + Inset(blocks, s, i)
         /\ i # 0 => Inset(blocks, s, i) = Inset(blocks, s, i - 1) + Len(ItemLines(blocks[s][i]))
         /\ Inset(blocks, s, 0) = 0 /\ Inset(blocks, s, Len(blocks[s])) = Len(Inner(blocks[s]))
<1> DEFINE a == At(blocks, s, 0)
           c == At(blocks, s, i)
           n == Len(Inner(blocks[s]))
           len == Len(blocks[s])
           e == At(blocks, s, len)
<1>1. len \in Nat
  BY PlanServer, SeqDomain
<1>2. n \in Nat /\ a \in Nat /\ e = a + n
  BY InsideServer
<1>3. c \in Nat /\ a <= c /\ c <= e
  <2>1. 0 \in 0..len /\ len \in i..len /\ i \in 0..len
    BY <1>1
  <2> HIDE DEF len
  <2>2. \A j \in 0..len : At(blocks, s, j) \in Nat /\ \A k \in j..len : At(blocks, s, j) <= At(blocks, s, k)
    BY PlanOrder DEF len
  <2> QED
    BY <2>1, <2>2
<1>4. Inset(blocks, s, i) = c - a /\ Inset(blocks, s, 0) = a - a /\ Inset(blocks, s, len) = e - a
  BY DEF Inset
<1>5. ASSUME i # 0
      PROVE  Inset(blocks, s, i) = Inset(blocks, s, i - 1) + Len(ItemLines(blocks[s][i]))
  <2> DEFINE l == Len(ItemLines(blocks[s][i]))
             d == At(blocks, s, i - 1)
  <2>1. i \in 1..Len(blocks[s])
    BY <1>5
  <2>2. c = d + l /\ l \in Nat /\ d \in Nat
    BY <2>1, PlanItem
  <2>3. Inset(blocks, s, i - 1) = d - a
    BY DEF Inset
  <2> HIDE DEF a, c, d, l
  <2>4. c - a = (d - a) + l
    BY <1>2, <2>2
  <2> QED
    BY <1>4, <2>3, <2>4 DEF l
<1>6. c - a \in 0..n /\ c = a + (c - a) /\ a - a = 0 /\ e - a = n
  <2> HIDE DEF a, c, e, n
  <2> QED
    BY ONLY <1>2, <1>3
<1> QED
  BY <1>2, <1>4, <1>5, <1>6

IsTurnOf(x, blocks, s, i, m) ==
  /\ i \in 1..Len(blocks[s]) /\ m \in 1..Len(ItemLines(blocks[s][i]))
  /\ x = Inset(blocks, s, i - 1) + m
(* A turn reads the one line of a directive, and passes by every line of a *)
(* location.                                                               *)
LEMMA ServerTurn ==
  ASSUME NEW blocks, NEW s, NEW b, IsServer(b, blocks, s),
         NEW x, NEW i, NEW m, IsTurnOf(x, blocks, s, i, m), NEW uninitialised,
         NEW base, NEW r, AreTurns(r, Len(Inner(blocks[s])), base, "server", b, "ok", uninitialised)
  PROVE  r[x] = IF isLocation(blocks[s][i]) THEN r[x - 1]
                ELSE Directive(r[x - 1], blocks[s][i].words, ServerDirectives, uninitialised)
<1> DEFINE n == Len(Inner(blocks[s]))
           l == Len(ItemLines(blocks[s][i]))
           d == Inset(blocks, s, i - 1)
           a == At(blocks, s, 0)
           c == At(blocks, s, i - 1)
           reading == r[x - 1]
           turn == Turn("server", b, "ok", uninitialised, reading, c + m)
<1>0. /\ m \in 1..l /\ x = d + m /\ i \in 1..Len(blocks[s])
      /\ AreBlocks(blocks) /\ Plainly(mGnl, blocks)
      /\ s \in 1..Len(blocks) /\ b = ServerBracket(blocks, s, Len(blocks[s]))
  BY DEF IsTurnOf, IsServer
<1>1. n \in Nat /\ \A k \in 1..n : r[k] = Turn("server", b, "ok", uninitialised, r[k - 1], a + k)
  BY <1>0, InsideServer DEF AreTurns
<1>2. turn = IF isLocation(blocks[s][i]) THEN reading
             ELSE Directive(reading, blocks[s][i].words, ServerDirectives, uninitialised)
  <2>0. m \in 1..Len(ItemLines(blocks[s][i]))
    BY <1>0
  <2> DEFINE k == c + m
  <2>1. IsLineOf(k, blocks, s, i, m)
    BY <1>0, <2>0 DEF IsLineOf
  <2> HIDE DEF reading, k
  <2>2. Turn("server", b, "ok", uninitialised, reading, k) =
          IF isLocation(blocks[s][i]) THEN reading
          ELSE Directive(reading, blocks[s][i].words, ServerDirectives, uninitialised)
    BY <2>1, ServerLine
  <2> QED
    BY <2>2 DEF k
<1>3. x = d + m /\ d \in 0..n /\ c = a + d /\ d + l \in 0..n /\ l \in Nat /\ a \in Nat /\ m \in 1..l
  <2>1. i \in 0..Len(blocks[s]) /\ i - 1 \in 0..Len(blocks[s]) /\ i # 0
    BY <1>0
  <2>2. d \in 0..n /\ c = a + d /\ d + l \in 0..n
    BY <1>0, <2>1, InsetOf
  <2> QED
    BY <1>0, <2>2, PlanItem, InsideServer
<1>4. x \in 1..n /\ a + x = c + m
  <2> HIDE DEF d, c, n, l, a
  <2> QED
    BY ONLY <1>1, <1>3
<1>5. r[x] = turn
  <2> HIDE DEF n
  <2>1. r[x] = Turn("server", b, "ok", uninitialised, r[x - 1], a + x)
    BY <1>1, <1>4
  <2> QED
    BY <1>4, <2>1, Zenon
<1> HIDE DEF turn
<1>6. r[x] = IF isLocation(blocks[s][i]) THEN reading
             ELSE Directive(reading, blocks[s][i].words, ServerDirectives, uninitialised)
  BY <1>2, <1>5
<1> QED
  BY <1>6, Zenon DEF reading

(* A server block stands for what its own directives say.                  *)
LEMMA ServerRead ==
  ASSUME NEW blocks, NEW s, NEW b, IsServer(b, blocks, s), NEW uninitialised
  PROVE  parsingserverBlock(b, uninitialised) = OwnRead(blocks[s], Len(blocks[s]))
<1>0. /\ AreBlocks(blocks) /\ Plainly(mGnl, blocks)
      /\ s \in 1..Len(blocks) /\ b = ServerBracket(blocks, s, Len(blocks[s]))
  BY DEF IsServer
<1> DEFINE n == Len(Inner(blocks[s]))
           len == Len(blocks[s])
<1>1. /\ n \in Nat /\ DOMAIN Inside(b) = 1..n /\ At(blocks, s, 0) \in Nat
      /\ \A k \in 1..n : Inside(b)[k] = At(blocks, s, 0) + k
      /\ At(blocks, s, len) = At(blocks, s, 0) + n
  BY <1>0, InsideServer
<1>2. len \in Nat /\ IsSeq(blocks[s]) /\ \A i \in DOMAIN blocks[s] : IsItem(blocks[s][i])
  BY <1>0, PlanServer, SeqDomain
<1>3. PICK r : /\ AreTurns(r, n, Reading(ConfigFile), "server", b, "ok", uninitialised)
               /\ parsingserverBlock(b, uninitialised) = r[n]
  <2> HIDE DEF n
  <2> QED
    BY <1>1, ServerReads
<1>4. \A k \in 1..n : r[k] = Turn("server", b, "ok", uninitialised, r[k - 1], At(blocks, s, 0) + k)
  BY <1>1, <1>3 DEF AreTurns
<1> DEFINE S == {i \in Nat : i <= len => r[Inset(blocks, s, i)] = OwnRead(blocks[s], i)}
<1>6. 0 \in S
  <2>1. Inset(blocks, s, 0) = 0
    <3>1. 0 \in 0..Len(blocks[s])
      BY <1>2
    <3> QED
      BY <3>1, <1>0, InsetOf
  <2>2. Own(blocks[s], 0) = <<>>
    BY PicksNone DEF Own
  <2>3. ConfigFile = [m \in DOMAIN ConfigFile |-> ConfigFile[m]]
    BY DEF ConfigFile
  <2>4. Reading(ConfigFile) = ReadSoFar(ConfigFile, <<>>, ServerDirectives)
    BY <2>3, NothingRead
  <2>5. r[0] = Reading(ConfigFile)
    BY <1>3 DEF AreTurns
  <2> QED
    BY <2>1, <2>2, <2>4, <2>5 DEF OwnRead
<1>7. ASSUME NEW j \in Nat, j \in S PROVE j + 1 \in S
  <2> SUFFICES ASSUME j + 1 <= len PROVE r[Inset(blocks, s, j + 1)] = OwnRead(blocks[s], j + 1)
    OBVIOUS
  <2> DEFINE i == j + 1
             item == blocks[s][i]
             l == Len(ItemLines(item))
  <2>1. i \in 1..len /\ i - 1 = j /\ j \in 0..len
    BY <1>2
  <2>2. r[Inset(blocks, s, j)] = OwnRead(blocks[s], j)
    BY <1>7, <2>1
  <2> HIDE DEF i
  <2>3. /\ At(blocks, s, i) = At(blocks, s, j) + l /\ l \in Nat \ {0} /\ IsItem(item)
    <3>1. /\ IsItem(item) /\ At(blocks, s, i) = At(blocks, s, i - 1) + l
      BY <2>1, <1>0, PlanItem
    <3>2. l \in Nat \ {0}
      BY <3>1, ItemLen
    <3> QED
      BY <2>1, <3>1, <3>2
  <2>4. Inset(blocks, s, j) \in 0..n /\ Inset(blocks, s, i) = Inset(blocks, s, j) + l
    <3>1. i \in 0..len /\ i # 0
      BY <1>2, <2>1
    <3> QED
      BY <2>1, <3>1, <1>0, InsetOf
  <2>5. ASSUME NEW m \in 1..l
        PROVE  r[Inset(blocks, s, j) + m] =
                 IF isLocation(item) THEN r[(Inset(blocks, s, j) + m) - 1]
                 ELSE Directive(r[(Inset(blocks, s, j) + m) - 1], item.words, ServerDirectives, uninitialised)
    <3>1. i \in 1..Len(blocks[s]) /\ m \in 1..Len(ItemLines(blocks[s][i]))
      BY <2>1
    <3>2. AreTurns(r, Len(Inner(blocks[s])), Reading(ConfigFile), "server", b, "ok", uninitialised)
      BY <1>3
    <3> DEFINE x == Inset(blocks, s, i - 1) + m
    <3>3. x = Inset(blocks, s, i - 1) + m /\ IsTurnOf(x, blocks, s, i, m)
      BY <3>1 DEF IsTurnOf
    <3> HIDE DEF x
    <3>4. r[x] = IF isLocation(blocks[s][i]) THEN r[x - 1]
                 ELSE Directive(r[x - 1], blocks[s][i].words, ServerDirectives, uninitialised)
      BY <3>1, <3>2, <3>3, ServerTurn
    <3> QED
      BY <2>1, <3>3, <3>4
  <2>6. Own(blocks[s], i) = IF isLocation(item) THEN Own(blocks[s], j) ELSE Append(Own(blocks[s], j), item.words)
    BY <1>2, <2>1, OwnMore
  <2>7. CASE isLocation(item)
    <3> DEFINE Q == {m \in Nat : m <= l => r[Inset(blocks, s, j) + m] = r[Inset(blocks, s, j)]}
    <3>1. 0 \in Q
      BY <2>4
    <3>2. ASSUME NEW m \in Nat, m \in Q PROVE m + 1 \in Q
      <4> SUFFICES ASSUME m + 1 <= l PROVE r[Inset(blocks, s, j) + (m + 1)] = r[Inset(blocks, s, j)]
        OBVIOUS
      <4> DEFINE y == Inset(blocks, s, j)
      <4>0. y \in Nat /\ l \in Nat
        BY <1>1, <2>3, <2>4
      <4> HIDE DEF y, l
      <4>1. m + 1 \in 1..l /\ (y + (m + 1)) - 1 = y + m /\ m <= l
        BY <4>0
      <4> USE DEF y
      <4>9. m + 1 \in 1..l /\ (Inset(blocks, s, j) + (m + 1)) - 1 = Inset(blocks, s, j) + m /\ m <= l
        BY <4>1
      <4>2. r[Inset(blocks, s, j) + (m + 1)] = r[Inset(blocks, s, j) + m]
        BY <2>5, <2>7, <4>9
      <4> QED
        BY <3>2, <4>9, <4>2 DEF Q
    <3> HIDE DEF Q
    <3>3. \A m \in Nat : m \in Q
      BY <3>1, <3>2, NatSetInduction
    <3>4. r[Inset(blocks, s, j) + l] = r[Inset(blocks, s, j)]
      BY <2>3, <3>3 DEF Q
    <3>5. Own(blocks[s], i) = Own(blocks[s], j)
      BY <2>6, <2>7
    <3>6. OwnRead(blocks[s], i) = OwnRead(blocks[s], j)
      BY <3>5 DEF OwnRead
    <3> QED
      BY <2>2, <2>4, <3>4, <3>6 DEF i
  <2>8. CASE ~isLocation(item)
    <3>1. l = 1 /\ IsDirective(item.words)
      BY <2>3, <2>8, ItemShape
    <3>2. r[Inset(blocks, s, i)] = Directive(r[Inset(blocks, s, j)], item.words, ServerDirectives, uninitialised)
      <4>1. 1 \in 1..l /\ (Inset(blocks, s, j) + 1) - 1 = Inset(blocks, s, j) /\ Inset(blocks, s, i) = Inset(blocks, s, j) + 1
        BY <2>4, <3>1
      <4>2. r[Inset(blocks, s, j) + 1] = Directive(r[(Inset(blocks, s, j) + 1) - 1], item.words, ServerDirectives, uninitialised)
        BY <2>5, <2>8, <4>1
      <4> QED
        BY <4>1, <4>2
    <3>3. AreDirectives(Own(blocks[s], j))
      BY <1>2, <2>1, OwnDirectives
    <3>4. Directive(OwnRead(blocks[s], j), item.words, ServerDirectives, uninitialised) =
            ReadSoFar(ConfigFile, Append(Own(blocks[s], j), item.words), ServerDirectives)
      BY <3>1, <3>3, DirectiveRead DEF OwnRead
    <3>5. Own(blocks[s], i) = Append(Own(blocks[s], j), item.words)
      BY <2>6, <2>8
    <3> QED
      BY <2>2, <3>2, <3>4, <3>5 DEF i, OwnRead
  <2> QED
    BY <2>7, <2>8
<1> HIDE DEF S
<1>8. \A i \in Nat : i \in S
  BY <1>6, <1>7, NatSetInduction
<1>9. r[Inset(blocks, s, len)] = OwnRead(blocks[s], len)
  BY <1>2, <1>8 DEF S
<1>10. Inset(blocks, s, len) = n
  <2>1. len \in 0..Len(blocks[s])
    BY <1>2
  <2> QED
    BY <2>1, <1>0, InsetOf
<1> QED
  BY <1>3, <1>9, <1>10

-----------------------------------------------------------------------------
(***************************************************************************)
(* A location block: every line between its brackets is a directive of its *)
(* own.                                                                    *)
(***************************************************************************)
IsLocationOf(b, blocks, s, i) ==
  /\ AreBlocks(blocks) /\ Plainly(mGnl, blocks)
  /\ s \in 1..Len(blocks) /\ i \in 1..Len(blocks[s]) /\ isLocation(blocks[s][i])
  /\ b = LocationBracket(blocks, s)[i]

(* The lines parsingLocationBlock goes through are the body of the         *)
(* location.                                                               *)
LEMMA InsideLocation ==
  ASSUME NEW blocks, NEW s, NEW i, NEW b, IsLocationOf(b, blocks, s, i)
  PROVE  LET body == blocks[s][i].body
         IN  /\ Len(body) \in Nat /\ DOMAIN Inside(b) = 1..Len(body)
             /\ \A k \in 1..Len(body) : Words(Inside(b)[k]) = body[k] /\ IsDirective(body[k])
<1> DEFINE item == blocks[s][i]
           n == Len(item.body)
           from == At(blocks, s, i - 1)
           R == RuledLines(blocks)
<1>1. /\ AreBlocks(blocks) /\ Plainly(mGnl, blocks)
      /\ s \in 1..Len(blocks) /\ i \in 1..Len(blocks[s]) /\ isLocation(item)
      /\ b.mStart = from + 2 /\ b.mEnd = At(blocks, s, i)
  BY DEF IsLocationOf, LocationBracket
<1>2. /\ IsItem(item) /\ from \in Nat
      /\ At(blocks, s, i) = from + Len(ItemLines(item)) /\ At(blocks, s, i) <= Above(blocks, s) - 1
      /\ \A m \in 1..Len(ItemLines(item)) : R[from + m] = ItemLines(item)[m]
  BY <1>1, PlanItem
<1>3. /\ n \in Nat /\ Len(ItemLines(item)) = n + 3
      /\ \A k \in 1..n : IsDirective(item.body[k]) /\ ItemLines(item)[2 + k] = Ruled(2, item.body[k])
  BY <1>1, <1>2, ItemShape
<1>4. Above(blocks, s) <= Len(R) /\ Above(blocks, s) \in Nat /\ Len(R) \in Nat
  BY <1>1, PlanServer, ServersEnd
<1> DEFINE end == At(blocks, s, i)
           above == Above(blocks, s)
           total == Len(R)
<1> HIDE DEF n, from, end
<1>5. b.mEnd - b.mStart - 1 = n
  BY <1>1, <1>2, <1>3 DEF end
<1>6. Inside(b) = [k \in 1..n |-> (from + 2) + k]
  BY <1>1, <1>5 DEF Inside
<1>7. ASSUME NEW k \in 1..n
      PROVE  Words(Inside(b)[k]) = item.body[k]
  <2> DEFINE p == (from + 2) + k
  <2>1. 2 + k \in 1..(n + 3) /\ p = from + (2 + k)
    BY <1>2, <1>3
  <2>2. p \in 1..total
    <3>1. end = from + (n + 3) /\ end <= above - 1 /\ above <= total /\ above \in Nat /\ total \in Nat
      BY <1>2, <1>3, <1>4 DEF end
    <3>2. from \in Nat /\ n \in Nat
      BY <1>2, <1>3
    <3> HIDE DEF above, total
    <3> QED
      BY <3>1, <3>2
  <2>3. Inside(b)[k] = p
    BY <1>6
  <2> HIDE DEF p
  <2>4. Words(p) = R[p].words
    BY <1>1, <2>2, WordsAt DEF Plainly
  <2>5. R[p] = Ruled(2, item.body[k])
    BY <1>2, <1>3, <2>1
  <2> QED
    BY <2>3, <2>4, <2>5 DEF Ruled
<1> QED
  BY <1>3, <1>6, <1>7 DEF n

Begun(lines, k) == [j \in 1..k |-> lines[j]]

(* The directives of a body, with one more.                                *)
LEMMA BegunMore ==
  ASSUME NEW lines, NEW n \in Nat, NEW k \in Nat, k + 1 <= n,
         \A j \in 1..n : IsDirective(lines[j])
  PROVE  /\ AreDirectives(Begun(lines, k))
         /\ Begun(lines, k + 1) = Append(Begun(lines, k), lines[k + 1])
<1> DEFINE x == Begun(lines, k)
           T == {lines[j] : j \in 1..n}
<1>1. x \in [1..k -> T] /\ x = [j \in 1..k |-> lines[j]]
  BY DEF Begun
<1> HIDE DEF T
<1>2. x \in Seq(T) /\ Len(x) = k /\ DOMAIN x = 1..k
  BY <1>1
<1>3. IsSeq(x)
  BY <1>2, SeqIntro
<1>4. \A j \in DOMAIN x : IsDirective(x[j])
  BY <1>1, <1>2
<1>5. lines[k + 1] \in T
  BY DEF T
<1>6. Append(x, lines[k + 1]) = [j \in 1..(k + 1) |-> IF j <= k THEN x[j] ELSE lines[k + 1]]
  <2> DEFINE y == Append(x, lines[k + 1])
  <2>1. y \in Seq(T) /\ Len(y) = k + 1 /\ \A j \in 1..k : y[j] = x[j]
    BY <1>2, <1>5, AppendProperties
  <2>2. y[k + 1] = lines[k + 1]
    BY <1>2, <1>5, AppendProperties
  <2>3. y = [j \in 1..(k + 1) |-> y[j]]
    BY <2>1
  <2>4. \A j \in 1..(k + 1) : y[j] = IF j <= k THEN x[j] ELSE lines[k + 1]
    BY <2>1, <2>2
  <2> HIDE DEF y
  <2> QED
    BY <2>3, <2>4 DEF y
<1>7. Begun(lines, k + 1) = Append(x, lines[k + 1])
  <2>1. \A j \in 1..(k + 1) : lines[j] = IF j <= k THEN x[j] ELSE lines[k + 1]
    BY <1>1
  <2> HIDE DEF x
  <2> QED
    BY <1>6, <2>1 DEF Begun
<1> QED
  BY <1>3, <1>4, <1>7 DEF AreDirectives

(* A location stands for what its body says, from the configuration of its *)
(* server on.                                                              *)
LEMMA LocationRead ==
  ASSUME NEW blocks, NEW s, NEW i, NEW b, IsLocationOf(b, blocks, s, i),
         NEW config, config = [m \in DOMAIN config |-> config[m]], NEW blank, NEW uninitialised
  PROVE  parsingLocationBlock(config, b, blank, uninitialised) =
           ReadSoFar(Moved(config, Path(blocks[s][i].path)), blocks[s][i].body, LocationDirectives)
<1> DEFINE body == blocks[s][i].body
           n == Len(body)
           base == Moved(config, Path(blocks[s][i].path))
           Done(k) == ReadSoFar(base, Begun(body, k), LocationDirectives)
<1>1. /\ n \in Nat /\ DOMAIN Inside(b) = 1..n
      /\ \A k \in 1..n : Words(Inside(b)[k]) = body[k] /\ IsDirective(body[k])
  BY InsideLocation
<1>2. b.mLocationPath = Path(blocks[s][i].path) /\ IsSeq(body)
  <2>1. /\ AreBlocks(blocks) /\ s \in 1..Len(blocks) /\ i \in 1..Len(blocks[s]) /\ isLocation(blocks[s][i])
        /\ b.mLocationPath = Path(blocks[s][i].path)
    BY DEF IsLocationOf, LocationBracket
  <2>2. IsItem(blocks[s][i])
    BY <2>1, PlanItem
  <2> QED
    BY <2>1, <2>2, ItemShape
<1> HIDE DEF n, body
<1>3. PICK r : /\ AreTurns(r, n, Reading(Moved(config, b.mLocationPath)), "location", b, blank, uninitialised)
               /\ parsingLocationBlock(config, b, blank, uninitialised) = r[n]
  BY <1>1, LocationReads
<1>4. /\ r[0] = Reading(base)
      /\ \A k \in 1..n : r[k] = Turn("location", b, blank, uninitialised, r[k - 1], Inside(b)[k])
  BY <1>2, <1>3 DEF AreTurns
<1>5. base = [m \in DOMAIN base |-> base[m]]
  BY DEF Moved
<1> HIDE DEF base
<1>6. Begun(body, 0) = <<>> /\ Begun(body, n) = body
  <2>1. Begun(body, 0) = <<>>
    BY DEF Begun
  <2>2. DOMAIN body = 1..n /\ body = [j \in DOMAIN body |-> body[j]]
    BY <1>2, SeqDomain DEF n, IsSeq
  <2> QED
    BY <2>1, <2>2 DEF Begun
<1> DEFINE S == {k \in Nat : k <= n => r[k] = Done(k)}
<1>7. 0 \in S
  <2>1. Reading(base) = ReadSoFar(base, <<>>, LocationDirectives)
    BY <1>5, NothingRead
  <2> QED
    BY <1>4, <1>6, <2>1
<1>8. ASSUME NEW k \in Nat, k \in S PROVE k + 1 \in S
  <2> SUFFICES ASSUME k + 1 <= n PROVE r[k + 1] = Done(k + 1)
    OBVIOUS
  <2> DEFINE x == k + 1
  <2>1. x \in 1..n /\ x - 1 = k
    BY <1>1
  <2>2. r[k] = Done(k)
    BY <1>8, <1>1
  <2>3. AreDirectives(Begun(body, k)) /\ Begun(body, x) = Append(Begun(body, k), body[x])
    BY <1>1, BegunMore
  <2> HIDE DEF x
  <2>4. r[x] = Turn("location", b, blank, uninitialised, r[k], Inside(b)[x])
    BY <1>4, <2>1
  <2>5. Words(Inside(b)[x]) = body[x] /\ IsDirective(body[x])
    BY <1>1, <2>1
  <2>6. body[x] # <<>>
    BY <2>5, SeqDomain, EmptySeq DEF IsDirective
  <2>7. r[k].result = "ok"
    BY <2>2 DEF ReadSoFar
  <2>8. Turn("location", b, blank, uninitialised, r[k], Inside(b)[x]) =
          Directive(r[k], body[x], LocationDirectives, uninitialised)
    BY <2>5, <2>6, <2>7, Zenon DEF Turn
  <2>9. Directive(Done(k), body[x], LocationDirectives, uninitialised) =
          ReadSoFar(base, Append(Begun(body, k), body[x]), LocationDirectives)
    <3>1. LocationDirectives \in SUBSET ServerDirectives
      BY DEF LocationDirectives
    <3> QED
      BY <2>3, <2>5, <3>1, DirectiveRead
  <2> QED
    BY <2>2, <2>3, <2>4, <2>8, <2>9 DEF x
<1> HIDE DEF S
<1>9. \A k \in Nat : k \in S
  BY <1>7, <1>8, NatSetInduction
<1>10. r[n] = Done(n)
  BY <1>1, <1>9 DEF S
<1> QED
  BY <1>3, <1>6, <1>10 DEF base, body

-----------------------------------------------------------------------------
(***************************************************************************)
(* The configurations of a block: that of its server, and one for each of  *)
(* the locations that are found in it.                                     *)
(***************************************************************************)
LocationsIn(block) == Picks(Len(block), LocationItems(block), block)

(* The configurations a block stands for: its own, then those of its       *)
(* locations.                                                              *)
LEMMA WrittenParts ==
  ASSUME NEW block, IsSeq(block)
  PROVE  LET base == Effect(ConfigFile, Own(block, Len(block)), ServerDirectives)
             locs == LocationsIn(block)
         IN  Written(block) = <<base>> \o [k \in DOMAIN locs |->
               Effect(Moved(base, Path(locs[k].path)), locs[k].body, LocationDirectives)]
<1> DEFINE n == Len(block)
<1>1. n \in Nat /\ DOMAIN block = 1..n
  BY SeqDomain
<1> HIDE DEF n
<1>2. [k \in DOMAIN block |-> IF isLocation(block[k]) THEN <<>> ELSE <<block[k].words>>]
        = Singles(n, OwnItems(block), OwnWords(block))
  <2>1. \A k \in 1..n : /\ k \in OwnItems(block) <=> ~isLocation(block[k])
                        /\ OwnWords(block)[k] = block[k].words
    BY <1>1 DEF OwnItems, OwnWords, n
  <2> QED
    BY <1>1, <2>1 DEF Singles
<1>3. [k \in DOMAIN block |-> IF isLocation(block[k]) THEN <<block[k]>> ELSE <<>>]
        = Singles(n, LocationItems(block), block)
  <2>1. \A k \in 1..n : k \in LocationItems(block) <=> isLocation(block[k])
    BY <1>1 DEF LocationItems, n
  <2> QED
    BY <1>1, <2>1 DEF Singles
<1> QED
  BY <1>2, <1>3, Zenon DEF Written, LocationsIn, Own, Picks, Moved, n

(* The locations that are found are the ones that are written, in their    *)
(* order.                                                                  *)
LEMMA PlacesAlike ==
  ASSUME NEW blocks, AreBlocks(blocks), NEW s \in 1..Len(blocks)
  PROVE  LET block == blocks[s]
             found == Located(blocks, s, Len(block))
         IN  /\ IsSeq(LocationsIn(block)) /\ Len(LocationsIn(block)) = Len(found) /\ Len(found) \in Nat
             /\ IsSeq(found)
             /\ \A l \in 1..Len(found) : \E i \in 1..Len(block) :
                  /\ isLocation(block[i])
                  /\ LocationsIn(block)[l] = block[i] /\ found[l] = LocationBracket(blocks, s)[i]
<1> DEFINE block == blocks[s]
           n == Len(block)
           S == LocationItems(block)
           y == LocationBracket(blocks, s)
           p == Picks(n, S, block)
           q == Picks(n, S, y)
<1>1. n \in Nat
  BY PlanServer, SeqDomain
<1>2. \A i \in 1..n : i \in S <=> isLocation(block[i])
  BY DEF LocationItems
<1> HIDE DEF n, S, y
<1>3. Alike(n, S, block, y, p, q)
  BY <1>1, PicksAlike
<1> HIDE DEF p, q
<1>4. /\ IsSeq(p) /\ IsSeq(q) /\ Len(p) = Len(q) /\ Len(p) \in Nat
      /\ \A k \in 1..Len(p) : \E i \in 1..n : i \in S /\ p[k] = block[i] /\ q[k] = y[i]
  BY <1>3 DEF Alike
<1>5. \A k \in 1..Len(q) : \E i \in 1..n : isLocation(block[i]) /\ p[k] = block[i] /\ q[k] = y[i]
  BY <1>2, <1>4
<1>6. p = LocationsIn(block) /\ q = Located(blocks, s, Len(block))
  BY DEF p, q, LocationsIn, Located, n, S, y
<1> HIDE DEF block
<1>7. \A l \in 1..Len(Located(blocks, s, Len(block))) : \E i \in 1..Len(block) :
        /\ isLocation(block[i])
        /\ LocationsIn(block)[l] = block[i] /\ Located(blocks, s, Len(block))[l] = LocationBracket(blocks, s)[i]
  BY <1>5, <1>6 DEF n, y
<1> QED
  BY <1>4, <1>6, <1>7 DEF block

(* Each of the configurations of a block, by the location it belongs to.   *)
LEMMA WrittenAt ==
  ASSUME NEW blocks, AreBlocks(blocks), NEW s \in 1..Len(blocks)
  PROVE  LET block == blocks[s]
             w     == Written(block)
             found == Located(blocks, s, Len(block))
         IN  /\ IsSeq(w) /\ IsSeq(found) /\ Len(found) \in Nat /\ Len(w) = Len(found) + 1
             /\ w[1] = Effect(ConfigFile, Own(block, Len(block)), ServerDirectives)
             /\ \A l \in 1..Len(found) : \E i \in 1..Len(block) :
                  /\ isLocation(block[i]) /\ found[l] = LocationBracket(blocks, s)[i]
                  /\ w[l + 1] = Effect(Moved(w[1], Path(block[i].path)), block[i].body, LocationDirectives)
<1> DEFINE block == blocks[s]
           w == Written(block)
           found == Located(blocks, s, Len(block))
           locs == LocationsIn(block)
           base == Effect(ConfigFile, Own(block, Len(block)), ServerDirectives)
           Of(k) == Effect(Moved(base, Path(locs[k].path)), locs[k].body, LocationDirectives)
           rest == [k \in DOMAIN locs |-> Of(k)]
<1>1. IsSeq(block)
  BY PlanServer
<1>2. /\ IsSeq(locs) /\ Len(locs) = Len(found) /\ Len(found) \in Nat /\ IsSeq(found)
      /\ \A l \in 1..Len(found) : \E i \in 1..Len(block) :
           isLocation(block[i]) /\ locs[l] = block[i] /\ found[l] = LocationBracket(blocks, s)[i]
  BY PlacesAlike
<1>3. w = <<base>> \o rest
  BY <1>1, WrittenParts
<1>4. DOMAIN locs = 1..Len(found)
  BY <1>2, SeqDomain
<1>5. \A l \in 1..Len(found) : rest[l] = Of(l)
  BY <1>4
<1> DEFINE n == Len(found)
           T == {base} \cup {rest[k] : k \in 1..n}
<1> HIDE DEF Of, found, locs
<1>6. rest \in Seq(T) /\ Len(rest) = n /\ <<base>> \in Seq(T) /\ Len(<<base>>) = 1 /\ <<base>>[1] = base
  <2>1. rest \in [1..n -> T]
    BY <1>4
  <2> HIDE DEF rest, base
  <2>2. rest \in Seq(T) /\ Len(rest) = n
    BY <1>2, <2>1
  <2> QED
    BY <2>2
<1> HIDE DEF rest, base, T, w
<1>7. w \in Seq(T) /\ Len(w) = n + 1 /\ w[1] = base /\ \A l \in 1..n : w[l + 1] = rest[l]
  <2>1. w \in Seq(T) /\ Len(w) = 1 + n
    BY <1>3, <1>6, ConcatProperties
  <2>2. \A j \in 1..(1 + n) : w[j] = IF j <= 1 THEN <<base>>[j] ELSE rest[j - 1]
    BY <1>3, <1>6, ConcatProperties
  <2>3. n \in Nat
    BY <1>2
  <2> HIDE DEF n
  <2>4. \A l \in 1..n : l + 1 \in 1..(1 + n) /\ ~(l + 1 <= 1) /\ (l + 1) - 1 = l
    BY <2>3
  <2>5. \A l \in 1..n : w[l + 1] = rest[l]
    BY <2>2, <2>4
  <2> QED
    BY <1>6, <2>1, <2>2, <2>3, <2>5
<1>8. IsSeq(w)
  BY <1>7, SeqIntro
<1>9. ASSUME NEW l \in 1..n
      PROVE  \E i \in 1..Len(block) :
               /\ isLocation(block[i]) /\ found[l] = LocationBracket(blocks, s)[i]
               /\ w[l + 1] = Effect(Moved(w[1], Path(block[i].path)), block[i].body, LocationDirectives)
  <2>1. PICK i \in 1..Len(block) :
          isLocation(block[i]) /\ locs[l] = block[i] /\ found[l] = LocationBracket(blocks, s)[i]
    BY <1>2
  <2>2. w[l + 1] = Effect(Moved(base, Path(locs[l].path)), locs[l].body, LocationDirectives)
    BY <1>5, <1>7 DEF Of
  <2>3. w[l + 1] = Effect(Moved(w[1], Path(block[i].path)), block[i].body, LocationDirectives)
    BY <1>7, <2>1, <2>2
  <2> QED
    BY <2>1, <2>3
<1> QED
  BY <1>2, <1>7, <1>8, <1>9 DEF w, found, base

-----------------------------------------------------------------------------
(***************************************************************************)
(* SetConfigs: the configurations are kept in the order of the file.       *)
(***************************************************************************)
WrittenEnd(blocks, s) == EndsOf(WrittenOf(blocks))[s]

(* Where the configurations of a server are among those of the file.       *)
LEMMA WrittenEnds ==
  ASSUME NEW blocks, AreBlocks(blocks)
  PROVE  /\ Len(blocks) \in Nat /\ IsSeq(WrittenAll(blocks))
         /\ WrittenEnd(blocks, 0) = 0 /\ WrittenEnd(blocks, Len(blocks)) = Len(WrittenAll(blocks))
         /\ \A s \in 1..Len(blocks) :
              /\ WrittenEnd(blocks, s - 1) \in Nat /\ Len(Written(blocks[s])) \in Nat
              /\ WrittenEnd(blocks, s) = WrittenEnd(blocks, s - 1) + Len(Written(blocks[s]))
              /\ \A n \in 1..Len(Written(blocks[s])) :
                   WrittenAll(blocks)[WrittenEnd(blocks, s - 1) + n] = Written(blocks[s])[n]
<1> DEFINE ss == WrittenOf(blocks)
           len == Len(blocks)
           e == EndsOf(ss)
<1>1. IsSeq(blocks) /\ len \in Nat /\ DOMAIN blocks = 1..len
  BY ServersEnd, SeqDomain DEF AreBlocks
<1>2. IsSeq(ss) /\ Len(ss) = len
  <2>1. ss = [k \in DOMAIN blocks |-> ss[k]]
    BY DEF WrittenOf
  <2> HIDE DEF ss
  <2> QED
    BY <1>1, <2>1, SeqOver
<1>3. \A s \in 1..len : ss[s] = Written(blocks[s]) /\ IsSeq(ss[s]) /\ Len(ss[s]) \in Nat
  <2> TAKE s \in 1..len
  <2>1. ss[s] = Written(blocks[s])
    BY <1>1 DEF WrittenOf
  <2>2. IsSeq(Written(blocks[s]))
    BY WrittenAt
  <2> QED
    BY <2>1, <2>2, SeqDomain
<1>4. \A s \in DOMAIN ss : IsSeq(ss[s])
  BY <1>2, <1>3, SeqDomain
<1>5. FlattenSeq(ss) = WrittenAll(blocks)
  BY DEF WrittenOf, WrittenAll
<1> HIDE DEF ss
<1>6. IsSeq(FlattenSeq(ss)) /\ IsEnds(e, ss)
  BY <1>2, <1>4, EndsExist
<1> HIDE DEF e, len
<1>7. e[0] = 0 /\ e[len] = Len(FlattenSeq(ss))
  BY <1>2, <1>6 DEF IsEnds
<1>8. ASSUME NEW s \in 1..len
      PROVE  /\ e[s - 1] \in Nat /\ e[s] = e[s - 1] + Len(ss[s])
             /\ \A n \in 1..Len(ss[s]) : FlattenSeq(ss)[e[s - 1] + n] = ss[s][n]
  <2>1. Len(ss) \in Nat /\ s \in 1..Len(ss) /\ IsEnds(e, ss)
    BY <1>1, <1>2, <1>6 DEF len
  <2>2. /\ e[s] \in Nat /\ e[s - 1] \in Nat /\ s - 1 \in 0..Len(ss) /\ s \in 0..Len(ss)
        /\ e[s] = e[s - 1] + Len(ss[s])
        /\ \A n \in 1..Len(ss[s]) : FlattenSeq(ss)[e[s - 1] + n] = ss[s][n]
    BY ONLY <2>1, EndsAt
  <2> QED
    BY <2>2
<1>9. \A s : WrittenEnd(blocks, s) = e[s]
  BY DEF WrittenEnd, e, ss
<1>10. ASSUME NEW s \in 1..len
       PROVE  /\ WrittenEnd(blocks, s - 1) \in Nat /\ Len(Written(blocks[s])) \in Nat
              /\ WrittenEnd(blocks, s) = WrittenEnd(blocks, s - 1) + Len(Written(blocks[s]))
              /\ \A n \in 1..Len(Written(blocks[s])) :
                   WrittenAll(blocks)[WrittenEnd(blocks, s - 1) + n] = Written(blocks[s])[n]
  <2>1. ss[s] = Written(blocks[s]) /\ Len(ss[s]) \in Nat
    BY <1>3
  <2> QED
    <3>1. WrittenEnd(blocks, s - 1) = e[s - 1] /\ WrittenEnd(blocks, s) = e[s]
      BY <1>9
    <3> QED
      BY ONLY <1>5, <1>8, <2>1, <3>1, s \in 1..len
<1> QED
  BY <1>1, <1>5, <1>6, <1>7, <1>9, <1>10 DEF len

(* The first n configurations of the file.                                 *)
ReadUpto(configs, blocks, n) ==
  /\ IsSeq(configs) /\ Len(configs) = n
  /\ \A k \in 1..n : configs[k] = WrittenAll(blocks)[k]
AtSetConfigs(lines, brackets, s, at, configs, blocks) ==
  /\ Plainly(lines, blocks)
  /\ Searched(brackets, blocks, Len(blocks) + 1, 0)
  /\ s \in 1..(Len(blocks) + 1) /\ at \in Nat
  /\ s = Len(blocks) + 1 => at = 0
  /\ s # Len(blocks) + 1 => at <= Len(Located(blocks, s, Len(blocks[s])))
  /\ ReadUpto(configs, blocks, WrittenEnd(blocks, s - 1) + at)

(* One configuration more has been read.                                   *)
LEMMA ReadMore ==
  ASSUME NEW configs, NEW blocks, NEW n, ReadUpto(configs, blocks, n),
         NEW config, config = WrittenAll(blocks)[n + 1]
  PROVE  ReadUpto(Append(configs, config), blocks, n + 1)
<1> DEFINE more == Append(configs, config)
<1>1. IsSeq(configs) /\ Len(configs) = n /\ n \in Nat /\ DOMAIN configs = 1..n
  BY SeqDomain DEF ReadUpto
<1>2. IsSeq(more) /\ Len(more) = n + 1 /\ more[n + 1] = config /\ \A k \in 1..n : more[k] = configs[k]
  BY <1>1, AppendSeq, AppendLen
<1> HIDE DEF more
<1>3. \A k \in 1..n : configs[k] = WrittenAll(blocks)[k]
  BY DEF ReadUpto
<1>4. \A k \in 1..(n + 1) : k \in 1..n \/ k = n + 1
  BY <1>1
<1>5. \A k \in 1..(n + 1) : more[k] = WrittenAll(blocks)[k]
  BY <1>2, <1>3, <1>4
<1>6. ReadUpto(more, blocks, n + 1)
  BY <1>2, <1>5 DEF ReadUpto
<1> QED
  BY <1>6 DEF more

(* Behind the last server everything has been found.                       *)
LEMMA SearchedAll ==
  ASSUME NEW blocks, AreBlocks(blocks), NEW brackets, Searched(brackets, blocks, Len(blocks) + 1, 0)
  PROVE  /\ Len(brackets) = Len(blocks) /\ Len(blocks) \in Nat
         /\ \A s \in 1..Len(blocks) : brackets[s] = ServerBracket(blocks, s, Len(blocks[s]))
<1>1. Len(blocks) \in Nat
  BY ServersEnd
<1> DEFINE len == Len(blocks)
<1>2. /\ Len(brackets) = len
      /\ \A k \in 1..len :
           brackets[k] = ServerBracket(blocks, k, IF k < len + 1 THEN Len(blocks[k]) ELSE IF k = len + 1 THEN 0 ELSE 0)
  BY DEF Searched
<1> HIDE DEF len
<1>3. \A k \in 1..len : k < len + 1
  BY <1>1 DEF len
<1>4. \A k \in 1..len : brackets[k] = ServerBracket(blocks, k, Len(blocks[k]))
  BY <1>2, <1>3
<1> QED
  BY <1>1, <1>2, <1>4 DEF len

(* A configuration that is read as it is written is kept at its place.     *)
LEMMA KeepTurn ==
  ASSUME NEW blocks, AreBlocks(blocks),
         AtSetConfigs(mGnl, mServerBracket, server, line, mConfigs, blocks),
         pc = "SetConfigs", server \in 1..Len(blocks), UNCHANGED <<mGnl, mServerBracket>>,
         NEW reading, reading.result = "ok", reading.config = Written(blocks[server])[line + 1],
         Keep(reading)
  PROVE  /\ pc' = "SetConfigs"
         /\ AtSetConfigs(mGnl', mServerBracket', server', line', mConfigs', blocks)
<1> DEFINE len == Len(blocks)
           found == Located(blocks, server, Len(blocks[server]))
           n == Len(found)
           w == Written(blocks[server])
           e == WrittenEnd(blocks, server - 1)
<1>1. /\ Plainly(mGnl, blocks) /\ Searched(mServerBracket, blocks, Len(blocks) + 1, 0)
      /\ line \in Nat
      /\ server # Len(blocks) + 1 => line <= n
      /\ ReadUpto(mConfigs, blocks, e + line)
  BY DEF AtSetConfigs
<1>2. /\ len \in Nat /\ e \in Nat /\ Len(w) \in Nat /\ WrittenEnd(blocks, server) = e + Len(w)
      /\ \A k \in 1..Len(w) : WrittenAll(blocks)[e + k] = w[k]
  BY WrittenEnds
<1>3. n \in Nat /\ Len(w) = n + 1
  BY WrittenAt
<1>4. mServerBracket[server].mLocationBracket = found
  <2>1. mServerBracket[server] = ServerBracket(blocks, server, Len(blocks[server]))
    BY <1>1, SearchedAll
  <2> QED
    BY <2>1 DEF ServerBracket
<1>5. pc' = pc /\ mConfigs' = Append(mConfigs, reading.config)
      /\ IF line < n THEN server' = server /\ line' = line + 1 ELSE server' = server + 1 /\ line' = 0
  <2> HIDE DEF n, found
  <2>1. line < Len(mServerBracket[server].mLocationBracket) <=> line < n
    BY <1>4 DEF n
  <2> QED
    BY <2>1, Zenon DEF Keep
<1>6. mGnl' = mGnl /\ mServerBracket' = mServerBracket
  OBVIOUS
<1>7. server # len + 1 /\ line <= n
  BY <1>1, <1>2
<1> DEFINE m == e + line
<1> HIDE DEF n, w, e, found, len
<1>8. /\ line + 1 \in 1..Len(w) /\ e + (line + 1) = m + 1
  BY <1>1, <1>2, <1>3, <1>7
<1>9. reading.config = WrittenAll(blocks)[m + 1]
  <2>1. WrittenAll(blocks)[e + (line + 1)] = w[line + 1]
    BY <1>2, <1>8
  <2> QED
    BY <1>8, <2>1 DEF w
<1> HIDE DEF m
<1>10. ReadUpto(mConfigs', blocks, m + 1)
  <2>1. ReadUpto(mConfigs, blocks, m)
    BY <1>1 DEF m
  <2>2. ReadUpto(Append(mConfigs, reading.config), blocks, m + 1)
    BY <1>9, <2>1, ReadMore
  <2> QED
    BY <1>5, <2>2
<1>11. CASE line < n
  <2>1. server' = server /\ line' = line + 1
    BY <1>5, <1>11
  <2>2. m + 1 = e + line'
    BY <1>1, <1>2, <2>1 DEF m
  <2>3. line' \in Nat /\ line' <= n
    BY <1>1, <1>3, <1>11, <2>1
  <2>4. WrittenEnd(blocks, server' - 1) + line' = m + 1
    BY <2>1, <2>2 DEF e
  <2>5. server' # Len(blocks) + 1 /\ server' \in 1..(Len(blocks) + 1)
    BY <1>2, <1>7, <2>1 DEF len
  <2>6. line' <= Len(Located(blocks, server', Len(blocks[server'])))
    BY <2>1, <2>3 DEF n, found
  <2> QED
    BY <1>1, <1>5, <1>6, <1>10, <2>3, <2>4, <2>5, <2>6 DEF AtSetConfigs
<1>12. CASE ~(line < n)
  <2>1. server' = server + 1 /\ line' = 0
    BY <1>5, <1>12
  <2>2. line = n
    BY <1>1, <1>3, <1>7, <1>12
  <2>3. m + 1 = WrittenEnd(blocks, server)
    BY <1>1, <1>2, <1>3, <2>2 DEF m
  <2>4. server' - 1 = server /\ server' \in 1..(len + 1)
    BY <1>2, <2>1 DEF len
  <2>5. WrittenEnd(blocks, server' - 1) + line' = m + 1
    <3>1. m + 1 \in Nat
      BY <1>1, <1>2 DEF m
    <3> QED
      BY <2>1, <2>3, <2>4, <3>1
  <2>6. line' \in Nat
    BY <2>1
  <2>7. server' # len + 1 => line' <= Len(Located(blocks, server', Len(blocks[server'])))
    <3> SUFFICES ASSUME server' # len + 1
                 PROVE  line' <= Len(Located(blocks, server', Len(blocks[server'])))
      OBVIOUS
    <3>1. server' \in 1..Len(blocks)
      BY <1>2, <2>4 DEF len
    <3>2. Len(Located(blocks, server', Len(blocks[server']))) \in Nat
      BY <3>1, WrittenAt
    <3> QED
      BY <2>1, <3>2
  <2> QED
    BY <1>1, <1>5, <1>6, <1>10, <2>1, <2>4, <2>5, <2>6, <2>7 DEF AtSetConfigs, len
<1> QED
  BY <1>11, <1>12

(* A turn of ParseServer keeps what the server block stands for.           *)
LEMMA ParseServerTurn ==
  ASSUME NEW blocks, AreBlocks(blocks),
         AtSetConfigs(mGnl, mServerBracket, server, line, mConfigs, blocks), ParseServer
  PROVE  /\ pc' = "SetConfigs"
         /\ AtSetConfigs(mGnl', mServerBracket', server', line', mConfigs', blocks)
<1>1. /\ Plainly(mGnl, blocks) /\ Searched(mServerBracket, blocks, Len(blocks) + 1, 0)
      /\ server \in 1..(Len(blocks) + 1)
  BY DEF AtSetConfigs
<1>2. pc = "SetConfigs" /\ server <= Len(mServerBracket) /\ line = 0 /\ UNCHANGED <<mGnl, mServerBracket>>
  BY DEF ParseServer
<1>3. PICK uninitialised \in BOOLEAN : Keep(parsingserverBlock(mServerBracket[server], uninitialised))
  BY DEF ParseServer
<1> DEFINE b == mServerBracket[server]
           reading == parsingserverBlock(b, uninitialised)
<1>4. /\ Len(mServerBracket) = Len(blocks) /\ Len(blocks) \in Nat
      /\ \A s \in 1..Len(blocks) : mServerBracket[s] = ServerBracket(blocks, s, Len(blocks[s]))
  BY <1>1, SearchedAll
<1>5. server \in 1..Len(blocks)
  BY <1>1, <1>2, <1>4
<1>6. IsServer(b, blocks, server)
  BY <1>1, <1>4, <1>5 DEF IsServer
<1> HIDE DEF b
<1>7. reading = OwnRead(blocks[server], Len(blocks[server]))
  BY <1>6, ServerRead
<1>8. Keep(reading)
  BY <1>3 DEF b
<1> HIDE DEF reading
<1>9. /\ reading.result = "ok"
      /\ reading.config = Effect(ConfigFile, Own(blocks[server], Len(blocks[server])), ServerDirectives)
  BY <1>7 DEF OwnRead, ReadSoFar
<1>10. reading.config = Written(blocks[server])[line + 1]
  <2>1. Written(blocks[server])[1] = Effect(ConfigFile, Own(blocks[server], Len(blocks[server])), ServerDirectives)
    BY <1>5, WrittenAt
  <2>2. line + 1 = 1
    BY <1>2
  <2> QED
    BY <1>9, <2>1, <2>2
<1> QED
  BY <1>2, <1>5, <1>8, <1>9, <1>10, KeepTurn

(* A turn of ParseLocation keeps what the next location stands for.        *)
LEMMA ParseLocationTurn ==
  ASSUME NEW blocks, AreBlocks(blocks),
         AtSetConfigs(mGnl, mServerBracket, server, line, mConfigs, blocks), ParseLocation
  PROVE  /\ pc' = "SetConfigs"
         /\ AtSetConfigs(mGnl', mServerBracket', server', line', mConfigs', blocks)
<1>1. /\ Plainly(mGnl, blocks) /\ Searched(mServerBracket, blocks, Len(blocks) + 1, 0)
      /\ server \in 1..(Len(blocks) + 1) /\ line \in Nat
      /\ server # Len(blocks) + 1 => line <= Len(Located(blocks, server, Len(blocks[server])))
      /\ ReadUpto(mConfigs, blocks, WrittenEnd(blocks, server - 1) + line)
  BY DEF AtSetConfigs
<1>2. pc = "SetConfigs" /\ server <= Len(mServerBracket) /\ line > 0 /\ UNCHANGED <<mGnl, mServerBracket>>
  BY DEF ParseLocation
<1> DEFINE b == mServerBracket[server].mLocationBracket[line]
           config == mConfigs[Len(mConfigs) - line + 1]
           w == Written(blocks[server])
           found == Located(blocks, server, Len(blocks[server]))
           e == WrittenEnd(blocks, server - 1)
<1>3. PICK blank \in {"ok", "error", "crashed"}, uninitialised \in BOOLEAN :
        Keep(parsingLocationBlock(config, b, blank, uninitialised))
  BY DEF ParseLocation
<1> DEFINE reading == parsingLocationBlock(config, b, blank, uninitialised)
<1>4. /\ Len(mServerBracket) = Len(blocks) /\ Len(blocks) \in Nat
      /\ \A s \in 1..Len(blocks) : mServerBracket[s] = ServerBracket(blocks, s, Len(blocks[s]))
  BY <1>1, SearchedAll
<1>5. server \in 1..Len(blocks) /\ server # Len(blocks) + 1
  BY <1>1, <1>2, <1>4
<1>6. b = found[line]
  <2>1. mServerBracket[server] = ServerBracket(blocks, server, Len(blocks[server]))
    BY <1>4, <1>5
  <2> HIDE DEF found
  <2>2. mServerBracket[server].mLocationBracket = found
    BY <2>1 DEF ServerBracket, found
  <2> QED
    BY <2>2
<1>7. /\ IsSeq(w) /\ Len(found) \in Nat /\ Len(w) = Len(found) + 1
      /\ w[1] = Effect(ConfigFile, Own(blocks[server], Len(blocks[server])), ServerDirectives)
      /\ \A l \in 1..Len(found) : \E i \in 1..Len(blocks[server]) :
           /\ isLocation(blocks[server][i]) /\ found[l] = LocationBracket(blocks, server)[i]
           /\ w[l + 1] = Effect(Moved(w[1], Path(blocks[server][i].path)), blocks[server][i].body,
                                LocationDirectives)
  BY <1>5, WrittenAt
<1>8. line \in 1..Len(found)
  <2>1. line <= Len(found) /\ line \in Nat /\ line > 0
    BY <1>1, <1>2, <1>5
  <2>2. Len(found) \in Nat
    BY <1>7
  <2> HIDE DEF found
  <2> QED
    BY <2>1, <2>2
<1>9. PICK i \in 1..Len(blocks[server]) :
        /\ isLocation(blocks[server][i]) /\ found[line] = LocationBracket(blocks, server)[i]
        /\ w[line + 1] = Effect(Moved(w[1], Path(blocks[server][i].path)), blocks[server][i].body,
                                LocationDirectives)
  BY <1>7, <1>8
<1>10. IsLocationOf(b, blocks, server, i)
  BY <1>1, <1>5, <1>6, <1>9 DEF IsLocationOf
<1>11. config = w[1]
  <2>1. /\ e \in Nat /\ Len(w) \in Nat
        /\ \A n \in 1..Len(w) : WrittenAll(blocks)[e + n] = w[n]
    BY <1>5, WrittenEnds
  <2>2. Len(mConfigs) = e + line /\ \A k \in 1..(e + line) : mConfigs[k] = WrittenAll(blocks)[k]
    BY <1>1 DEF ReadUpto
  <2>3. 1 \in 1..Len(w)
    BY <1>7, <2>1
  <2> HIDE DEF e, w
  <2>4. (e + line) - line + 1 = e + 1 /\ e + 1 \in 1..(e + line)
    BY <1>1, <1>2, <2>1
  <2> QED
    BY <2>1, <2>2, <2>3, <2>4
<1>12. w[1] = [m \in DOMAIN w[1] |-> w[1][m]]
  <2> DEFINE x == Effect(ConfigFile, Own(blocks[server], Len(blocks[server])), ServerDirectives)
  <2>1. x = [m \in DOMAIN x |-> x[m]]
    BY DEF Effect
  <2>2. w[1] = x
    BY <1>7
  <2> HIDE DEF x, w
  <2> QED
    BY <2>1, <2>2
<1>13. Keep(reading)
  BY <1>3
<1> HIDE DEF b, config, found, w
<1>14. reading = ReadSoFar(Moved(w[1], Path(blocks[server][i].path)), blocks[server][i].body, LocationDirectives)
  <2>1. config = [m \in DOMAIN config |-> config[m]]
    BY <1>11, <1>12
  <2>2. parsingLocationBlock(config, b, blank, uninitialised) =
          ReadSoFar(Moved(config, Path(blocks[server][i].path)), blocks[server][i].body, LocationDirectives)
    BY <1>10, <2>1, LocationRead
  <2> QED
    BY <1>11, <2>2
<1> HIDE DEF reading
<1>15. reading.result = "ok" /\ reading.config = w[line + 1]
  BY <1>9, <1>14 DEF ReadSoFar
<1> QED
  BY <1>2, <1>5, <1>13, <1>15, KeepTurn DEF w

(* Behind the last server all configurations of the file have been kept.   *)
LEMMA ParseEndTurn ==
  ASSUME NEW blocks, AreBlocks(blocks),
         AtSetConfigs(mGnl, mServerBracket, server, line, mConfigs, blocks), ParseEnd
  PROVE  pc' = "configured" /\ mConfigs' = WrittenAll(blocks)
<1>1. /\ Searched(mServerBracket, blocks, Len(blocks) + 1, 0)
      /\ server \in 1..(Len(blocks) + 1)
      /\ server = Len(blocks) + 1 => line = 0
      /\ ReadUpto(mConfigs, blocks, WrittenEnd(blocks, server - 1) + line)
  BY DEF AtSetConfigs
<1>2. server > Len(mServerBracket) /\ pc' = "configured" /\ mConfigs' = mConfigs
  BY DEF ParseEnd
<1>3. Len(mServerBracket) = Len(blocks) /\ Len(blocks) \in Nat
  BY <1>1, SearchedAll
<1>4. server - 1 = Len(blocks) /\ line = 0
  BY <1>1, <1>2, <1>3
<1> DEFINE n == Len(WrittenAll(blocks))
<1>5. IsSeq(WrittenAll(blocks)) /\ WrittenEnd(blocks, Len(blocks)) = n
  BY WrittenEnds
<1>6. n \in Nat /\ DOMAIN WrittenAll(blocks) = 1..n
  BY <1>5, SeqDomain
<1>7. WrittenEnd(blocks, server - 1) + line = n
  BY <1>4, <1>5, <1>6
<1>8. IsSeq(mConfigs) /\ Len(mConfigs) = n /\ \A k \in 1..n : mConfigs[k] = WrittenAll(blocks)[k]
  BY <1>1, <1>7 DEF ReadUpto
<1>9. DOMAIN mConfigs = 1..n
  BY <1>8, SeqDomain
<1>10. mConfigs = WrittenAll(blocks)
  <2>1. mConfigs = [k \in DOMAIN mConfigs |-> mConfigs[k]]
    BY <1>8 DEF IsSeq
  <2>2. WrittenAll(blocks) = [k \in DOMAIN WrittenAll(blocks) |-> WrittenAll(blocks)[k]]
    BY <1>5 DEF IsSeq
  <2> HIDE DEF n
  <2> QED
    BY ONLY <1>6, <1>8, <1>9, <2>1, <2>2
<1> QED
  BY <1>2, <1>10

-----------------------------------------------------------------------------
(***************************************************************************)
(* ReadAsWritten: what holds at every step of the reading of a file that   *)
(* is not damaged.                                                         *)
(***************************************************************************)
Untaken == {"main", "ReadConfigFile", "SetGnl"}
WrittenInv ==
  Said =>
    /\ pc \in Untaken => AreFree(mGnl)
    /\ pc \in Untaken \cup {"Step1", "Step2"} => mConfigs = <<>>
    /\ pc = "Step1" => AtStep1(mGnl, mServerBracket, line, file.servers)
    /\ pc = "Step2" => AtStep2(mGnl, mServerBracket, server, line, file.servers)
    /\ pc = "SetConfigs" => AtSetConfigs(mGnl, mServerBracket, server, line, mConfigs, file.servers)
    /\ pc = "configured" => mConfigs = WrittenAll(file.servers)

(* It holds before anything is read.                                       *)
LEMMA WrittenBegins ==
  Init => WrittenInv
<1>1. AreFree(<<>>)
  BY NoneDomain DEF AreFree
<1> QED
  BY <1>1 DEF Init, WrittenInv

(* Which actions there are at each place.                                  *)
LEMMA ActionsAt ==
  ASSUME Next, pc \notin Untaken
  PROVE  \/ pc = "Step1" /\ (Step1 \/ Step2Server)
         \/ pc = "Step2" /\ (Step2 \/ Step2Server)
         \/ pc = "SetConfigs" /\ (ParseServer \/ ParseLocation \/ ParseEnd)
<1>1. ~(main \/ ReadConfigFile \/ NextLine \/ ReadEnd \/ ReadFails)
  BY DEF Untaken, main, ReadConfigFile, NextLine, ReadEnd, ReadFails
<1>2. ASSUME NEW n \in 1..BUFFER_SIZE_GNL PROVE ~ReadPiece(n)
  BY DEF Untaken, ReadPiece
<1>3. Parse
  BY <1>1, <1>2 DEF Next, Read
<1>4. /\ Step1 => pc = "Step1"
      /\ Step2Server => pc = "Step1" \/ pc = "Step2"
      /\ Step2 => pc = "Step2"
  BY DEF Step1, Step2Server, Step2
<1>5. ParseServer \/ ParseLocation \/ ParseEnd => pc = "SetConfigs"
  BY DEF ParseServer, ParseLocation, ParseEnd
<1> QED
  BY <1>3, <1>4, <1>5 DEF Parse

(* The lines have been taken: the search begins.                           *)
LEMMA LinesTaken ==
  ASSUME Said, file \in Files, NEW lines, AreFree(lines), lines # <<>>, Text(lines) = file.text
  PROVE  AtStep1(lines, <<>>, 1, file.servers)
<1> DEFINE blocks == file.servers
<1>1. AreBlocks(blocks)
  BY SaidBlocks
<1>2. Laid(lines, RuledLines(blocks), 0, 0)
  BY LinesBack
<1> HIDE DEF blocks
<1>3. Len(blocks) \in Nat /\ Above(blocks, 0) = 0
  BY <1>1, ServersEnd, AboveGrows
<1>4. Found(<<>>, blocks, 0)
  BY NoneDomain DEF Found
<1>5. 0 \in 0..Len(blocks) /\ 1 = Above(blocks, 0) + 1
  BY <1>3
<1>6. AtStep1(lines, <<>>, 1, blocks)
  BY <1>2, <1>4, <1>5 DEF AtStep1
<1> QED
  BY <1>6 DEF blocks

(* All brackets found, no configuration kept.                              *)
LEMMA ConfigsBegin ==
  ASSUME NEW blocks, AreBlocks(blocks), NEW lines, NEW brackets,
         Laid(lines, RuledLines(blocks), Len(RuledLines(blocks)) + 1, 0),
         Searched(brackets, blocks, Len(blocks) + 1, 0)
  PROVE  AtSetConfigs(lines, brackets, 1, 0, <<>>, blocks)
<1>1. Len(blocks) \in Nat /\ WrittenEnd(blocks, 0) = 0
  BY WrittenEnds
<1>2. WrittenEnd(blocks, 1 - 1) + 0 = 0 /\ 1 \in 1..(Len(blocks) + 1) /\ 0 \in Nat
  BY <1>1
<1>3. ReadUpto(<<>>, blocks, 0)
  BY NoneDomain DEF ReadUpto
<1>4. 1 # Len(blocks) + 1 => 0 <= Len(Located(blocks, 1, Len(blocks[1])))
  <2> SUFFICES ASSUME 1 # Len(blocks) + 1 PROVE 0 <= Len(Located(blocks, 1, Len(blocks[1])))
    OBVIOUS
  <2>1. 1 \in 1..Len(blocks)
    BY <1>1
  <2>2. Len(Located(blocks, 1, Len(blocks[1]))) \in Nat
    BY <2>1, WrittenAt
  <2> QED
    BY <2>2
<1>5. Plainly(lines, blocks)
  BY DEF Plainly
<1> QED
  BY <1>2, <1>3, <1>4, <1>5 DEF AtSetConfigs

(* Every action of the parser keeps it.                                    *)
LEMMA NextWritten ==
  ASSUME WrittenInv, ReadingInv, ReadingInv', BlocksInv, Next
  PROVE  WrittenInv'
<1>1. file' = file
  BY ReadingGoesOn
<1> SUFFICES ASSUME Said
             PROVE  WrittenInv'
  BY <1>1 DEF WrittenInv, Said
<1> DEFINE blocks == file.servers
<1>2. file \in Files /\ file.kind = "text" /\ Said'
  BY <1>1 DEF ReadingInv, Said
<1>3. AreBlocks(blocks)
  BY <1>2, SaidBlocks
<1>4. IsSeq(mGnl)
  BY DEF BlocksInv
<1>5. CASE pc \in Untaken
  <2>1. /\ pc' \in {"ReadConfigFile", "SetGnl", "Step1", "exited"}
        /\ AreFree(mGnl')
        /\ mConfigs' = mConfigs /\ mServerBracket' = mServerBracket
        /\ pc' = "Step1" => line' = 1 /\ mGnl' # <<>>
    BY <1>2, <1>5, ReadKeepsFree DEF WrittenInv, Untaken
  <2>2. mConfigs = <<>> /\ mServerBracket = <<>>
    BY <1>5 DEF WrittenInv, BlocksInv, Untaken
  <2>3. ASSUME pc' = "Step1"
        PROVE  AtStep1(mGnl', mServerBracket', line', file'.servers)
    <3>1. Text(mGnl') = file.text
      BY <1>1, <1>2, <2>3 DEF ReadingInv
    <3>2. AtStep1(mGnl', <<>>, 1, file.servers)
      BY <1>2, <2>1, <2>3, <3>1, LinesTaken
    <3> QED
      BY <1>1, <2>1, <2>2, <2>3, <3>2
  <2> QED
    BY <2>1, <2>2, <2>3 DEF WrittenInv, Untaken
<1>6. CASE pc = "Step1" /\ Step1
  <2>1. AtStep1(mGnl, mServerBracket, line, blocks) /\ mConfigs = <<>> /\ mConfigs' = mConfigs
    BY <1>6 DEF WrittenInv, Step1
  <2> HIDE DEF blocks
  <2>2. pc' = "Step1" /\ AtStep1(mGnl', mServerBracket', line', blocks)
    BY <1>3, <1>6, <2>1, Step1Turn
  <2> QED
    BY <1>1, <2>1, <2>2 DEF WrittenInv, Untaken, blocks
<1>7. CASE pc \in {"Step1", "Step2"} /\ Step2Server
  <2>1. mConfigs = <<>> /\ mConfigs' = mConfigs
    BY <1>7 DEF WrittenInv, Step2Server
  <2>2. \/ pc = "Step1" /\ AtStep1(mGnl, mServerBracket, line, blocks)
        \/ pc = "Step2" /\ AtStep2(mGnl, mServerBracket, server, line, blocks)
    BY <1>7 DEF WrittenInv
  <2> HIDE DEF blocks
  <2>3. \/ pc' = "Step2" /\ AtStep2(mGnl', mServerBracket', server', line', blocks)
        \/ /\ pc' = "SetConfigs" /\ server' = 1 /\ line' = 0
           /\ Laid(mGnl', RuledLines(blocks), Len(RuledLines(blocks)) + 1, 0)
           /\ Searched(mServerBracket', blocks, Len(blocks) + 1, 0)
    BY <1>3, <1>4, <1>7, <2>2, Step2ServerTurn
  <2>4. CASE pc' = "Step2" /\ AtStep2(mGnl', mServerBracket', server', line', blocks)
    BY <1>1, <2>1, <2>4 DEF WrittenInv, Untaken, blocks
  <2>5. CASE /\ pc' = "SetConfigs" /\ server' = 1 /\ line' = 0
             /\ Laid(mGnl', RuledLines(blocks), Len(RuledLines(blocks)) + 1, 0)
             /\ Searched(mServerBracket', blocks, Len(blocks) + 1, 0)
    <3>1. AtSetConfigs(mGnl', mServerBracket', 1, 0, <<>>, blocks)
      BY <1>3, <2>5, ConfigsBegin
    <3>2. AtSetConfigs(mGnl', mServerBracket', server', line', mConfigs', blocks)
      BY <2>1, <2>5, <3>1
    <3> QED
      BY <1>1, <2>5, <3>2 DEF WrittenInv, Untaken, blocks
  <2> QED
    BY <2>3, <2>4, <2>5
<1>8. CASE pc = "Step2" /\ Step2
  <2>1. AtStep2(mGnl, mServerBracket, server, line, blocks) /\ mConfigs = <<>> /\ mConfigs' = mConfigs
    BY <1>8 DEF WrittenInv, Step2
  <2> HIDE DEF blocks
  <2>2. pc' = "Step2" /\ AtStep2(mGnl', mServerBracket', server', line', blocks)
    BY <1>3, <1>4, <1>8, <2>1, Step2Turn
  <2> QED
    BY <1>1, <2>1, <2>2 DEF WrittenInv, Untaken, blocks
<1>9. CASE pc = "SetConfigs" /\ (ParseServer \/ ParseLocation \/ ParseEnd)
  <2>1. AtSetConfigs(mGnl, mServerBracket, server, line, mConfigs, blocks)
    BY <1>9 DEF WrittenInv
  <2> HIDE DEF blocks
  <2>2. \/ /\ pc' = "SetConfigs"
           /\ AtSetConfigs(mGnl', mServerBracket', server', line', mConfigs', blocks)
        \/ pc' = "configured" /\ mConfigs' = WrittenAll(blocks)
    BY <1>3, <1>9, <2>1, ParseServerTurn, ParseLocationTurn, ParseEndTurn
  <2> QED
    BY <1>1, <2>2 DEF WrittenInv, Untaken, blocks
<1> QED
  BY <1>5, <1>6, <1>7, <1>8, <1>9, ActionsAt

(* Every step of the parser keeps it, stuttering or not.                   *)
LEMMA StepWritten ==
  WrittenInv /\ ReadingInv /\ ReadingInv' /\ BlocksInv /\ [Next]_configVars => WrittenInv'
<1>1. ASSUME WrittenInv, UNCHANGED configVars PROVE WrittenInv'
  BY <1>1 DEF WrittenInv, configVars, readVars, Said
<1> QED
  BY <1>1, NextWritten

(* It says what was to be shown.                                           *)
LEMMA WrittenRead ==
  WrittenInv => ReadAsWritten
BY DEF WrittenInv, ReadAsWritten, Said

(* What is read is what is written: for every file that is not damaged,    *)
(* whatever the pieces read() returns it in, every directive counts in the *)
(* block it stands in, those of a server also behind its locations, and    *)
(* nothing is given up.                                                    *)
THEOREM ReadAsWrittenCorrect == Spec => []ReadAsWritten
BY WrittenBegins, StepWritten, WrittenRead, ReadingInvariant, BlocksInvariant, PTL DEF Spec

(* The steps of the start that are not the parser's keep it too.           *)
LEMMA StartKeepsWritten ==
  WrittenInv /\ ReadingInv /\ ReadingInv' /\ BlocksInv /\ [Start]_vars => WrittenInv'
<1> SUFFICES ASSUME WrittenInv, ReadingInv, ReadingInv', BlocksInv, [Start]_vars PROVE WrittenInv'
  OBVIOUS
<1>1. CASE Next
  BY <1>1, NextWritten
<1>2. CASE CheckOverlap \/ setServersValue \/ ServersSet \/ SetSocketFails \/ RunServers
  <2>1. pc' \in {"exited", "setServersValue", "setServers", "running", "crashed"}
    BY <1>2 DEF CheckOverlap, setServersValue, ServersSet, SetSocketFails, RunServers
  <2> QED
    BY <2>1 DEF WrittenInv, Untaken
<1>3. CASE SetSocket \/ SetNoSocket
  <2>1. pc' = "setServers"
    BY <1>3 DEF SetSocket, SetNoSocket
  <2> QED
    BY <2>1 DEF WrittenInv, Untaken
<1>4. CASE Over \/ UNCHANGED vars
  BY <1>4, StepWritten DEF Over, vars
<1> QED
  BY <1>1, <1>2, <1>3, <1>4 DEF Start

(* The reading is the beginning of the start: what setServersValue is      *)
(* given are the configurations the file stands for.                       *)
THEOREM StartReadAsWritten == StartSpec => []ReadAsWritten
<1>1. StartInit => WrittenInv /\ ReadingInv /\ TypeInv
  <2>1. Init => file \in Files /\ pc \in Places
    BY DEF Init, Places, BeforeTables, ReadingFile
  <2> QED
    BY <2>1, WrittenBegins, InitReading, OpenBegins, BlocksBegin DEF StartInit, TypeInv
<1>2. TypeInv => BlocksInv
  BY DEF TypeInv
<1> QED
  BY <1>1, <1>2, StartKeepsWritten, StartKeepsReading, StepType, WrittenRead, PTL DEF StartSpec

(* Two servers of one name on one address are never run, and a file that   *)
(* has none of them is never refused for it, whatever else it says and     *)
(* however many servers and locations it has.                              *)
THEOREM StartOverlapRefused == StartSpec => []OverlapRefused
BY StartReadAsWritten, OverlapRefusedCorrect, PTL

(* Every configuration of the file is in the tables of the running server  *)
(* under its own address and name, however many there are, when none is    *)
(* repeated and those of a server stand together.                          *)
THEOREM StartNoneLost == StartSpec => []NoneLost
BY StartReadAsWritten, NoneLostCorrect, PTL

(* The lookups of the running server answer with what the file says.       *)
THEOREM StartServedAsWritten == StartSpec => []ServedAsWritten
BY StartReadAsWritten, ServedAsWrittenCorrect, PTL
=============================================================================
