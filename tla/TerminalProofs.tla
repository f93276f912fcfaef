--------------------------- MODULE TerminalProofs ---------------------------
(***************************************************************************)
(* What the emulator keeps, for any size, tab stop, limit of history and   *)
(* parameter, and what a stop promises, for any number of connections.     *)
(*                                                                         *)
(* First come facts of joined sequences, then what rows, lines and pieces  *)
(* of lines show, then one lemma for every operation of the emulator: what *)
(* was shown is shown, in its order and once, unless the operation edits.  *)
(***************************************************************************)
EXTENDS Drain, Terminal, FiniteSetTheorems, SequenceTheorems, TLAPS


-----------------------------------------------------------------------------
(* Sequences that are joined (FlattenSeq).                                 *)

Less == {p \in Nat \X Nat : p[1] < p[2]}

\* A set of naturals that is not empty has a least one.
LEMMA LeastNatural == ASSUME NEW T, T \subseteq Nat, T # {} PROVE \E x \in T : \A y \in T : ~(y < x)
<1>1. OpToRel(<, Nat) = Less
  BY DEF OpToRel, Less
<1>2. IsWellFoundedOn(Less, Nat)
  BY <1>1, NatLessThanWellFounded
<1>3. PICK x \in T : \A y \in T : ~(<<y, x>> \in Less)
  BY <1>2, WFMin
<1>4. ASSUME NEW y \in T PROVE ~(y < x)
  <2>1. x \in Nat /\ y \in Nat /\ <<y, x>> \notin Less
    BY <1>3
  <2>2. QED
    BY <2>1 DEF Less
<1>5. QED
  BY <1>4

\* g joins the first n sequences of s.
Joins(g, s, n) == g = [i \in 1..n |-> IF i = 1 THEN s[i] ELSE g[i - 1] \o s[i]]

\* The partial joins of a sequence, by their values.
LEMMA JoinsIs ==
  ASSUME NEW g, NEW s, NEW n \in Nat
  PROVE  Joins(g, s, n) <=>
           /\ g = [i \in 1..n |-> g[i]]
           /\ \A i \in 1..n : g[i] = IF i = 1 THEN s[i] ELSE g[i - 1] \o s[i]
  BY DEF Joins

\* Every sequence has partial joins.
LEMMA JoinsExist ==
  ASSUME NEW s, NEW n \in Nat
  PROVE  \E g : Joins(g, s, n)
<1> DEFINE T == {m \in Nat : ~\E g : Joins(g, s, m)}
<1>1. SUFFICES ASSUME T # {} PROVE FALSE
  OBVIOUS
<1>2. PICK m \in T : \A y \in T : ~(y < m)
  <2>1. T \subseteq Nat
    OBVIOUS
  <2> HIDE DEF T
  <2>2. QED
    BY <1>1, <2>1, LeastNatural
<1>3. m \in Nat /\ ~\E g : Joins(g, s, m)
  OBVIOUS
<1>4. CASE m = 0
  <2>1. Joins([i \in 1..0 |-> <<>>], s, 0)
    BY DEF Joins
  <2>2. QED
    BY <1>3, <1>4, <2>1
<1>5. CASE m > 0
  <2>1. m - 1 \in Nat /\ m - 1 < m
    BY <1>3, <1>5
  <2>2. m - 1 \notin T
    BY <1>2, <2>1
  <2>3. PICK g : Joins(g, s, m - 1)
    BY <2>1, <2>2
  <2> DEFINE h == [i \in 1..m |-> IF i < m THEN g[i] ELSE IF m = 1 THEN s[1] ELSE g[m - 1] \o s[m]]
  <2>4. \A i \in 1..m - 1 : g[i] = IF i = 1 THEN s[i] ELSE g[i - 1] \o s[i]
    BY <2>1, <2>3, JoinsIs
  <2>5. ASSUME NEW i \in 1..m PROVE h[i] = IF i = 1 THEN s[i] ELSE h[i - 1] \o s[i]
    <3>1. CASE i < m
      <4>1. i \in 1..m - 1 /\ h[i] = g[i] /\ (i # 1 => h[i - 1] = g[i - 1])
        BY <1>3, <3>1
      <4> HIDE DEF h
      <4>2. QED
        BY <2>4, <4>1
    <3>2. CASE i = m
      <4>1. m # 1 => h[m - 1] = g[m - 1]
        BY <1>3, <1>5
      <4>2. h[m] = IF m = 1 THEN s[1] ELSE g[m - 1] \o s[m]
        BY <1>3, <1>5
      <4> HIDE DEF h
      <4>3. QED
        BY <3>2, <4>1, <4>2
    <3>3. QED
      BY <1>3, <3>1, <3>2
  <2>6. h = [i \in 1..m |-> h[i]]
    OBVIOUS
  <2>7. Joins(h, s, m)
    <3> HIDE DEF h
    <3>1. QED
      BY <1>3, <2>5, <2>6, JoinsIs
  <2>8. QED
    BY <1>3, <2>7
<1>6. QED
  BY <1>3, <1>4, <1>5

\* Partial joins agree where the sequences do.
LEMMA JoinsAgree ==
  ASSUME NEW f, NEW g, NEW s, NEW t, NEW n \in Nat, NEW m \in Nat, NEW k \in Nat, k <= n, k <= m,
         Joins(f, s, n), Joins(g, t, m), \A i \in 1..k : s[i] = t[i]
  PROVE  \A i \in 1..k : f[i] = g[i]
<1> DEFINE T == {i \in 1..k : f[i] # g[i]}
<1>1. SUFFICES ASSUME T # {} PROVE FALSE
  OBVIOUS
<1>2. PICK j \in T : \A y \in T : ~(y < j)
  <2>1. T \subseteq Nat
    OBVIOUS
  <2> HIDE DEF T
  <2>2. QED
    BY <1>1, <2>1, LeastNatural
<1>3. j \in 1..k /\ f[j] # g[j] /\ (j # 1 => f[j - 1] = g[j - 1])
  BY <1>2
<1>4. f[j] = IF j = 1 THEN s[j] ELSE f[j - 1] \o s[j]
  <2> HIDE DEF T
  <2>1. \A i \in 1..n : f[i] = IF i = 1 THEN s[i] ELSE f[i - 1] \o s[i]
    BY JoinsIs
  <2>2. j \in 1..n
    BY <1>3
  <2>3. QED
    BY <2>1, <2>2
<1>5. g[j] = IF j = 1 THEN t[j] ELSE g[j - 1] \o t[j]
  <2> HIDE DEF T
  <2>1. \A i \in 1..m : g[i] = IF i = 1 THEN t[i] ELSE g[i - 1] \o t[i]
    BY JoinsIs
  <2>2. j \in 1..m
    BY <1>3
  <2>3. QED
    BY <2>1, <2>2
<1>6. QED
  BY <1>3, <1>4, <1>5

\* One more element does not change the joins before it.
LEMMA JoinsStart ==
  ASSUME NEW f, NEW g, NEW s, NEW t, NEW n \in Nat, n # 0,
         Joins(f, s, n), Joins(g, t, n + 1), \A i \in 1..n : t[i] = s[i]
  PROVE  f[n] = g[n]
<1>1. PICK m : m = n + 1
  OBVIOUS
<1>2. m \in Nat /\ n <= m /\ n <= n /\ n \in 1..n
  BY <1>1
<1>3. Joins(g, t, m)
  BY <1>1
<1>4. \A i \in 1..n : s[i] = t[i]
  OBVIOUS
<1>5. \A i \in 1..n : f[i] = g[i]
  BY <1>2, <1>3, <1>4, JoinsAgree
<1>6. QED
  BY <1>2, <1>5

\* FlattenSeq is the last of the partial joins.
LEMMA FlattenJoins ==
  ASSUME NEW s, NEW n \in Nat \ {0}, Len(s) = n
  PROVE  \E g : Joins(g, s, n) /\ FlattenSeq(s) = g[n]
<1> DEFINE F == CHOOSE f : f = [i \in 1..n |-> IF i = 1 THEN s[i] ELSE f[i - 1] \o s[i]]
<1>1. \E g : g = [i \in 1..n |-> IF i = 1 THEN s[i] ELSE g[i - 1] \o s[i]]
  BY JoinsExist DEF Joins
<1>2. Joins(F, s, n)
  BY <1>1 DEF Joins
<1>3. FlattenSeq(s) = F[n]
  BY DEF FlattenSeq
<1> HIDE DEF F
<1>4. QED
  BY <1>2, <1>3

LEMMA FlattenNone == FlattenSeq(<<>>) = <<>>
  BY DEF FlattenSeq

\* What is appended is joined last.
LEMMA FlattenAppend ==
  ASSUME NEW S, NEW s \in Seq(Seq(S)), NEW x \in Seq(S)
  PROVE  FlattenSeq(Append(s, x)) = FlattenSeq(s) \o x
<1> DEFINE t == Append(s, x)
           n == Len(s)
<1>1. /\ n \in Nat /\ Len(t) = n + 1 /\ t[n + 1] = x
      /\ \A i \in 1..n : t[i] = s[i]
  BY AppendProperties
<1>2. PICK g : Joins(g, t, n + 1) /\ FlattenSeq(t) = g[n + 1]
  <2> HIDE DEF t, n
  <2>1. QED
    BY <1>1, FlattenJoins
<1>3. g[n + 1] = IF n + 1 = 1 THEN x ELSE g[n] \o x
  <2> HIDE DEF t, n
  <2>1. g[n + 1] = IF n + 1 = 1 THEN t[n + 1] ELSE g[n + 1 - 1] \o t[n + 1]
    BY <1>1, <1>2, JoinsIs
  <2>2. n + 1 - 1 = n
    BY <1>1
  <2>3. QED
    BY <1>1, <2>1, <2>2
<1>4. CASE n = 0
  <2>1. s = <<>>
    BY <1>4
  <2>2. <<>> \o x = x
    OBVIOUS
  <2> HIDE DEF t, n
  <2>3. FlattenSeq(t) = x
    BY <1>2, <1>3, <1>4
  <2>4. QED
    BY <2>1, <2>2, <2>3, FlattenNone DEF t
<1>5. CASE n # 0
  <2>1. PICK f : Joins(f, s, n) /\ FlattenSeq(s) = f[n]
    <3> HIDE DEF t
    <3>1. QED
      BY <1>1, <1>5, FlattenJoins
  <2>2. f[n] = g[n]
    <3> HIDE DEF t, n
    <3>1. QED
      BY <1>1, <1>2, <1>5, <2>1, JoinsStart
  <2> HIDE DEF t, n
  <2>3. n + 1 # 1
    BY <1>1, <1>5
  <2>4. QED
    BY <1>2, <1>3, <2>1, <2>2, <2>3 DEF t
<1>6. QED
  BY <1>4, <1>5

\* A sequence grows from its beginning.
LEMMA FirstGrows ==
  ASSUME NEW S, NEW s \in Seq(S), NEW k \in 1..Len(s)
  PROVE  /\ SubSeq(s, 1, k) = Append(SubSeq(s, 1, k - 1), s[k])
         /\ SubSeq(s, 1, k - 1) \in Seq(S) /\ s[k] \in S
<1>1. 1 \in 1..Len(s) /\ k \in 1..Len(s)
  OBVIOUS
<1>2. SubSeq(s, 1, k) = SubSeq(s, 1, k - 1) \o <<s[k]>>
  BY <1>1, SubSeqRecursiveSecond
<1>3. SubSeq(s, 1, k - 1) \in Seq(S) /\ s[k] \in S
  OBVIOUS
<1>4. QED
  BY <1>2, <1>3, AppendIsConcat

LEMMA FirstNone == ASSUME NEW s PROVE SubSeq(s, 1, 0) = <<>>
  BY SubSeqEmpty

\* Joined sequences have the elements of those that were joined.
LEMMA FlattenType ==
  ASSUME NEW S, NEW s \in Seq(Seq(S))
  PROVE  FlattenSeq(s) \in Seq(S)
<1> DEFINE T == {k \in 0..Len(s) : FlattenSeq(SubSeq(s, 1, k)) \notin Seq(S)}
<1>1. CASE T # {}
  <2>1. PICK k \in T : \A y \in T : ~(y < k)
    <3>1. T \subseteq Nat
      OBVIOUS
    <3> HIDE DEF T
    <3>2. QED
      BY <1>1, <3>1, LeastNatural
  <2>2. k \in 0..Len(s) /\ FlattenSeq(SubSeq(s, 1, k)) \notin Seq(S)
    OBVIOUS
  <2>3. k # 0
    BY <2>2, FirstNone, FlattenNone, EmptySeq
  <2>4. k \in 1..Len(s) /\ k - 1 \notin T /\ k - 1 \in 0..Len(s)
    <3> HIDE DEF T
    <3>1. k \in 1..Len(s) /\ k - 1 \in 0..Len(s) /\ k - 1 < k
      BY <2>2, <2>3
    <3>2. QED
      BY <2>1, <3>1
  <2>5. FlattenSeq(SubSeq(s, 1, k - 1)) \in Seq(S)
    BY <2>4
  <2> HIDE DEF T
  <2>6. FlattenSeq(SubSeq(s, 1, k)) = FlattenSeq(SubSeq(s, 1, k - 1)) \o s[k]
    <3>1. PICK c, x : c = SubSeq(s, 1, k - 1) /\ x = s[k]
      OBVIOUS
    <3>2. SubSeq(s, 1, k) = Append(c, x) /\ c \in Seq(Seq(S)) /\ x \in Seq(S)
      BY <2>4, <3>1, FirstGrows
    <3>3. FlattenSeq(Append(c, x)) = FlattenSeq(c) \o x
      BY <3>2, FlattenAppend
    <3>4. QED
      BY <3>1, <3>2, <3>3
  <2>7. s[k] \in Seq(S)
    BY <2>4, FirstGrows
  <2>8. QED
    BY <2>2, <2>5, <2>6, <2>7, ConcatProperties
<1>2. CASE T = {}
  <2>1. Len(s) \in 0..Len(s)
    OBVIOUS
  <2>2. FlattenSeq(SubSeq(s, 1, Len(s))) \in Seq(S)
    BY <1>2, <2>1
  <2>3. QED
    BY <2>2, SubSeqFull
<1>3. QED
  BY <1>1, <1>2

\* To join a concatenation is to concatenate what is joined.
LEMMA FlattenConcat ==
  ASSUME NEW S, NEW a \in Seq(Seq(S)), NEW b \in Seq(Seq(S))
  PROVE  FlattenSeq(a \o b) = FlattenSeq(a) \o FlattenSeq(b)
<1> DEFINE T == {k \in 0..Len(b) : FlattenSeq(a \o SubSeq(b, 1, k)) # FlattenSeq(a) \o FlattenSeq(SubSeq(b, 1, k))}
<1>a. FlattenSeq(a) \in Seq(S)
  BY FlattenType
<1>1. CASE T # {}
  <2>1. PICK k \in T : \A y \in T : ~(y < k)
    <3>1. T \subseteq Nat
      OBVIOUS
    <3> HIDE DEF T
    <3>2. QED
      BY <1>1, <3>1, LeastNatural
  <2>2. k \in 0..Len(b) /\ FlattenSeq(a \o SubSeq(b, 1, k)) # FlattenSeq(a) \o FlattenSeq(SubSeq(b, 1, k))
    OBVIOUS
  <2>3. k # 0
    <3>1. a \o <<>> = a /\ FlattenSeq(a) \o <<>> = FlattenSeq(a)
      BY <1>a, ConcatEmptySeq
    <3> HIDE DEF T
    <3>2. QED
      BY <2>2, <3>1, FirstNone, FlattenNone
  <2>4. k \in 1..Len(b) /\ k - 1 \notin T /\ k - 1 \in 0..Len(b)
    <3> HIDE DEF T
    <3>1. k \in 1..Len(b) /\ k - 1 \in 0..Len(b) /\ k - 1 < k
      BY <2>2, <2>3
    <3>2. QED
      BY <2>1, <3>1
  <2> DEFINE c == SubSeq(b, 1, k - 1)
  <2>5. FlattenSeq(a \o c) = FlattenSeq(a) \o FlattenSeq(c)
    BY <2>4
  <2>6. SubSeq(b, 1, k) = Append(c, b[k]) /\ c \in Seq(Seq(S)) /\ b[k] \in Seq(S)
    BY <2>4, FirstGrows
  <2> HIDE DEF T, c
  <2>7. a \o Append(c, b[k]) = Append(a \o c, b[k]) /\ a \o c \in Seq(Seq(S))
    <3> DEFINE U == Seq(S)
    <3>1. PICK x, y : x = b[k] /\ y = <<x>>
      OBVIOUS
    <3>2. a \in Seq(U) /\ c \in Seq(U) /\ x \in U /\ y \in Seq(U)
      BY <2>6, <3>1
    <3> HIDE DEF U
    <3>3. a \o c \in Seq(U)
      BY <3>2, ConcatProperties
    <3>4. (a \o c) \o y = a \o (c \o y)
      BY <3>2, ConcatAssociative, SMTT(60)
    <3>5. Append(c, x) = c \o <<x>> /\ Append(a \o c, x) = (a \o c) \o <<x>>
      BY <3>2, <3>3, AppendIsConcat
    <3>6. QED
      BY <3>1, <3>3, <3>4, <3>5 DEF U
  <2>8. /\ FlattenSeq(Append(a \o c, b[k])) = FlattenSeq(a \o c) \o b[k]
        /\ FlattenSeq(Append(c, b[k])) = FlattenSeq(c) \o b[k]
    BY <2>6, <2>7, FlattenAppend
  <2>9. FlattenSeq(c) \in Seq(S)
    BY <2>6, FlattenType
  <2>10. (FlattenSeq(a) \o FlattenSeq(c)) \o b[k] = FlattenSeq(a) \o (FlattenSeq(c) \o b[k])
    <3>1. PICK x \in Seq(S), y \in Seq(S), z \in Seq(S) : x = FlattenSeq(a) /\ y = FlattenSeq(c) /\ z = b[k]
      BY <1>a, <2>6, <2>9
    <3>2. (x \o y) \o z = x \o (y \o z)
      BY ConcatAssociative, SMTT(60)
    <3>3. QED
      BY <3>1, <3>2
  <2>11. QED
    BY <2>2, <2>5, <2>6, <2>7, <2>8, <2>10
<1>2. CASE T = {}
  <2>1. Len(b) \in 0..Len(b)
    OBVIOUS
  <2>2. FlattenSeq(a \o SubSeq(b, 1, Len(b))) = FlattenSeq(a) \o FlattenSeq(SubSeq(b, 1, Len(b)))
    BY <1>2, <2>1
  <2> HIDE DEF T
  <2>3. QED
    BY <2>2, SubSeqFull
<1>3. QED
  BY <1>1, <1>2

LEMMA FlattenOne == ASSUME NEW S, NEW x \in Seq(S) PROVE FlattenSeq(<<x>>) = x
<1>1. <<>> \in Seq(Seq(S)) /\ Append(<<>>, x) = <<x>> /\ <<>> \o x = x
  OBVIOUS
<1>2. QED
  BY <1>1, FlattenAppend, FlattenNone

\* Empty sequences join to the empty one.
LEMMA FlattenNothing ==
  ASSUME NEW S, NEW s \in Seq(Seq(S)), \A i \in 1..Len(s) : s[i] = <<>>
  PROVE  FlattenSeq(s) = <<>>
<1> DEFINE T == {k \in 0..Len(s) : FlattenSeq(SubSeq(s, 1, k)) # <<>>}
<1>1. CASE T # {}
  <2>1. PICK k \in T : \A y \in T : ~(y < k)
    <3>1. T \subseteq Nat
      OBVIOUS
    <3> HIDE DEF T
    <3>2. QED
      BY <1>1, <3>1, LeastNatural
  <2>2. k \in 0..Len(s) /\ FlattenSeq(SubSeq(s, 1, k)) # <<>>
    OBVIOUS
  <2>3. k # 0
    BY <2>2, FirstNone, FlattenNone
  <2>4. k \in 1..Len(s) /\ k - 1 \notin T /\ k - 1 \in 0..Len(s)
    <3> HIDE DEF T
    <3>1. k \in 1..Len(s) /\ k - 1 \in 0..Len(s) /\ k - 1 < k
      BY <2>2, <2>3
    <3>2. QED
      BY <2>1, <3>1
  <2>5. FlattenSeq(SubSeq(s, 1, k - 1)) = <<>> /\ s[k] = <<>>
    BY <2>4
  <2> HIDE DEF T
  <2>6. FlattenSeq(SubSeq(s, 1, k)) = FlattenSeq(SubSeq(s, 1, k - 1)) \o s[k]
    <3>1. /\ SubSeq(s, 1, k) = Append(SubSeq(s, 1, k - 1), s[k])
          /\ SubSeq(s, 1, k - 1) \in Seq(Seq(S)) /\ s[k] \in Seq(S)
      BY <2>4, FirstGrows
    <3>2. QED
      BY <3>1, FlattenAppend
  <2>7. <<>> \o <<>> = <<>>
    OBVIOUS
  <2>8. QED
    BY <2>2, <2>5, <2>6, <2>7
<1>2. CASE T = {}
  <2>1. Len(s) \in 0..Len(s)
    OBVIOUS
  <2>2. FlattenSeq(SubSeq(s, 1, Len(s))) = <<>>
    BY <1>2, <2>1
  <2>3. QED
    BY <2>2, SubSeqFull
<1>3. QED
  BY <1>1, <1>2

\* Joining lists of lists, inner or outer joints first.
LEMMA FlattenFlatten ==
  ASSUME NEW S, NEW p \in Seq(Seq(Seq(S)))
  PROVE  FlattenSeq(FlattenSeq(p)) = FlattenSeq([i \in 1..Len(p) |-> FlattenSeq(p[i])])
<1> DEFINE q == [i \in 1..Len(p) |-> FlattenSeq(p[i])]
           T == {k \in 0..Len(p) : FlattenSeq(FlattenSeq(SubSeq(p, 1, k))) # FlattenSeq(SubSeq(q, 1, k))}
<1>a. q \in Seq(Seq(S)) /\ Len(q) = Len(p)
  <2>1. \A i \in 1..Len(p) : FlattenSeq(p[i]) \in Seq(S)
    BY FlattenType
  <2>2. QED
    BY <2>1
<1>1. CASE T # {}
  <2>1. PICK k \in T : \A y \in T : ~(y < k)
    <3>1. T \subseteq Nat
      OBVIOUS
    <3> HIDE DEF T
    <3>2. QED
      BY <1>1, <3>1, LeastNatural
  <2>2. k \in 0..Len(p) /\ FlattenSeq(FlattenSeq(SubSeq(p, 1, k))) # FlattenSeq(SubSeq(q, 1, k))
    OBVIOUS
  <2>3. k # 0
    <3> HIDE DEF T, q
    <3>1. QED
      BY <2>2, FirstNone, FlattenNone
  <2>4. k \in 1..Len(p) /\ k - 1 \notin T /\ k - 1 \in 0..Len(p)
    <3> HIDE DEF T, q
    <3>1. k \in 1..Len(p) /\ k - 1 \in 0..Len(p) /\ k - 1 < k
      BY <2>2, <2>3
    <3>2. QED
      BY <2>1, <3>1
  <2> DEFINE c == SubSeq(p, 1, k - 1)
             d == SubSeq(q, 1, k - 1)
  <2>5. FlattenSeq(FlattenSeq(c)) = FlattenSeq(d)
    BY <2>4
  <2>6. SubSeq(p, 1, k) = Append(c, p[k]) /\ c \in Seq(Seq(Seq(S))) /\ p[k] \in Seq(Seq(S))
    BY <2>4, FirstGrows
  <2>7. SubSeq(q, 1, k) = Append(d, q[k]) /\ d \in Seq(Seq(S)) /\ q[k] \in Seq(S)
    <3> HIDE DEF q
    <3>1. QED
      BY <1>a, <2>4, FirstGrows
  <2>8. q[k] = FlattenSeq(p[k])
    BY <2>4
  <2> HIDE DEF T, c, d, q
  <2>9. FlattenSeq(Append(c, p[k])) = FlattenSeq(c) \o p[k] /\ FlattenSeq(c) \in Seq(Seq(S))
    BY <2>6, FlattenAppend, FlattenType
  <2>10. FlattenSeq(FlattenSeq(c) \o p[k]) = FlattenSeq(FlattenSeq(c)) \o FlattenSeq(p[k])
    BY <2>6, <2>9, FlattenConcat
  <2>11. FlattenSeq(Append(d, q[k])) = FlattenSeq(d) \o q[k]
    BY <2>7, FlattenAppend
  <2>12. QED
    BY <2>2, <2>5, <2>6, <2>7, <2>8, <2>9, <2>10, <2>11
<1>2. CASE T = {}
  <2>1. Len(p) \in 0..Len(p)
    OBVIOUS
  <2>2. FlattenSeq(FlattenSeq(SubSeq(p, 1, Len(p)))) = FlattenSeq(SubSeq(q, 1, Len(p)))
    BY <1>2, <2>1
  <2> HIDE DEF T, q
  <2>3. FlattenSeq(FlattenSeq(p)) = FlattenSeq(q)
    BY <1>a, <2>2, SubSeqFull
  <2>4. QED
    BY <2>3 DEF q
<1>3. QED
  BY <1>1, <1>2

-----------------------------------------------------------------------------
(* The marks of a line (Inked). *)

LEMMA InkLists ==
  ASSUME NEW s \in Seq(Int)
  PROVE  [i \in 1..Len(s) |-> Ink(s[i])] \in Seq(Seq(Int))
<1>1. \A i \in 1..Len(s) : Ink(s[i]) \in Seq(Int)
  BY DEF Ink
<1>2. QED
  BY <1>1

LEMMA InkedType == ASSUME NEW s \in Seq(Int) PROVE Inked(s) \in Seq(Int)
  BY InkLists, FlattenType DEF Inked

\* The marks of two lines are those of the first and then those of the second.
LEMMA InkedConcat ==
  ASSUME NEW s \in Seq(Int), NEW t \in Seq(Int)
  PROVE  Inked(s \o t) = Inked(s) \o Inked(t)
<1> DEFINE a == [i \in 1..Len(s) |-> Ink(s[i])]
           b == [i \in 1..Len(t) |-> Ink(t[i])]
           c == [i \in 1..Len(s \o t) |-> Ink((s \o t)[i])]
<1>1. a \in Seq(Seq(Int)) /\ b \in Seq(Seq(Int)) /\ c \in Seq(Seq(Int))
  BY InkLists, ConcatProperties
<1>2. Len(a) = Len(s) /\ Len(b) = Len(t) /\ Len(c) = Len(s) + Len(t) /\ Len(s) \in Nat /\ Len(t) \in Nat
  BY ConcatProperties
<1>a. /\ a \o b \in Seq(Seq(Int)) /\ Len(a \o b) = Len(a) + Len(b)
      /\ \A i \in 1..Len(a) + Len(b) : (a \o b)[i] = IF i <= Len(a) THEN a[i] ELSE b[i - Len(a)]
  <2> HIDE DEF a, b, c
  <2>1. QED
    BY <1>1, ConcatProperties
<1>3. ASSUME NEW i \in 1..Len(s) + Len(t) PROVE c[i] = (a \o b)[i]
  <2>1. CASE i <= Len(s)
    <3>1. (s \o t)[i] = s[i] /\ i \in 1..Len(s) /\ i \in 1..Len(s \o t)
      BY <2>1, ConcatProperties
    <3>2. a[i] = Ink(s[i]) /\ c[i] = Ink(s[i])
      BY <3>1
    <3> HIDE DEF a, b, c
    <3>3. QED
      BY <1>1, <1>2, <2>1, <3>2, ConcatProperties
  <2>2. CASE i > Len(s)
    <3>1. (s \o t)[i] = t[i - Len(s)] /\ i - Len(s) \in 1..Len(t) /\ i \in 1..Len(s \o t)
      BY <2>2, ConcatProperties
    <3>2. b[i - Len(s)] = Ink(t[i - Len(s)]) /\ c[i] = Ink(t[i - Len(s)])
      BY <3>1
    <3> HIDE DEF a, b, c
    <3>3. (a \o b)[i] = b[i - Len(a)]
      BY <1>a, <1>2, <2>2
    <3>4. QED
      BY <1>2, <3>2, <3>3
  <2>3. QED
    BY <1>2, <2>1, <2>2
<1> HIDE DEF a, b, c
<1>4. a \o b \in Seq(Seq(Int)) /\ Len(a \o b) = Len(s) + Len(t)
  BY <1>a, <1>2
<1>5. c = a \o b
  BY <1>1, <1>2, <1>3, <1>4, SeqEqual
<1>6. FlattenSeq(c) = FlattenSeq(a) \o FlattenSeq(b)
  BY <1>1, <1>5, FlattenConcat
<1>7. QED
  BY <1>6 DEF a, b, c, Inked

LEMMA InkedOne == ASSUME NEW r \in Int PROVE Inked(<<r>>) = Ink(r)
<1>1. [i \in 1..Len(<<r>>) |-> Ink(<<r>>[i])] = <<Ink(r)>>
  OBVIOUS
<1>2. Ink(r) \in Seq(Int)
  BY DEF Ink
<1>3. QED
  BY <1>1, <1>2, FlattenOne DEF Inked

\* A line of no marks shows none.
LEMMA InkedNothing ==
  ASSUME NEW s \in Seq(Int), \A i \in 1..Len(s) : ~(s[i] > 0)
  PROVE  Inked(s) = <<>>
<1> DEFINE a == [i \in 1..Len(s) |-> Ink(s[i])]
<1>1. a \in Seq(Seq(Int)) /\ Len(a) = Len(s)
  BY InkLists
<1>2. \A i \in 1..Len(a) : a[i] = <<>>
  BY <1>1 DEF Ink
<1> HIDE DEF a
<1>3. FlattenSeq(a) = <<>>
  BY <1>1, <1>2, FlattenNothing
<1>4. QED
  BY <1>3 DEF a, Inked

LEMMA InkedNone == Inked(<<>>) = <<>>
  BY FlattenNone DEF Inked

\* What the marks of joined lines are.
LEMMA InkedFlatten ==
  ASSUME NEW s \in Seq(Seq(Int))
  PROVE  Inked(FlattenSeq(s)) = FlattenSeq([i \in 1..Len(s) |-> Inked(s[i])])
<1> DEFINE q == [i \in 1..Len(s) |-> Inked(s[i])]
           T == {k \in 0..Len(s) : Inked(FlattenSeq(SubSeq(s, 1, k))) # FlattenSeq(SubSeq(q, 1, k))}
<1>a. q \in Seq(Seq(Int)) /\ Len(q) = Len(s)
  <2>1. \A i \in 1..Len(s) : Inked(s[i]) \in Seq(Int)
    BY InkedType
  <2>2. QED
    BY <2>1
<1>1. CASE T # {}
  <2>1. PICK k \in T : \A y \in T : ~(y < k)
    <3>1. T \subseteq Nat
      OBVIOUS
    <3> HIDE DEF T
    <3>2. QED
      BY <1>1, <3>1, LeastNatural
  <2>2. k \in 0..Len(s) /\ Inked(FlattenSeq(SubSeq(s, 1, k))) # FlattenSeq(SubSeq(q, 1, k))
    OBVIOUS
  <2>3. k # 0
    <3> HIDE DEF T, q
    <3>1. QED
      BY <2>2, FirstNone, FlattenNone, InkedNone
  <2>4. k \in 1..Len(s) /\ k - 1 \notin T /\ k - 1 \in 0..Len(s)
    <3> HIDE DEF T, q
    <3>1. k \in 1..Len(s) /\ k - 1 \in 0..Len(s) /\ k - 1 < k
      BY <2>2, <2>3
    <3>2. QED
      BY <2>1, <3>1
  <2> DEFINE c == SubSeq(s, 1, k - 1)
             d == SubSeq(q, 1, k - 1)
  <2>5. Inked(FlattenSeq(c)) = FlattenSeq(d)
    BY <2>4
  <2>6. SubSeq(s, 1, k) = Append(c, s[k]) /\ c \in Seq(Seq(Int)) /\ s[k] \in Seq(Int)
    BY <2>4, FirstGrows
  <2>7. SubSeq(q, 1, k) = Append(d, q[k]) /\ d \in Seq(Seq(Int)) /\ q[k] \in Seq(Int)
    <3> HIDE DEF q
    <3>1. QED
      BY <1>a, <2>4, FirstGrows
  <2>8. q[k] = Inked(s[k])
    BY <2>4
  <2> HIDE DEF T, c, d, q
  <2>9. FlattenSeq(Append(c, s[k])) = FlattenSeq(c) \o s[k] /\ FlattenSeq(c) \in Seq(Int)
    BY <2>6, FlattenAppend, FlattenType
  <2>10. Inked(FlattenSeq(c) \o s[k]) = Inked(FlattenSeq(c)) \o Inked(s[k])
    BY <2>6, <2>9, InkedConcat
  <2>11. FlattenSeq(Append(d, q[k])) = FlattenSeq(d) \o q[k]
    BY <2>7, FlattenAppend
  <2>12. QED
    BY <2>2, <2>5, <2>6, <2>7, <2>8, <2>9, <2>10, <2>11
<1>2. CASE T = {}
  <2>1. Len(s) \in 0..Len(s)
    OBVIOUS
  <2>2. Inked(FlattenSeq(SubSeq(s, 1, Len(s)))) = FlattenSeq(SubSeq(q, 1, Len(s)))
    BY <1>2, <2>1
  <2> HIDE DEF T, q
  <2>3. Inked(FlattenSeq(s)) = FlattenSeq(q)
    BY <1>a, <2>2, SubSeqFull
  <2>4. QED
    BY <2>3 DEF q
<1>3. QED
  BY <1>1, <1>2

\* The marks of lines, one after the other.
InkOf(lines) == Inked(FlattenSeq(lines))

\* What two pages show is what the first shows and then what the second does.
LEMMA InkOfConcat ==
  ASSUME NEW a \in Seq(Seq(Int)), NEW b \in Seq(Seq(Int))
  PROVE  InkOf(a \o b) = InkOf(a) \o InkOf(b) /\ InkOf(a) \in Seq(Int)
<1>1. FlattenSeq(a \o b) = FlattenSeq(a) \o FlattenSeq(b)
  BY FlattenConcat
<1>2. FlattenSeq(a) \in Seq(Int) /\ FlattenSeq(b) \in Seq(Int)
  BY FlattenType
<1>3. QED
  BY <1>1, <1>2, InkedConcat, InkedType DEF InkOf

LEMMA InkOfOne == ASSUME NEW l \in Seq(Int) PROVE InkOf(<<l>>) = Inked(l)
  BY FlattenOne DEF InkOf

LEMMA InkOfNone == InkOf(<<>>) = <<>>
  BY FlattenNone, InkedNone DEF InkOf

\* Pages whose lines show the same show the same.
LEMMA InkOfSame ==
  ASSUME NEW a \in Seq(Seq(Int)), NEW b \in Seq(Seq(Int)), Len(a) = Len(b),
         \A i \in 1..Len(a) : Inked(a[i]) = Inked(b[i])
  PROVE  InkOf(a) = InkOf(b)
<1>1. [i \in 1..Len(a) |-> Inked(a[i])] = [i \in 1..Len(b) |-> Inked(b[i])]
  OBVIOUS
<1>2. QED
  BY <1>1, InkedFlatten DEF InkOf

\* A page of lines that show nothing shows nothing.
LEMMA InkOfNothing ==
  ASSUME NEW a \in Seq(Seq(Int)), \A i \in 1..Len(a) : Inked(a[i]) = <<>>
  PROVE  InkOf(a) = <<>>
<1> DEFINE q == [i \in 1..Len(a) |-> Inked(a[i])]
<1>1. q \in Seq(Seq(Int)) /\ Len(q) = Len(a)
  <2>1. <<>> \in Seq(Int)
    OBVIOUS
  <2>2. \A i \in 1..Len(a) : Inked(a[i]) \in Seq(Int)
    BY <2>1
  <2>3. QED
    BY <2>2
<1>2. \A i \in 1..Len(q) : q[i] = <<>>
  BY <1>1
<1>3. InkOf(a) = FlattenSeq(q)
  BY InkedFlatten DEF InkOf
<1> HIDE DEF q
<1>4. QED
  BY <1>1, <1>2, <1>3, FlattenNothing

-----------------------------------------------------------------------------
(* Numbers. *)

\* The largest of some naturals up to a bound.
LEMMA Largest ==
  ASSUME NEW n \in Nat, NEW T, T \subseteq 0..n, T # {}
  PROVE  Max(T) \in T /\ \A y \in T : y <= Max(T)
<1> DEFINE D == {n - t : t \in T}
<1>1. PICK d \in D : \A y \in D : ~(y < d)
  <2>1. \A t \in T : n - t \in Nat
    <3>1. ASSUME NEW t \in T PROVE n - t \in Nat
      <4>1. t \in 0..n
        OBVIOUS
      <4>2. QED
        BY <4>1
    <3>2. QED
      BY <3>1
  <2>2. D \subseteq Nat /\ D # {}
    BY <2>1
  <2> HIDE DEF D
  <2>3. QED
    BY <2>2, LeastNatural
<1>2. PICK t \in T : d = n - t
  OBVIOUS
<1>3. \A y \in T : t >= y
  <2>1. ASSUME NEW y \in T PROVE t >= y
    <3>1. n - y \in D
      OBVIOUS
    <3> HIDE DEF D
    <3>2. ~(n - y < n - t)
      BY <1>1, <1>2, <3>1
    <3>3. n \in Nat /\ t \in 0..n /\ y \in 0..n
      BY <1>2
    <3>4. QED
      BY <3>2, <3>3
  <2>2. QED
    BY <2>1
<1>4. \E x \in T : \A y \in T : x >= y
  BY <1>3
<1>5. Max(T) \in T /\ \A y \in T : Max(T) >= y
  BY <1>4 DEF Max
<1>6. QED
  BY <1>5

\* The smallest of some naturals.
LEMMA Smallest ==
  ASSUME NEW T, T \subseteq Nat, T # {}
  PROVE  Min(T) \in T /\ \A y \in T : Min(T) <= y
<1>1. PICK x \in T : \A y \in T : ~(y < x)
  BY LeastNatural
<1>2. \A y \in T : x =< y
  BY <1>1
<1>3. Min(T) \in T /\ \A y \in T : Min(T) =< y
  BY <1>2 DEF Min
<1>4. QED
  BY <1>3

LEMMA MinTwo == ASSUME NEW a \in Int, NEW b \in Int PROVE Min({a, b}) = IF a <= b THEN a ELSE b
<1>1. \E x \in {a, b} : \A y \in {a, b} : x =< y
  OBVIOUS
<1>2. Min({a, b}) \in {a, b} /\ \A y \in {a, b} : Min({a, b}) =< y
  BY <1>1 DEF Min
<1>3. QED
  BY <1>2

LEMMA MaxTwo == ASSUME NEW a \in Int, NEW b \in Int PROVE Max({a, b}) = IF a >= b THEN a ELSE b
<1>1. \E x \in {a, b} : \A y \in {a, b} : x >= y
  OBVIOUS
<1>2. Max({a, b}) \in {a, b} /\ \A y \in {a, b} : Max({a, b}) >= y
  BY <1>1 DEF Max
<1>3. QED
  BY <1>2

-----------------------------------------------------------------------------
(* The text of a row (rowToString). *)

Rows(cols) == [0..cols - 1 -> Int]
Cells(row, cols) == [i \in 1..cols |-> row[i - 1]]

LEMMA CellsType == ASSUME NEW cols \in Nat, NEW row \in Rows(cols) PROVE Cells(row, cols) \in Seq(Int) /\ Len(Cells(row, cols)) = cols
<1>1. \A i \in 1..cols : row[i - 1] \in Int
  BY DEF Rows
<1>2. QED
  BY <1>1 DEF Cells

LEMMA GlyphLists ==
  ASSUME NEW cols \in Nat, NEW row \in Rows(cols), NEW n \in 0..cols
  PROVE  [i \in 1..n |-> Glyph(row[i - 1])] \in Seq(Seq(Int))
<1>1. \A i \in 1..n : Glyph(row[i - 1]) \in Seq(Int)
  BY DEF Glyph, Rows
<1>2. QED
  BY <1>1

LEMMA MarksIn == ASSUME NEW cols \in Nat, NEW row \in Rows(cols) PROVE Marks(row) = {c \in 0..cols - 1 : row[c] > 0}
  BY DEF Rows, Marks

\* The last mark of a row.
LEMMA LastMark ==
  ASSUME NEW cols \in Nat, NEW row \in Rows(cols), Marks(row) # {}
  PROVE  /\ Max(Marks(row)) \in 0..cols - 1 /\ row[Max(Marks(row))] > 0
         /\ \A c \in 0..cols - 1 : c > Max(Marks(row)) => ~(row[c] > 0)
<1>1. Marks(row) \subseteq 0..cols
  BY MarksIn
<1>2. Max(Marks(row)) \in Marks(row) /\ \A y \in Marks(row) : y <= Max(Marks(row))
  BY <1>1, Largest
<1>3. PICK m : m = Max(Marks(row))
  OBVIOUS
<1>4. m \in 0..cols - 1 /\ row[m] > 0
  BY <1>2, <1>3, MarksIn
<1>5. ASSUME NEW c \in 0..cols - 1, c > m PROVE ~(row[c] > 0)
  <2>1. c \in Marks(row) => c <= m
    BY <1>2, <1>3
  <2>2. c \notin Marks(row)
    BY <1>4, <1>5, <2>1
  <2>3. QED
    BY <2>2, MarksIn
<1>6. QED
  BY <1>3, <1>4, <1>5

\* A row of no marks is rendered as nothing.
LEMMA BlankText ==
  ASSUME NEW cols \in Nat, NEW row \in Rows(cols), Marks(row) = {}
  PROVE  rowToString(row) = <<>> /\ Inked(Cells(row, cols)) = <<>>
<1>1. Cells(row, cols) \in Seq(Int) /\ Len(Cells(row, cols)) = cols
  BY CellsType
<1>2. \A i \in 1..cols : ~(Cells(row, cols)[i] > 0)
  BY MarksIn DEF Cells
<1>3. QED
  BY <1>1, <1>2, InkedNothing DEF rowToString

\* A row is rendered as what its cells show, and as nothing only when it has no mark
\* (rowToString).
LEMMA RowText ==
  ASSUME NEW cols \in Nat, NEW row \in Rows(cols)
  PROVE  /\ rowToString(row) \in Seq(Int)
         /\ Inked(rowToString(row)) = Inked(Cells(row, cols))
         /\ rowToString(row) = <<>> <=> Marks(row) = {}
<1>1. CASE Marks(row) = {}
  <2>1. rowToString(row) = <<>> /\ Inked(Cells(row, cols)) = <<>>
    BY <1>1, BlankText
  <2>2. <<>> \in Seq(Int)
    OBVIOUS
  <2>3. QED
    BY <1>1, <2>1, <2>2, InkedNone
<1>2. CASE Marks(row) # {}
  <2>1. PICK n : n = Max(Marks(row)) + 1
    OBVIOUS
  <2>2. n \in 1..cols /\ row[n - 1] > 0 /\ \A c \in 0..cols - 1 : c > n - 1 => ~(row[c] > 0)
    <3>1. PICK m : m = Max(Marks(row))
      OBVIOUS
    <3>2. m \in 0..cols - 1 /\ row[m] > 0 /\ \A c \in 0..cols - 1 : c > m => ~(row[c] > 0)
      BY <1>2, <3>1, LastMark
    <3>3. n - 1 = m /\ n \in 1..cols
      BY <2>1, <3>1, <3>2
    <3>4. QED
      BY <3>2, <3>3
  <2> DEFINE g == [i \in 1..n |-> Glyph(row[i - 1])]
             h == [i \in 1..n - 1 |-> Glyph(row[i - 1])]
             k == [i \in 1..n |-> Inked(g[i])]
             a == [i \in 1..n |-> row[i - 1]]
             b == [i \in 1..cols - n |-> row[n + i - 1]]
  <2>3. rowToString(row) = FlattenSeq(g)
    BY <1>2, <2>1 DEF rowToString
  <2>4. g \in Seq(Seq(Int)) /\ h \in Seq(Seq(Int)) /\ Len(g) = n /\ Len(h) = n - 1
    <3>1. n \in 0..cols /\ n - 1 \in 0..cols
      BY <2>2
    <3>2. g \in Seq(Seq(Int)) /\ h \in Seq(Seq(Int))
      BY <3>1, GlyphLists
    <3>3. QED
      BY <2>2, <3>2
  <2>5. rowToString(row) \in Seq(Int)
    <3> HIDE DEF g
    <3>1. QED
      BY <2>3, <2>4, FlattenType
  <2>6. g = Append(h, <<row[n - 1]>>)
    <3>1. row[n - 1] \in Int /\ Glyph(row[n - 1]) = <<row[n - 1]>>
      BY <2>2 DEF Glyph, Half, Rows
    <3>2. QED
      BY <2>2, <3>1
  <2>7. rowToString(row) # <<>>
    <3> HIDE DEF g, h
    <3>1. <<row[n - 1]>> \in Seq(Int)
      BY <2>2 DEF Rows
    <3>2. FlattenSeq(g) = FlattenSeq(h) \o <<row[n - 1]>> /\ FlattenSeq(h) \in Seq(Int)
      BY <2>4, <2>6, <3>1, FlattenAppend, FlattenType
    <3>3. <<row[n - 1]>> # <<>>
      OBVIOUS
    <3>4. QED
      BY <2>3, <3>1, <3>2, <3>3, ConcatEqualIffEmpty
  <2>8. a \in Seq(Int) /\ b \in Seq(Int) /\ Len(a) = n /\ Len(b) = cols - n
    <3>1. \A i \in 1..n : row[i - 1] \in Int
      BY <2>2 DEF Rows
    <3>2. \A i \in 1..cols - n : row[n + i - 1] \in Int
      BY <2>2 DEF Rows
    <3>3. QED
      BY <2>2, <3>1, <3>2
  <2>9. Cells(row, cols) = a \o b
    <3>1. Cells(row, cols) \in Seq(Int) /\ Len(Cells(row, cols)) = cols
      BY CellsType
    <3>2. /\ a \o b \in Seq(Int) /\ Len(a \o b) = cols
          /\ \A i \in 1..cols : (a \o b)[i] = IF i <= n THEN a[i] ELSE b[i - n]
      <4> HIDE DEF a, b
      <4>1. /\ a \o b \in Seq(Int) /\ Len(a \o b) = Len(a) + Len(b)
            /\ \A i \in 1..Len(a) + Len(b) : (a \o b)[i] = IF i <= Len(a) THEN a[i] ELSE b[i - Len(a)]
        BY <2>8, ConcatProperties
      <4>2. Len(a) + Len(b) = cols
        BY <2>2, <2>8
      <4>3. a \o b \in Seq(Int) /\ Len(a \o b) = cols
        BY <4>1, <4>2
      <4>4. \A i \in 1..cols : (a \o b)[i] = IF i <= Len(a) THEN a[i] ELSE b[i - Len(a)]
        BY <4>1, <4>2
      <4>5. \A i \in 1..cols : (a \o b)[i] = IF i <= n THEN a[i] ELSE b[i - n]
        BY <2>8, <4>4
      <4>6. QED
        BY <4>3, <4>5
    <3>3. ASSUME NEW i \in 1..cols PROVE Cells(row, cols)[i] = (a \o b)[i]
      <4>1. Cells(row, cols)[i] = row[i - 1]
        BY DEF Cells
      <4>2. CASE i <= n
        <5>1. a[i] = row[i - 1]
          BY <4>2
        <5> HIDE DEF a, b
        <5>2. (a \o b)[i] = a[i]
          BY <3>2, <4>2
        <5>3. QED
          BY <4>1, <5>1, <5>2
      <4>3. CASE i > n
        <5>1. b[i - n] = row[n + (i - n) - 1] /\ n + (i - n) - 1 = i - 1
          BY <2>2, <4>3
        <5> HIDE DEF a, b
        <5>2. (a \o b)[i] = b[i - n]
          <6>1. ~(i <= n)
            BY <2>2, <4>3
          <6>2. QED
            BY <3>2, <6>1
        <5>3. QED
          BY <4>1, <5>1, <5>2
      <4>4. QED
        BY <2>2, <4>2, <4>3
    <3> HIDE DEF a, b
    <3>4. QED
      BY <3>1, <3>2, <3>3, SeqEqual
  <2>10. Inked(b) = <<>>
    <3>1. \A i \in 1..cols - n : ~(b[i] > 0)
      BY <2>2
    <3> HIDE DEF b
    <3>2. QED
      BY <2>8, <3>1, InkedNothing
  <2>11. Inked(Cells(row, cols)) = Inked(a)
    <3> HIDE DEF a, b
    <3>1. Inked(a \o b) = Inked(a) \o <<>> /\ Inked(a) \in Seq(Int)
      BY <2>8, <2>10, InkedConcat, InkedType
    <3>2. QED
      BY <2>9, <3>1, ConcatEmptySeq
  <2>12. \A i \in 1..n : Inked(g[i]) = Ink(a[i])
    <3>1. ASSUME NEW i \in 1..n PROVE Inked(g[i]) = Ink(a[i])
      <4>1. PICK r \in Int : r = row[i - 1]
        BY <2>2 DEF Rows
      <4>2. Inked(Glyph(r)) = Ink(r)
        BY InkedOne, InkedNone DEF Glyph, Half, Ink
      <4>3. g[i] = Glyph(r) /\ a[i] = r
        BY <4>1
      <4>4. QED
        BY <4>2, <4>3
    <3>2. QED
      BY <3>1
  <2>13. Inked(FlattenSeq(g)) = Inked(a)
    <3>1. [i \in 1..Len(g) |-> Inked(g[i])] = [i \in 1..Len(a) |-> Ink(a[i])]
      <4> HIDE DEF g, a
      <4>1. QED
        BY <2>4, <2>8, <2>12
    <3> HIDE DEF g, a
    <3>2. QED
      BY <2>4, <3>1, InkedFlatten DEF Inked
  <2>14. QED
    BY <1>2, <2>3, <2>5, <2>7, <2>11, <2>13
<1>3. QED
  BY <1>1, <1>2

-----------------------------------------------------------------------------
(* The pieces of a line (Split). *)

\* How many pieces a line is cut into.
LEMMA Ceiling ==
  ASSUME NEW a \in Nat, NEW c \in Nat \ {0}, a > c
  PROVE  LET n == (a + c - 1) \div c
         IN  n \in Nat /\ n > 0 /\ n * c >= a /\ (n - 1) * c < a
<1>1. PICK n : n = (a + c - 1) \div c
  OBVIOUS
<1>2. n \in Int /\ n * c <= a + c - 1 /\ a + c - 1 < n * c + c
  BY <1>1
<1>3. (n - 1) * c = n * c - c
  BY <1>2
<1>4. n > 0
  BY <1>2
<1>5. QED
  BY <1>1, <1>2, <1>3, <1>4

LEMMA ProductGrows == ASSUME NEW c \in Nat, NEW i \in Nat, NEW j \in Nat, i <= j PROVE i * c <= j * c
  OBVIOUS

LEMMA ProductSteps == ASSUME NEW c \in Nat, NEW i \in Nat \ {0} PROVE i * c = (i - 1) * c + c
  OBVIOUS

\* A part of a sequence, by its elements.
LEMMA Slice ==
  ASSUME NEW S, NEW s \in Seq(S), NEW a \in Nat, NEW b \in Nat, a <= b, b <= Len(s)
  PROVE  /\ SubSeq(s, a + 1, b) \in Seq(S) /\ Len(SubSeq(s, a + 1, b)) = b - a
         /\ \A i \in 1..b - a : SubSeq(s, a + 1, b)[i] = s[a + i]
<1>1. PICK m \in Int : m = a + 1
  OBVIOUS
<1>2. \A i \in m..b : s[i] \in S
  BY <1>1
<1>3. /\ SubSeq(s, m, b) \in Seq(S)
      /\ Len(SubSeq(s, m, b)) = IF m <= b THEN b - m + 1 ELSE 0
      /\ \A i \in 1..b - m + 1 : SubSeq(s, m, b)[i] = s[m + i - 1]
  BY <1>2, SubSeqProperties
<1>4. b - m + 1 = b - a
  BY <1>1
<1>5. ASSUME NEW i \in 1..b - a PROVE SubSeq(s, m, b)[i] = s[a + i]
  <2>1. m + i - 1 = a + i
    BY <1>1
  <2>2. QED
    BY <1>3, <1>4, <2>1
<1>6. QED
  BY <1>1, <1>3, <1>4, <1>5

\* The pieces of a line join to the line, and none is too long (Split).
LEMMA SplitWhole ==
  ASSUME NEW line \in Seq(Int), NEW cols \in Nat \ {0}
  PROVE  /\ Split(line, cols) \in Seq(Seq(Int)) /\ FlattenSeq(Split(line, cols)) = line
         /\ \A i \in 1..Len(Split(line, cols)) : Len(Split(line, cols)[i]) <= cols
<1>a. PICK len \in Nat : len = Len(line)
  OBVIOUS
<1>1. CASE len <= cols
  <2>1. Split(line, cols) = <<line>>
    BY <1>a, <1>1 DEF Split
  <2>2. QED
    BY <1>a, <1>1, <2>1, FlattenOne
<1>2. CASE len > cols
  <2> DEFINE q(i) == SubSeq(line, (i - 1) * cols + 1, Min({i * cols, len}))
  <2>1. PICK n : n = (len + cols - 1) \div cols
    OBVIOUS
  <2>2. n \in Nat /\ n > 0 /\ n * cols >= len /\ (n - 1) * cols < len
    BY <1>2, <2>1, Ceiling
  <2> DEFINE p == [i \in 1..n |-> q(i)]
  <2>3. Split(line, cols) = p
    BY <1>a, <1>2, <2>1 DEF Split
  \* Where piece i begins and ends.
  <2>4. ASSUME NEW i \in 1..n
        PROVE  \E a \in 0..len, b \in 0..len :
                  /\ a < b /\ b <= a + cols /\ a = (i - 1) * cols /\ b = Min({i * cols, len})
                  /\ (i # n => b = i * cols) /\ (i = n => b = len)
    <3>1. i \in Nat /\ n - 1 \in Nat /\ i - 1 \in Nat /\ i - 1 <= n - 1
      BY <2>2
    <3>2. (i - 1) * cols <= (n - 1) * cols /\ i * cols = (i - 1) * cols + cols
      <4>1. PICK u \in Nat, w \in Nat : u = i - 1 /\ w = n - 1 /\ u <= w
        BY <3>1
      <4>2. u * cols <= w * cols
        BY <4>1, ProductGrows
      <4>3. i * cols = (i - 1) * cols + cols
        BY <3>1, ProductSteps
      <4>4. QED
        BY <4>1, <4>2, <4>3
    <3>3. i # n => i * cols <= (n - 1) * cols
      <4>1. SUFFICES ASSUME i # n PROVE i * cols <= (n - 1) * cols
        OBVIOUS
      <4>2. PICK w \in Nat : w = n - 1 /\ i <= w
        BY <2>2, <3>1, <4>1
      <4>3. i * cols <= w * cols
        BY <3>1, <4>2, ProductGrows
      <4>4. QED
        BY <4>2, <4>3
    <3>4. PICK a \in Nat, b \in Nat, z \in Nat, w \in Nat : a = (i - 1) * cols /\ b = i * cols /\ z = (n - 1) * cols /\ w = n * cols
      BY <2>2, <3>1
    <3>5. Min({b, len}) = IF b <= len THEN b ELSE len
      BY MinTwo
    <3>6. i = n => w = b
      BY <3>4
    <3>7. PICK e : e = Min({b, len})
      OBVIOUS
    <3>8. a < len /\ b = a + cols /\ (i # n => b < len) /\ (i = n => b >= len)
      BY <2>2, <3>2, <3>3, <3>4, <3>6
    <3>9. a \in 0..len /\ e \in 0..len /\ a < e /\ e <= a + cols /\ (i # n => e = b) /\ (i = n => e = len)
      BY <3>5, <3>7, <3>8
    <3>10. QED
      BY <3>4, <3>7, <3>9
  <2>5. ASSUME NEW i \in 1..n PROVE q(i) \in Seq(Int) /\ Len(q(i)) <= cols
    <3>1. PICK a \in 0..len, b \in 0..len : a < b /\ b <= a + cols /\ a = (i - 1) * cols /\ b = Min({i * cols, len})
      BY <2>4
    <3>2. q(i) = SubSeq(line, a + 1, b)
      BY <3>1
    <3> HIDE DEF q
    <3>4. SubSeq(line, a + 1, b) \in Seq(Int) /\ Len(SubSeq(line, a + 1, b)) = b - a
      <4>1. a \in Nat /\ b \in Nat /\ a <= b /\ b <= Len(line)
        BY <1>a, <3>1
      <4>2. QED
        BY <4>1, Slice
    <3>5. b - a <= cols
      BY <3>1
    <3>6. QED
      BY <3>2, <3>4, <3>5
  <2>6. p \in Seq(Seq(Int)) /\ Len(p) = n
    <3> HIDE DEF q
    <3>1. QED
      BY <2>2, <2>5
  <2> DEFINE T == {k \in 1..n : FlattenSeq(SubSeq(p, 1, k)) # SubSeq(line, 1, Min({k * cols, len}))}
  <2>7. T = {}
    <3>1. SUFFICES ASSUME T # {} PROVE FALSE
      OBVIOUS
    <3>2. PICK k \in T : \A y \in T : ~(y < k)
      <4>1. T \subseteq Nat
        OBVIOUS
      <4> HIDE DEF T
      <4>2. QED
        BY <3>1, <4>1, LeastNatural
    <3>3. k \in 1..n /\ FlattenSeq(SubSeq(p, 1, k)) # SubSeq(line, 1, Min({k * cols, len}))
      OBVIOUS
    <3>4. k # 1 => k - 1 \in 1..n /\ FlattenSeq(SubSeq(p, 1, k - 1)) = SubSeq(line, 1, Min({(k - 1) * cols, len}))
      <4>1. SUFFICES ASSUME k # 1 PROVE k - 1 \in 1..n /\ k - 1 \notin T
        OBVIOUS
      <4> HIDE DEF T, p, q
      <4>2. k - 1 \in 1..n /\ k - 1 < k
        BY <2>2, <3>3, <4>1
      <4>3. QED
        BY <3>2, <4>2
    <3> HIDE DEF T
    <3>5. PICK a \in 0..len, b \in 0..len :
             a < b /\ a = (k - 1) * cols /\ b = Min({k * cols, len})
      BY <2>4, <3>3
    <3>6. p[k] = SubSeq(line, a + 1, b)
      BY <3>3, <3>5
    <3> HIDE DEF q, p
    <3>7. FlattenSeq(SubSeq(p, 1, k)) = FlattenSeq(SubSeq(p, 1, k - 1)) \o p[k]
      <4>1. /\ SubSeq(p, 1, k) = Append(SubSeq(p, 1, k - 1), p[k])
            /\ SubSeq(p, 1, k - 1) \in Seq(Seq(Int)) /\ p[k] \in Seq(Int)
        BY <2>6, <3>3, FirstGrows
      <4>2. QED
        BY <4>1, FlattenAppend
    <3>8. FlattenSeq(SubSeq(p, 1, k - 1)) = SubSeq(line, 1, a)
      <4>1. CASE k = 1
        <5>1. a = 0 /\ k - 1 = 0
          BY <3>5, <4>1
        <5>2. SubSeq(p, 1, 0) = <<>> /\ SubSeq(line, 1, 0) = <<>>
          BY FirstNone
        <5>3. QED
          BY <5>1, <5>2, FlattenNone
      <4>2. CASE k # 1
        <5>1. Min({a, len}) = a
          BY MinTwo
        <5>2. QED
          BY <3>4, <3>5, <4>2, <5>1
      <4>3. QED
        BY <4>1, <4>2
    <3>9. SubSeq(line, 1, a) \o SubSeq(line, a + 1, b) = SubSeq(line, 1, b)
      <4>1. 1 \in 1..Len(line) + 1 /\ a \in 1 - 1..Len(line) /\ b \in a..Len(line)
        BY <1>a, <3>5
      <4>2. QED
        BY <4>1, ConcatAdjacentSubSeq
    <3>10. QED
      BY <3>3, <3>5, <3>6, <3>7, <3>8, <3>9
  <2>8. FlattenSeq(p) = line
    <3>1. n \in 1..n
      BY <2>2
    <3>2. FlattenSeq(SubSeq(p, 1, n)) = SubSeq(line, 1, Min({n * cols, len}))
      BY <2>7, <3>1
    <3>3. Min({n * cols, len}) = len
      <4>1. PICK b \in 0..len : b = Min({n * cols, len}) /\ b = len
        BY <2>4, <3>1
      <4>2. QED
        BY <4>1
    <3> HIDE DEF T, p, q
    <3>4. QED
      BY <1>a, <2>6, <3>2, <3>3, SubSeqFull
  <2>9. \A i \in 1..n : Len(p[i]) <= cols
    <3> HIDE DEF q
    <3>1. QED
      BY <2>5
  <2> HIDE DEF p, q, T
  <2>10. QED
    BY <2>3, <2>6, <2>8, <2>9
<1>3. QED
  BY <1>1, <1>2

-----------------------------------------------------------------------------
(* The lines that are kept (appendHistoryLines). *)

\* A list's first and last lines, m at most.
FirstOf(s, m) == SubSeq(s, 1, Min({m, Len(s)}))
LastOf(s, m) == SubSeq(s, Len(s) - Min({m, Len(s)}) + 1, Len(s))

\* The first elements of a sequence.
LEMMA FirstOfIs ==
  ASSUME NEW S, NEW s \in Seq(S), NEW m \in Nat
  PROVE  /\ FirstOf(s, m) \in Seq(S) /\ Len(FirstOf(s, m)) = IF m <= Len(s) THEN m ELSE Len(s)
         /\ \A i \in 1..Len(FirstOf(s, m)) : FirstOf(s, m)[i] = s[i]
<1>1. PICK n \in Nat : n = Len(s)
  OBVIOUS
<1>2. PICK k \in Nat : k = Min({m, n}) /\ k = IF m <= n THEN m ELSE n
  BY MinTwo
<1>3. /\ SubSeq(s, 0 + 1, k) \in Seq(S) /\ Len(SubSeq(s, 0 + 1, k)) = k - 0
      /\ \A i \in 1..k - 0 : SubSeq(s, 0 + 1, k)[i] = s[0 + i]
  <2>1. 0 \in Nat /\ k \in Nat /\ 0 <= k /\ k <= Len(s)
    BY <1>1, <1>2
  <2>2. QED
    BY <2>1, Slice
<1>4. FirstOf(s, m) = SubSeq(s, 0 + 1, k)
  BY <1>1, <1>2 DEF FirstOf
<1>5. k - 0 = k /\ \A i \in 1..k : 0 + i = i
  BY <1>2
<1>6. QED
  BY <1>1, <1>2, <1>3, <1>4, <1>5

\* The last elements of a sequence.
LEMMA LastOfIs ==
  ASSUME NEW S, NEW s \in Seq(S), NEW m \in Nat
  PROVE  /\ LastOf(s, m) \in Seq(S) /\ Len(LastOf(s, m)) = IF m <= Len(s) THEN m ELSE Len(s)
         /\ \A i \in 1..Len(LastOf(s, m)) : LastOf(s, m)[i] = s[Len(s) - Len(LastOf(s, m)) + i]
<1>1. PICK n \in Nat : n = Len(s)
  OBVIOUS
<1>2. PICK k \in Nat : k = Min({m, n}) /\ k = IF m <= n THEN m ELSE n
  BY MinTwo
<1>3. PICK a \in Nat : a = n - k /\ n - a = k
  BY <1>2
<1>4. /\ SubSeq(s, a + 1, n) \in Seq(S) /\ Len(SubSeq(s, a + 1, n)) = n - a
      /\ \A i \in 1..n - a : SubSeq(s, a + 1, n)[i] = s[a + i]
  <2>1. a \in Nat /\ n \in Nat /\ a <= n /\ n <= Len(s)
    BY <1>1, <1>2, <1>3
  <2>2. QED
    BY <2>1, Slice
<1>5. LastOf(s, m) = SubSeq(s, a + 1, n)
  BY <1>1, <1>2, <1>3 DEF LastOf
<1>6. PICK t : t = LastOf(s, m) /\ t \in Seq(S) /\ Len(t) = k /\ \A i \in 1..k : t[i] = s[a + i]
  BY <1>3, <1>4, <1>5
<1>7. k = (IF m <= Len(s) THEN m ELSE Len(s)) /\ Len(s) - k = a
  BY <1>1, <1>2, <1>3
<1>8. \A i \in 1..Len(t) : t[i] = s[Len(s) - Len(t) + i]
  BY <1>6, <1>7
<1>9. Len(t) = IF m <= Len(s) THEN m ELSE Len(s)
  BY <1>6, <1>7
<1>10. QED
  BY <1>6, <1>8, <1>9

\* The first lines of a longer log, when head is filled up.
LEMMA FirstGrow ==
  ASSUME NEW S, NEW s \in Seq(S), NEW t \in Seq(S), NEW m \in Nat
  PROVE  FirstOf(s, m) \o FirstOf(t, m - Len(FirstOf(s, m))) = FirstOf(s \o t, m)
<1>1. PICK n \in Nat, k \in Nat : n = Len(s) /\ k = Len(t)
  OBVIOUS
<1> DEFINE a == FirstOf(s, m)
           b == FirstOf(t, m - Len(a))
           c == FirstOf(s \o t, m)
<1>2. a \in Seq(S) /\ Len(a) = (IF m <= n THEN m ELSE n) /\ \A i \in 1..Len(a) : a[i] = s[i]
  BY <1>1, FirstOfIs
<1>3. PICK l \in Nat : l = m - Len(a)
  <2> HIDE DEF a
  <2>1. Len(a) \in Nat /\ Len(a) <= m
    BY <1>2
  <2>2. m - Len(a) \in Nat
    BY <2>1
  <2>3. QED
    BY <2>2
<1>4. b \in Seq(S) /\ Len(b) = (IF l <= k THEN l ELSE k) /\ \A i \in 1..Len(b) : b[i] = t[i]
  BY <1>1, <1>3, FirstOfIs
<1>5. s \o t \in Seq(S) /\ Len(s \o t) = n + k /\ \A i \in 1..n + k : (s \o t)[i] = IF i <= n THEN s[i] ELSE t[i - n]
  BY <1>1, ConcatProperties
<1>6. c \in Seq(S) /\ Len(c) = (IF m <= n + k THEN m ELSE n + k) /\ \A i \in 1..Len(c) : c[i] = (s \o t)[i]
  BY <1>5, FirstOfIs
<1> HIDE DEF a, b, c
<1>7. a \o b \in Seq(S) /\ Len(a \o b) = Len(a) + Len(b)
      /\ \A i \in 1..Len(a) + Len(b) : (a \o b)[i] = IF i <= Len(a) THEN a[i] ELSE b[i - Len(a)]
  BY <1>2, <1>4, ConcatProperties
<1>8. Len(a) + Len(b) = Len(c)
  BY <1>2, <1>3, <1>4, <1>6
<1>9. ASSUME NEW i \in 1..Len(c) PROVE (a \o b)[i] = c[i]
  <2>1. CASE i <= Len(a)
    <3>1. i <= n /\ i \in 1..Len(a) /\ i \in 1..n + k /\ i \in 1..Len(a) + Len(b)
      BY <1>2, <1>4, <1>6, <1>8, <2>1
    <3>2. c[i] = s[i] /\ (a \o b)[i] = a[i] /\ a[i] = s[i]
      BY <1>2, <1>5, <1>6, <1>7, <2>1, <3>1
    <3>3. QED
      BY <3>2
  <2>2. CASE i > Len(a)
    <3>1. /\ i > n /\ i - n \in 1..Len(b) /\ i - Len(a) = i - n /\ i \in 1..n + k /\ i \in 1..Len(a) + Len(b)
      BY <1>2, <1>3, <1>4, <1>6, <1>8, <2>2
    <3>2. ~(i <= n) /\ ~(i <= Len(a))
      BY <1>2, <2>2, <3>1
    <3>3. c[i] = t[i - n] /\ (a \o b)[i] = b[i - n] /\ b[i - n] = t[i - n]
      BY <1>4, <1>5, <1>6, <1>7, <3>1, <3>2
    <3>4. QED
      BY <3>3
  <2>3. i \in Nat /\ Len(a) \in Nat
    BY <1>2, <1>6
  <2>4. i <= Len(a) \/ i > Len(a)
    BY <2>3
  <2>5. QED
    BY <2>1, <2>2, <2>4, Zenon
<1>10. a \o b = c
  BY <1>6, <1>7, <1>8, <1>9, SeqEqual
<1>11. QED
  BY <1>10 DEF a, b, c

\* The last lines of a longer log, from the last ones before.
LEMMA LastGrow ==
  ASSUME NEW S, NEW s \in Seq(S), NEW t \in Seq(S), NEW m \in Nat
  PROVE  LastOf(LastOf(s, m) \o t, m) = LastOf(s \o t, m)
<1>1. PICK n \in Nat, k \in Nat : n = Len(s) /\ k = Len(t)
  OBVIOUS
<1> DEFINE a == LastOf(s, m)
           b == LastOf(a \o t, m)
           c == LastOf(s \o t, m)
<1>a. a \in Seq(S) /\ Len(a) = (IF m <= n THEN m ELSE n) /\ \A i \in 1..Len(a) : a[i] = s[n - Len(a) + i]
  BY <1>1, LastOfIs
<1>b. Len(a) \in Nat
  BY <1>1, <1>a
<1>2. PICK l \in Nat : l = Len(a) /\ l = IF m <= n THEN m ELSE n
  <2> HIDE DEF a
  <2>1. QED
    BY <1>a, <1>b
<1>3. a \in Seq(S) /\ \A i \in 1..l : a[i] = s[n - l + i]
  <2> HIDE DEF a
  <2>1. QED
    BY <1>a, <1>2
<1>4. s \o t \in Seq(S) /\ Len(s \o t) = n + k /\ \A i \in 1..n + k : (s \o t)[i] = IF i <= n THEN s[i] ELSE t[i - n]
  BY <1>1, ConcatProperties
<1>5. a \o t \in Seq(S) /\ Len(a \o t) = l + k /\ \A i \in 1..l + k : (a \o t)[i] = IF i <= l THEN a[i] ELSE t[i - l]
  <2> HIDE DEF a
  <2>1. a \o t \in Seq(S) /\ Len(a \o t) = Len(a) + Len(t)
        /\ \A i \in 1..Len(a) + Len(t) : (a \o t)[i] = IF i <= Len(a) THEN a[i] ELSE t[i - Len(a)]
    BY <1>3, ConcatProperties
  <2>2. QED
    BY <1>1, <1>2, <2>1
<1>6. PICK h \in Nat : h = IF m <= n + k THEN m ELSE n + k
  BY <1>1
<1>7. h = IF m <= l + k THEN m ELSE l + k
  BY <1>2, <1>6
<1>8. b \in Seq(S) /\ Len(b) = h /\ \A i \in 1..h : b[i] = (a \o t)[l + k - h + i]
  <2> HIDE DEF a
  <2>1. b \in Seq(S) /\ Len(b) = h
    BY <1>5, <1>7, LastOfIs
  <2>2. \A i \in 1..Len(b) : b[i] = (a \o t)[Len(a \o t) - Len(b) + i]
    BY <1>5, LastOfIs
  <2> HIDE DEF b
  <2>3. Len(a \o t) - Len(b) = l + k - h
    BY <1>5, <2>1
  <2>4. QED
    BY <2>1, <2>2, <2>3
<1>9. c \in Seq(S) /\ Len(c) = h /\ \A i \in 1..h : c[i] = (s \o t)[n + k - h + i]
  <2>1. c \in Seq(S) /\ Len(c) = h
    BY <1>4, <1>6, LastOfIs
  <2>2. \A i \in 1..Len(c) : c[i] = (s \o t)[Len(s \o t) - Len(c) + i]
    BY <1>4, LastOfIs
  <2> HIDE DEF c
  <2>3. Len(s \o t) - Len(c) = n + k - h
    BY <1>4, <2>1
  <2>4. QED
    BY <2>1, <2>2, <2>3
<1> HIDE DEF a, b, c
<1>10. ASSUME NEW i \in 1..h PROVE b[i] = c[i]
  <2>a. l + k - h + i \in Nat
    BY <1>7
  <2>1. PICK j \in Nat : j = l + k - h + i
    BY <2>a
  <2>b. n + k - h + i \in Nat
    BY <1>6
  <2>2. PICK g \in Nat : g = n + k - h + i
    BY <2>b
  <2>c. g = n - l + j
    BY <2>1, <2>2
  <2>3. j \in 1..l + k /\ g \in 1..n + k /\ (j <= l => g <= n) /\ (j > l => ~(g <= n) /\ j - l = g - n /\ ~(j <= l))
    BY <1>2, <1>6, <1>7, <2>1, <2>2, <2>c
  <2>4. b[i] = (a \o t)[j] /\ c[i] = (s \o t)[g]
    BY <1>8, <1>9, <2>1, <2>2
  <2>5. CASE j <= l
    <3>1. (a \o t)[j] = a[j] /\ a[j] = s[g] /\ (s \o t)[g] = s[g]
      <4>1. j \in 1..l /\ g <= n
        BY <2>3, <2>5
      <4>2. QED
        BY <1>3, <1>4, <1>5, <2>2, <2>c, <2>3, <2>5, <4>1
    <3>2. QED
      BY <2>4, <3>1
  <2>6. CASE j > l
    <3>1. (a \o t)[j] = t[j - l] /\ (s \o t)[g] = t[g - n] /\ j - l = g - n
      BY <1>4, <1>5, <2>3, <2>6
    <3>2. QED
      BY <2>4, <3>1
  <2>7. QED
    BY <1>2, <2>1, <2>5, <2>6
<1>11. b = c
  BY <1>8, <1>9, <1>10, SeqEqual
<1>12. QED
  BY <1>11 DEF a, b, c

\* What does not fit into the last m.
LEMMA LastExcess ==
  ASSUME NEW S, NEW s \in Seq(S), NEW m \in Nat
  PROVE  /\ Max({0, Len(s) - m}) = Len(s) - Len(LastOf(s, m))
         /\ SubSeq(s, Len(s) - Len(LastOf(s, m)) + 1, Len(s)) = LastOf(s, m)
<1>1. PICK n \in Nat, l \in Nat : n = Len(s) /\ l = Len(LastOf(s, m)) /\ l = IF m <= n THEN m ELSE n
  <2>1. Len(s) \in Nat
    OBVIOUS
  <2>2. LastOf(s, m) \in Seq(S) /\ Len(LastOf(s, m)) = IF m <= Len(s) THEN m ELSE Len(s)
    BY LastOfIs
  <2>3. Len(LastOf(s, m)) \in Nat
    BY <2>2
  <2>4. QED
    BY <2>1, <2>2, <2>3
<1>2. Min({m, n}) = l
  BY <1>1, MinTwo
<1>3. LastOf(s, m) = SubSeq(s, n - l + 1, n)
  BY <1>1, <1>2 DEF LastOf
<1>4. PICK d \in Int : d = n - m
  <2>1. n - m \in Int
    OBVIOUS
  <2>2. QED
    BY <2>1
<1>5. Max({0, d}) = n - l
  <2>1. Max({0, d}) = IF 0 >= d THEN 0 ELSE d
    BY MaxTwo
  <2>2. QED
    BY <1>1, <1>4, <2>1
<1>6. QED
  BY <1>1, <1>3, <1>4, <1>5

-----------------------------------------------------------------------------
(* The terminal. *)

Fields == {"cols", "rows", "x", "y", "savedX", "savedY", "screen", "history", "head", "dropped", "wrapPending",
           "pendingRow", "pendingText", "committedRows", "ink", "log", "strayed", "lost"}

\* The screen and the transcript, whose committed rows are blank.
Shaped(v) ==
  /\ DOMAIN v = Fields
  /\ v.cols \in Nat \ {0} /\ v.rows \in Nat \ {0}
  /\ v.screen \in [0..v.rows - 1 -> Rows(v.cols)]
  /\ v.log \in Seq(Seq(Int))
  /\ v.committedRows \in 0..v.rows
  /\ \A r \in 0..v.committedRows - 1 : Marks(v.screen[r]) = {}

\* An erase that is pending has blanked a row and keeps its text.
Erasing(v) ==
  /\ v.pendingText \in Seq(Int)
  /\ v.pendingRow # NoRow =>
       v.pendingRow \in 0..v.rows - 1 /\ Marks(v.screen[v.pendingRow]) = {} /\ v.pendingText # <<>>

\* What is kept of the lines.
Kept(v) ==
  /\ v.head = FirstOf(v.log, MaxHistory) /\ v.history = LastOf(v.log, MaxHistory)
  /\ v.dropped = Len(v.log) - Len(v.history)

Sound(v) == Shaped(v) /\ Erasing(v) /\ Kept(v)

\* The cursor, which nothing but moves of it changes.
Seat(v) == <<v.cols, v.rows, v.x, v.y, v.savedX, v.savedY>>

LEMMA MaxHistoryNat == MaxHistory \in Nat /\ MaxHistory > 0 /\ TabStop \in Nat /\ TabStop > 0 /\ MaxInt \in Nat
  BY TerminalAssumption

\* What a step may have changed without a word in the transcript.
Alike(v, w) ==
  /\ DOMAIN w = Fields
  /\ w.cols = v.cols /\ w.rows = v.rows /\ w.screen = v.screen
  /\ w.history = v.history /\ w.head = v.head /\ w.dropped = v.dropped /\ w.log = v.log
  /\ w.pendingRow = v.pendingRow /\ w.pendingText = v.pendingText /\ w.committedRows = v.committedRows

LEMMA AlikeSound ==
  ASSUME NEW v, NEW w, Sound(v), Alike(v, w)
  PROVE  Sound(w) /\ Shown(w) = Shown(v)
<1>1. Shaped(w)
  BY DEF Sound, Shaped, Alike
<1>2. Erasing(w)
  BY DEF Sound, Erasing, Alike
<1>3. Kept(w)
  BY DEF Sound, Kept, Alike
<1>4. Page(w) = Page(v)
  BY DEF Alike, Page, Line
<1>5. QED
  BY <1>1, <1>2, <1>3, <1>4 DEF Sound, Shown

\* Lines that go into history are at the end of the log, and head and history still are
\* its first and its last ones (appendHistoryLines).
LEMMA Appended ==
  ASSUME NEW v, Sound(v), NEW lines \in Seq(Seq(Int)), NEW w, w = appendHistoryLines(v, lines)
  PROVE  /\ Sound(w) /\ Seat(w) = Seat(v) /\ w.log = v.log \o lines
         /\ w.screen = v.screen /\ w.committedRows = v.committedRows /\ w.pendingRow = v.pendingRow
         /\ w.pendingText = v.pendingText /\ w.strayed = v.strayed
<1> DEFINE all == v.history \o lines
           over == Max({0, Len(all) - MaxHistory})
<1>1. w = [v EXCEPT !.head = v.head \o SubSeq(lines, 1, Min({MaxHistory - Len(v.head), Len(lines)})),
                    !.history = SubSeq(all, over + 1, Len(all)),
                    !.dropped = v.dropped + over,
                    !.log = v.log \o lines]
  BY DEF appendHistoryLines, Sound, Shaped, Fields
<1> HIDE DEF all, over
<1>2. /\ DOMAIN w = Fields
      /\ w.head = v.head \o SubSeq(lines, 1, Min({MaxHistory - Len(v.head), Len(lines)}))
      /\ w.history = SubSeq(all, over + 1, Len(all))
      /\ w.dropped = v.dropped + over /\ w.log = v.log \o lines
      /\ w.screen = v.screen /\ w.committedRows = v.committedRows /\ w.pendingRow = v.pendingRow
      /\ w.pendingText = v.pendingText /\ w.strayed = v.strayed
      /\ w.cols = v.cols /\ w.rows = v.rows /\ w.x = v.x /\ w.y = v.y /\ w.savedX = v.savedX /\ w.savedY = v.savedY
  BY <1>1 DEF Sound, Shaped, Fields
<1>3. v.log \in Seq(Seq(Int)) /\ v.head = FirstOf(v.log, MaxHistory) /\ v.history = LastOf(v.log, MaxHistory)
      /\ v.dropped = Len(v.log) - Len(v.history)
  BY DEF Sound, Shaped, Kept
<1>4. w.log \in Seq(Seq(Int))
  BY <1>2, <1>3, ConcatProperties
<1>5. w.head = FirstOf(w.log, MaxHistory)
  <2>1. FirstOf(v.log, MaxHistory) \o FirstOf(lines, MaxHistory - Len(FirstOf(v.log, MaxHistory))) = FirstOf(v.log \o lines, MaxHistory)
    BY <1>3, MaxHistoryNat, FirstGrow
  <2>2. w.head = v.head \o FirstOf(lines, MaxHistory - Len(v.head))
    BY <1>2 DEF FirstOf
  <2>3. QED
    BY <1>2, <1>3, <2>1, <2>2
<1>9. w.history = LastOf(w.log, MaxHistory) /\ w.dropped = Len(w.log) - Len(w.history)
  <2>1. all = v.history \o lines /\ over = Max({0, Len(all) - MaxHistory})
    BY DEF all, over
  <2>2. PICK l, h : l = v.log /\ h = v.history
    OBVIOUS
  <2>3. l \in Seq(Seq(Int)) /\ h = LastOf(l, MaxHistory) /\ MaxHistory \in Nat
    BY <1>3, <2>2, MaxHistoryNat
  <2>4. h \in Seq(Seq(Int)) /\ all = h \o lines
    BY <2>1, <2>2, <2>3, LastOfIs
  <2>5. all \in Seq(Seq(Int)) /\ Len(all) = Len(h) + Len(lines) /\ Len(l \o lines) = Len(l) + Len(lines)
    BY <2>3, <2>4, ConcatProperties
  <2>6. LastOf(all, MaxHistory) = LastOf(l \o lines, MaxHistory)
    BY <2>3, <2>4, LastGrow
  <2>7. over = Len(all) - Len(LastOf(all, MaxHistory)) /\ SubSeq(all, over + 1, Len(all)) = LastOf(all, MaxHistory)
    BY <2>1, <2>3, <2>5, LastExcess
  <2>8. LastOf(all, MaxHistory) \in Seq(Seq(Int))
    BY <2>3, <2>5, LastOfIs
  <2>9. PICK e \in Nat : e = Len(LastOf(all, MaxHistory))
    BY <2>8
  <2>10. w.dropped = Len(l) - Len(h) + (Len(h) + Len(lines) - e)
    BY <1>2, <1>3, <2>2, <2>5, <2>7, <2>9
  <2>11. Len(l) \in Nat /\ Len(h) \in Nat /\ Len(lines) \in Nat
    BY <2>3, <2>4
  <2>12. w.dropped = Len(l) + Len(lines) - e
    BY <2>9, <2>10, <2>11
  <2>13. w.log = l \o lines /\ w.history = LastOf(all, MaxHistory)
    BY <1>2, <2>2, <2>7
  <2>14. QED
    BY <2>5, <2>6, <2>9, <2>12, <2>13
<1>11. Kept(w)
  BY <1>5, <1>9 DEF Kept
<1>12. Shaped(w)
  BY <1>2, <1>4 DEF Sound, Shaped
<1>13. Erasing(w)
  BY <1>2 DEF Sound, Erasing
<1>14. QED
  BY <1>2, <1>11, <1>12, <1>13 DEF Sound, Seat

-----------------------------------------------------------------------------
(* The page: the lines of the screen from row a on, up to row b.           *)

Texts(n) == [0..n - 1 -> Seq(Int)]
Body(f, a, b) == [i \in 1..b - a |-> f[a + i - 1]]

LEMMA IntConcat ==
  \A s, t, u \in Seq(Int) : (s \o t) \o u = s \o (t \o u) /\ s \o t \in Seq(Int) /\ <<>> \o (t \o u) = t \o u
<1>1. SUFFICES ASSUME NEW s \in Seq(Int), NEW t \in Seq(Int), NEW u \in Seq(Int)
               PROVE  (s \o t) \o u = s \o (t \o u) /\ s \o t \in Seq(Int) /\ <<>> \o (t \o u) = t \o u
  OBVIOUS
<1> DEFINE S == Int
<1>2. s \in Seq(S) /\ t \in Seq(S) /\ u \in Seq(S)
  OBVIOUS
<1> HIDE DEF S
<1>3. (s \o t) \o u = s \o (t \o u) /\ s \o t \in Seq(S) /\ t \o u \in Seq(S)
  <2>1. (s \o t) \o u = s \o (t \o u)
    BY <1>2, ConcatAssociative, SMTT(60)
  <2>2. s \o t \in Seq(S) /\ t \o u \in Seq(S)
    BY <1>2, ConcatProperties
  <2>3. QED
    BY <2>1, <2>2
<1>4. <<>> \o (t \o u) = t \o u
  BY <1>3, ConcatEmptySeq
<1>5. QED
  BY <1>3, <1>4 DEF S

\* Rows a..b-1 are among the n that f gives the text of.
Span(f, n, a, b) == n \in Nat /\ f \in Texts(n) /\ a \in Nat /\ b \in Nat /\ a <= b /\ b <= n

LEMMA BodyType ==
  ASSUME NEW n, NEW f, NEW a, NEW b, Span(f, n, a, b)
  PROVE  /\ Body(f, a, b) \in Seq(Seq(Int)) /\ Len(Body(f, a, b)) = b - a
         /\ \A i \in 1..b - a : Body(f, a, b)[i] = f[a + i - 1]
<1>1. \A i \in 1..b - a : f[a + i - 1] \in Seq(Int)
  BY DEF Texts, Span
<1>2. b - a \in Nat
  BY DEF Span
<1>3. QED
  BY <1>1, <1>2 DEF Body

\* The page is cut at a row.
LEMMA BodySplit ==
  ASSUME NEW n, NEW f, NEW a, NEW b, NEW c, Span(f, n, a, b), Span(f, n, b, c)
  PROVE  /\ Body(f, a, b) \o Body(f, b, c) = Body(f, a, c) /\ Span(f, n, a, c)
<1>1. /\ Body(f, a, b) \in Seq(Seq(Int)) /\ Len(Body(f, a, b)) = b - a
      /\ \A i \in 1..b - a : Body(f, a, b)[i] = f[a + i - 1]
  BY BodyType
<1>2. /\ Body(f, b, c) \in Seq(Seq(Int)) /\ Len(Body(f, b, c)) = c - b
      /\ \A i \in 1..c - b : Body(f, b, c)[i] = f[b + i - 1]
  BY BodyType
<1>s. Span(f, n, a, c)
  BY DEF Span
<1>3. /\ Body(f, a, c) \in Seq(Seq(Int)) /\ Len(Body(f, a, c)) = c - a
      /\ \A i \in 1..c - a : Body(f, a, c)[i] = f[a + i - 1]
  BY <1>s, BodyType
<1>n. a \in Nat /\ b \in Nat /\ c \in Nat /\ a <= b /\ b <= c
  BY DEF Span
<1>4. PICK s, t, u : s = Body(f, a, b) /\ t = Body(f, b, c) /\ u = Body(f, a, c)
  OBVIOUS
<1>5. s \o t \in Seq(Seq(Int)) /\ Len(s \o t) = c - a
      /\ \A i \in 1..c - a : (s \o t)[i] = IF i <= b - a THEN s[i] ELSE t[i - (b - a)]
  <2>1. s \o t \in Seq(Seq(Int)) /\ Len(s \o t) = Len(s) + Len(t)
        /\ \A i \in 1..Len(s) + Len(t) : (s \o t)[i] = IF i <= Len(s) THEN s[i] ELSE t[i - Len(s)]
    BY <1>1, <1>2, <1>4, ConcatProperties
  <2>2. Len(s) = b - a /\ Len(t) = c - b
    BY <1>1, <1>2, <1>4
  <2>3. Len(s) + Len(t) = c - a
    BY <1>n, <2>2
  <2>4. QED
    BY <2>1, <2>2, <2>3
<1>6. ASSUME NEW i \in 1..c - a PROVE (s \o t)[i] = u[i]
  <2>1. CASE i <= b - a
    <3>1. i \in 1..b - a
      BY <1>n, <2>1
    <3>2. (s \o t)[i] = s[i]
      BY <1>5, <2>1
    <3>3. QED
      BY <1>1, <1>3, <1>4, <3>1, <3>2
  <2>2. CASE i > b - a
    <3>1. PICK j \in 1..c - b : j = i - (b - a)
      BY <1>n, <2>2
    <3>2. (s \o t)[i] = t[j]
      BY <1>5, <1>n, <2>2, <3>1
    <3>3. b + j - 1 = a + i - 1
      BY <1>n, <3>1
    <3>4. t[j] = f[b + j - 1] /\ u[i] = f[a + i - 1]
      BY <1>2, <1>3, <1>4, <3>1
    <3>5. QED
      BY <3>2, <3>3, <3>4
  <2>3. i <= b - a \/ i > b - a
    BY <1>n
  <2>4. QED
    BY <2>1, <2>2, <2>3, Zenon
<1>7. s \o t = u
  BY <1>3, <1>4, <1>5, <1>6, SeqEqual
<1>8. QED
  BY <1>4, <1>7, <1>s

\* What it shows is what both parts show.
LEMMA InkSplit ==
  ASSUME NEW n, NEW f, NEW a, NEW b, NEW c, Span(f, n, a, b), Span(f, n, b, c)
  PROVE  /\ InkOf(Body(f, a, c)) = InkOf(Body(f, a, b)) \o InkOf(Body(f, b, c))
         /\ InkOf(Body(f, a, b)) \in Seq(Int) /\ InkOf(Body(f, b, c)) \in Seq(Int)
<1>1. Body(f, a, b) \in Seq(Seq(Int)) /\ Body(f, b, c) \in Seq(Seq(Int))
  BY BodyType
<1>2. Body(f, a, b) \o Body(f, b, c) = Body(f, a, c)
  BY BodySplit
<1>3. QED
  BY <1>1, <1>2, InkOfConcat

\* Rows that show nothing.
LEMMA InkBlank ==
  ASSUME NEW n, NEW f, NEW a, NEW b, Span(f, n, a, b), \A r \in a..b - 1 : Inked(f[r]) = <<>>
  PROVE  InkOf(Body(f, a, b)) = <<>>
<1>1. /\ Body(f, a, b) \in Seq(Seq(Int)) /\ Len(Body(f, a, b)) = b - a
      /\ \A i \in 1..b - a : Body(f, a, b)[i] = f[a + i - 1]
  BY BodyType
<1>2. ASSUME NEW i \in 1..b - a PROVE Inked(Body(f, a, b)[i]) = <<>>
  <2>1. a + i - 1 \in a..b - 1
    BY DEF Span
  <2>2. QED
    BY <1>1, <2>1
<1>3. \A i \in 1..Len(Body(f, a, b)) : Inked(Body(f, a, b)[i]) = <<>>
  BY <1>1, <1>2
<1>4. QED
  BY <1>1, <1>3, InkOfNothing

\* Rows that show the same, wherever they are.
LEMMA InkMoved ==
  ASSUME NEW n, NEW f, NEW a, NEW b, Span(f, n, a, b),
         NEW m, NEW g, NEW c, NEW d, Span(g, m, c, d), d - c = b - a,
         \A i \in 1..b - a : Inked(f[a + i - 1]) = Inked(g[c + i - 1])
  PROVE  InkOf(Body(f, a, b)) = InkOf(Body(g, c, d))
<1>1. /\ Body(f, a, b) \in Seq(Seq(Int)) /\ Len(Body(f, a, b)) = b - a
      /\ \A i \in 1..b - a : Body(f, a, b)[i] = f[a + i - 1]
  BY BodyType
<1>2. /\ Body(g, c, d) \in Seq(Seq(Int)) /\ Len(Body(g, c, d)) = d - c
      /\ \A i \in 1..d - c : Body(g, c, d)[i] = g[c + i - 1]
  BY BodyType
<1>3. \A i \in 1..Len(Body(f, a, b)) : Inked(Body(f, a, b)[i]) = Inked(Body(g, c, d)[i])
  BY <1>1, <1>2
<1>4. Len(Body(f, a, b)) = Len(Body(g, c, d))
  BY <1>1, <1>2
<1>5. QED
  BY <1>1, <1>2, <1>3, <1>4, InkOfSame

\* Rows a..b-1 went into history, those above them show nothing, and the screen
\* shows what was below.
LEMMA ScrolledOff ==
  ASSUME NEW n, NEW f, NEW a, NEW b, Span(f, n, 0, a), Span(f, n, a, b), Span(f, n, b, n),
         NEW old \in Seq(Seq(Int)), NEW m, NEW g, Span(g, m, 0, m),
         \A r \in 0..a - 1 : Inked(f[r]) = <<>>, InkOf(Body(g, 0, m)) = InkOf(Body(f, b, n))
  PROVE  InkOf((old \o Body(f, a, b)) \o Body(g, 0, m)) = InkOf(old \o Body(f, 0, n))
<1>1. PICK z : z = 0
  OBVIOUS
<1>2. Span(f, n, a, n) /\ Span(f, n, z, n)
  BY <1>1, BodySplit
<1>3. /\ Body(f, a, b) \in Seq(Seq(Int)) /\ Body(f, z, n) \in Seq(Seq(Int)) /\ Body(g, z, m) \in Seq(Seq(Int))
      /\ old \o Body(f, a, b) \in Seq(Seq(Int))
  <2>1. Body(f, a, b) \in Seq(Seq(Int)) /\ Body(f, z, n) \in Seq(Seq(Int)) /\ Body(g, z, m) \in Seq(Seq(Int))
    BY <1>1, <1>2, BodyType
  <2>2. QED
    BY <2>1, ConcatProperties
<1>4. /\ InkOf(Body(f, a, n)) = InkOf(Body(f, a, b)) \o InkOf(Body(f, b, n))
      /\ InkOf(Body(f, a, b)) \in Seq(Int) /\ InkOf(Body(f, b, n)) \in Seq(Int)
  BY InkSplit
<1>5. InkOf(Body(f, z, n)) = InkOf(Body(f, z, a)) \o InkOf(Body(f, a, n))
  BY <1>1, <1>2, InkSplit
<1>6. InkOf(old) \in Seq(Int) /\ InkOf(old \o Body(f, z, n)) = InkOf(old) \o InkOf(Body(f, z, n))
  BY <1>3, InkOfConcat
<1>7. /\ InkOf((old \o Body(f, a, b)) \o Body(g, z, m)) = InkOf(old \o Body(f, a, b)) \o InkOf(Body(g, z, m))
      /\ InkOf(old \o Body(f, a, b)) = InkOf(old) \o InkOf(Body(f, a, b))
  BY <1>3, InkOfConcat
<1>8. InkOf(Body(f, z, a)) = <<>>
  BY <1>1, InkBlank
<1>9. PICK past \in Seq(Int), off \in Seq(Int), below \in Seq(Int) :
        past = InkOf(old) /\ off = InkOf(Body(f, a, b)) /\ below = InkOf(Body(f, b, n))
  BY <1>4, <1>6
<1>10. <<>> \o (off \o below) = off \o below /\ (past \o off) \o below = past \o (off \o below)
  BY IntConcat, SMTT(30)
<1>11. InkOf(Body(f, z, n)) = off \o below
  BY <1>4, <1>5, <1>8, <1>9, <1>10
<1>12. InkOf((old \o Body(f, a, b)) \o Body(g, z, m)) = (past \o off) \o below
  BY <1>1, <1>7, <1>9
<1>13. QED
  BY <1>1, <1>6, <1>9, <1>10, <1>11, <1>12

\* What each row is rendered as.
TextsOf(v) == [r \in 0..v.rows - 1 |-> IF r = v.pendingRow THEN v.pendingText ELSE Line(v, r)]

\* A row of the screen and its line.
LEMMA LineType ==
  ASSUME NEW v, Sound(v), NEW r \in 0..v.rows - 1
  PROVE  /\ v.screen[r] \in Rows(v.cols) /\ Line(v, r) \in Seq(Int)
         /\ Inked(Line(v, r)) = Inked(Cells(v.screen[r], v.cols))
         /\ Line(v, r) = <<>> <=> Marks(v.screen[r]) = {}
<1>1. v.screen[r] \in Rows(v.cols) /\ v.cols \in Nat
  BY DEF Sound, Shaped
<1>2. QED
  BY <1>1, RowText DEF Line

\* What is shown is the log and then the rows.
LEMMA ShownIs ==
  ASSUME NEW v, Sound(v)
  PROVE  /\ TextsOf(v) \in Texts(v.rows) /\ v.rows \in Nat /\ v.log \in Seq(Seq(Int))
         /\ Shown(v) = InkOf(v.log \o Body(TextsOf(v), 0, v.rows))
<1>1. v.rows \in Nat /\ v.log \in Seq(Seq(Int)) /\ v.pendingText \in Seq(Int)
  BY DEF Sound, Shaped, Erasing
<1>2. \A r \in 0..v.rows - 1 : Line(v, r) \in Seq(Int)
  BY LineType
<1>3. TextsOf(v) \in Texts(v.rows)
  BY <1>1, <1>2 DEF TextsOf, Texts
<1>4. \A i \in 1..v.rows : TextsOf(v)[0 + i - 1] = IF i - 1 = v.pendingRow THEN v.pendingText ELSE Line(v, i - 1)
  <2>1. ASSUME NEW i \in 1..v.rows
        PROVE  TextsOf(v)[0 + i - 1] = IF i - 1 = v.pendingRow THEN v.pendingText ELSE Line(v, i - 1)
    <3>1. i - 1 \in 0..v.rows - 1 /\ 0 + i - 1 = i - 1
      BY <1>1
    <3>2. QED
      BY <3>1 DEF TextsOf
  <2>2. QED
    BY <2>1
<1>5. v.rows - 0 = v.rows
  BY <1>1
<1>6. Page(v) = v.log \o Body(TextsOf(v), 0, v.rows)
  BY <1>4, <1>5 DEF Page, Body
<1>7. QED
  BY <1>1, <1>3, <1>6 DEF Shown, InkOf

-----------------------------------------------------------------------------
(* Cells change.                                                           *)

\* Only the screen may differ.
Repainted(v, w) ==
  /\ DOMAIN w = Fields
  /\ w.cols = v.cols /\ w.rows = v.rows /\ w.x = v.x /\ w.y = v.y /\ w.savedX = v.savedX /\ w.savedY = v.savedY
  /\ w.history = v.history /\ w.head = v.head /\ w.dropped = v.dropped /\ w.log = v.log
  /\ w.pendingRow = v.pendingRow /\ w.pendingText = v.pendingText /\ w.committedRows = v.committedRows
  /\ w.ink = v.ink /\ w.strayed = v.strayed /\ w.lost = v.lost

\* Row by row, nothing appears in a row that was blank.
LEMMA Repaint ==
  ASSUME NEW v, Sound(v), NEW s \in [0..v.rows - 1 -> Rows(v.cols)],
         \A r \in 0..v.rows - 1 : Marks(v.screen[r]) = {} => Marks(s[r]) = {},
         NEW w, Repainted(v, w), w.screen = s
  PROVE  Sound(w)
<1>1. w.screen = s /\ Repainted(v, w)
  OBVIOUS
<1>2. Shaped(w)
  <2>1. v.committedRows \in 0..v.rows /\ v.rows \in Nat /\ \A r \in 0..v.committedRows - 1 : Marks(v.screen[r]) = {}
    BY DEF Sound, Shaped
  <2>2. \A r \in 0..v.committedRows - 1 : Marks(s[r]) = {}
    <3>1. PICK n \in Nat, k \in Nat : k <= n /\ n = v.rows /\ k = v.committedRows
      BY <2>1
    <3>2. \A r \in 0..k - 1 : r \in 0..n - 1
      BY <3>1
    <3>3. QED
      BY <2>1, <3>1, <3>2
  <2>3. QED
    BY <1>1, <2>1, <2>2 DEF Sound, Shaped, Repainted
<1>3. Erasing(w)
  BY <1>1 DEF Sound, Erasing, Repainted
<1>4. Kept(w)
  BY <1>1 DEF Sound, Kept, Repainted
<1>5. QED
  BY <1>1, <1>2, <1>3, <1>4 DEF Sound

\* Only rows that were blank change, and they stay blank.
LEMMA RepaintShows ==
  ASSUME NEW v, NEW w, Sound(v), Sound(w), Repainted(v, w),
         \A r \in 0..v.rows - 1 : w.screen[r] = v.screen[r] \/ (Marks(v.screen[r]) = {} /\ Marks(w.screen[r]) = {})
  PROVE  Shown(w) = Shown(v)
<1>1. ASSUME NEW r \in 0..v.rows - 1 PROVE Line(w, r) = Line(v, r)
  <2>1. CASE w.screen[r] = v.screen[r]
    BY <2>1 DEF Line
  <2>2. CASE Marks(v.screen[r]) = {} /\ Marks(w.screen[r]) = {}
    <3>1. r \in 0..w.rows - 1
      BY DEF Repainted
    <3>2. Line(v, r) = <<>> /\ Line(w, r) = <<>>
      BY <2>2, <3>1, LineType
    <3>3. QED
      BY <3>2
  <2>3. QED
    BY <2>1, <2>2
<1>2. \A i \in 1..v.rows : i - 1 \in 0..v.rows - 1
  BY DEF Sound, Shaped
<1>3. Page(w) = Page(v)
  BY <1>1, <1>2 DEF Page, Repainted
<1>4. QED
  BY <1>3 DEF Shown

LEMMA ScreenType ==
  ASSUME NEW v, Sound(v)
  PROVE  v.screen \in [0..v.rows - 1 -> Rows(v.cols)] /\ v.rows \in Nat \ {0} /\ v.cols \in Nat \ {0}
  BY DEF Sound, Shaped

\* One row is another.
LEMMA RowRepaint ==
  ASSUME NEW v, Sound(v), NEW r \in 0..v.rows - 1, NEW row \in Rows(v.cols),
         Marks(v.screen[r]) = {} => Marks(row) = {},
         NEW w, Repainted(v, w), w.screen = [v.screen EXCEPT ![r] = row]
  PROVE  /\ Sound(w)
         /\ Marks(v.screen[r]) = {} => Shown(w) = Shown(v)
<1> DEFINE s == [v.screen EXCEPT ![r] = row]
<1>1. w.screen = s
  OBVIOUS
<1>2. s \in [0..v.rows - 1 -> Rows(v.cols)]
  BY ScreenType
<1>3. s[r] = row /\ \A q \in 0..v.rows - 1 : q # r => s[q] = v.screen[q]
  BY ScreenType
<1> HIDE DEF s
<1>4. \A q \in 0..v.rows - 1 : Marks(v.screen[q]) = {} => Marks(s[q]) = {}
  BY <1>3
<1>5. Sound(w) /\ w.screen = s
  BY <1>1, <1>2, <1>4, Repaint
<1>6. Marks(v.screen[r]) = {} => Shown(w) = Shown(v)
  <2>1. SUFFICES ASSUME Marks(v.screen[r]) = {} PROVE Shown(w) = Shown(v)
    OBVIOUS
  <2>2. \A q \in 0..v.rows - 1 : w.screen[q] = v.screen[q] \/ (Marks(v.screen[q]) = {} /\ Marks(w.screen[q]) = {})
    BY <1>3, <1>5, <2>1
  <2>3. QED
    BY <1>5, <2>2, RepaintShows
<1>7. QED
  BY <1>5, <1>6 DEF s

\* The erase of cells of a row.
LEMMA ErasedSound ==
  ASSUME NEW v, Sound(v), NEW r \in 0..v.rows - 1, NEW cells, NEW w, w = Erased(v, r, cells)
  PROVE  /\ Sound(w) /\ Repainted(v, w)
         /\ \A q \in 0..v.rows - 1 : q # r => w.screen[q] = v.screen[q]
         /\ WholeRow(v) \subseteq cells => Marks(w.screen[r]) = {}
         /\ Marks(v.screen[r]) = {} => Shown(w) = Shown(v)
<1> DEFINE row == [c \in DOMAIN v.screen[r] |-> IF c \in cells THEN Blank ELSE v.screen[r][c]]
<1>1. Repainted(v, w) /\ w.screen = [v.screen EXCEPT ![r] = row]
  BY ScreenType DEF Erased, Sound, Shaped, Fields, Repainted
<1>2. v.screen[r] \in Rows(v.cols) /\ DOMAIN v.screen[r] = 0..v.cols - 1
  BY ScreenType DEF Rows
<1>3. row \in Rows(v.cols)
  <2>1. \A c \in 0..v.cols - 1 : v.screen[r][c] \in Int
    BY <1>2 DEF Rows
  <2>2. \A c \in 0..v.cols - 1 : row[c] \in Int
    BY <1>2, <2>1 DEF Blank
  <2>3. QED
    BY <1>2, <2>2 DEF Rows
<1>4. \A c \in 0..v.cols - 1 : row[c] = IF c \in cells THEN 0 ELSE v.screen[r][c]
  BY <1>2 DEF Blank
<1>5. v.cols \in Nat
  BY ScreenType
<1> HIDE DEF row
<1>6. Marks(v.screen[r]) = {} => Marks(row) = {}
  BY <1>2, <1>3, <1>4, <1>5, MarksIn
<1>7. WholeRow(v) \subseteq cells => Marks(row) = {}
  BY <1>3, <1>4, <1>5, MarksIn DEF WholeRow
<1>8. /\ Sound(w) /\ Repainted(v, w) /\ w.screen = [v.screen EXCEPT ![r] = row]
      /\ Marks(v.screen[r]) = {} => Shown(w) = Shown(v)
  <2>1. Sound(w) /\ (Marks(v.screen[r]) = {} => Shown(w) = Shown(v))
    BY <1>1, <1>3, <1>6, RowRepaint
  <2>2. QED
    BY <1>1, <2>1
<1>9. w.screen[r] = row /\ \A q \in 0..v.rows - 1 : q # r => w.screen[q] = v.screen[q]
  BY <1>8, ScreenType
<1>10. QED
  BY <1>7, <1>8, <1>9

LEMMA BlankRow == ASSUME NEW n \in Nat PROVE blankRow(n) \in Rows(n) /\ Marks(blankRow(n)) = {}
<1>1. blankRow(n) \in Rows(n) /\ \A c \in 0..n - 1 : blankRow(n)[c] = 0
  BY DEF blankRow, Rows, Blank
<1>2. QED
  BY <1>1, MarksIn

\* Rows that are cleared.
LEMMA ClearedSound ==
  ASSUME NEW v, Sound(v), NEW gone, NEW w, w = Cleared(v, gone)
  PROVE  /\ Sound(w) /\ Repainted(v, w)
         /\ \A r \in 0..v.rows - 1 : w.screen[r] = IF r \in gone THEN blankRow(v.cols) ELSE v.screen[r]
         /\ (\A r \in gone \cap 0..v.rows - 1 : Marks(v.screen[r]) = {}) => Shown(w) = Shown(v)
<1> DEFINE s == [r \in 0..v.rows - 1 |-> IF r \in gone THEN blankRow(v.cols) ELSE v.screen[r]]
<1>1. w.screen = s /\ Repainted(v, w)
  BY ScreenType DEF Cleared, Sound, Shaped, Fields, Repainted
<1>2. blankRow(v.cols) \in Rows(v.cols) /\ Marks(blankRow(v.cols)) = {}
  BY ScreenType, BlankRow
<1>3. s \in [0..v.rows - 1 -> Rows(v.cols)]
  BY <1>2, ScreenType
<1>4. \A r \in 0..v.rows - 1 : s[r] = IF r \in gone THEN blankRow(v.cols) ELSE v.screen[r]
  OBVIOUS
<1> HIDE DEF s
<1>5. \A r \in 0..v.rows - 1 : Marks(v.screen[r]) = {} => Marks(s[r]) = {}
  BY <1>2, <1>4
<1>6. Sound(w) /\ Repainted(v, w) /\ w.screen = s
  BY <1>1, <1>3, <1>5, Repaint
<1>7. ASSUME \A r \in gone \cap 0..v.rows - 1 : Marks(v.screen[r]) = {} PROVE Shown(w) = Shown(v)
  <2>1. \A r \in 0..v.rows - 1 : w.screen[r] = v.screen[r] \/ (Marks(v.screen[r]) = {} /\ Marks(w.screen[r]) = {})
    BY <1>2, <1>4, <1>6, <1>7
  <2>2. QED
    BY <1>6, <2>1, RepaintShows
<1>8. QED
  BY <1>4, <1>6, <1>7

-----------------------------------------------------------------------------
(* Lines go into history.                                                  *)

\* The rows above b show nothing, those from b on what f gives.
LEMMA BelowShows ==
  ASSUME NEW n, NEW f, NEW g, NEW b, Span(f, n, 0, b), Span(f, n, b, n), Span(g, n, 0, b), Span(g, n, b, n),
         \A r \in 0..b - 1 : Inked(g[r]) = <<>>, \A r \in b..n - 1 : Inked(g[r]) = Inked(f[r])
  PROVE  InkOf(Body(g, 0, n)) = InkOf(Body(f, b, n))
<1>1. PICK z : z = 0
  OBVIOUS
<1>2. InkOf(Body(g, z, n)) = InkOf(Body(g, z, b)) \o InkOf(Body(g, b, n)) /\ InkOf(Body(g, b, n)) \in Seq(Int)
  BY <1>1, InkSplit
<1>3. InkOf(Body(g, z, b)) = <<>>
  BY <1>1, InkBlank
<1>4. InkOf(Body(g, b, n)) = InkOf(Body(f, b, n))
  <2>1. n - b = n - b /\ \A i \in 1..n - b : b + i - 1 \in b..n - 1
    BY DEF Span
  <2>2. \A i \in 1..n - b : Inked(g[b + i - 1]) = Inked(f[b + i - 1])
    BY <2>1
  <2>3. QED
    BY <2>1, <2>2, InkMoved
<1>5. <<>> \o InkOf(Body(g, b, n)) = InkOf(Body(g, b, n))
  BY <1>2, ConcatEmptySeq
<1>6. QED
  BY <1>1, <1>2, <1>3, <1>4, <1>5

\* The rows moved up by b, and below them come rows that show nothing.
LEMMA MovedShows ==
  ASSUME NEW n, NEW f, NEW g, NEW b, NEW c, Span(f, n, b, n), Span(g, n, 0, c), Span(g, n, c, n), b + c = n,
         \A r \in c..n - 1 : Inked(g[r]) = <<>>, \A r \in 0..c - 1 : Inked(g[r]) = Inked(f[r + b])
  PROVE  InkOf(Body(g, 0, n)) = InkOf(Body(f, b, n))
<1>1. PICK z : z = 0
  OBVIOUS
<1>2. InkOf(Body(g, z, n)) = InkOf(Body(g, z, c)) \o InkOf(Body(g, c, n)) /\ InkOf(Body(g, z, c)) \in Seq(Int)
  <2>1. Span(g, n, z, c) /\ Span(g, n, c, n)
    BY <1>1
  <2>2. QED
    BY <2>1, InkSplit
<1>3. InkOf(Body(g, c, n)) = <<>>
  BY InkBlank
<1>4. InkOf(Body(g, z, c)) = InkOf(Body(f, b, n))
  <2>1. n - b = c - z /\ n \in Nat /\ b \in Nat /\ c \in Nat
    BY <1>1 DEF Span
  <2>2. ASSUME NEW i \in 1..c - z PROVE Inked(g[z + i - 1]) = Inked(f[b + i - 1])
    <3>1. z + i - 1 \in 0..c - 1 /\ (z + i - 1) + b = b + i - 1
      BY <1>1, <2>1
    <3>2. QED
      BY <3>1
  <2>3. Span(g, n, z, c)
    BY <1>1
  <2>4. n - b = c - z /\ \A i \in 1..c - z : Inked(g[z + i - 1]) = Inked(f[b + i - 1])
    BY <2>1, <2>2
  <2>5. QED
    BY <2>3, <2>4, InkMoved
<1>5. InkOf(Body(g, z, c)) \o <<>> = InkOf(Body(g, z, c))
  BY <1>2, ConcatEmptySeq
<1>6. QED
  BY <1>1, <1>2, <1>3, <1>4, <1>5

\* Neither the cursor nor the counters of the model moved.
Carried(v, w) ==
  /\ DOMAIN w = Fields
  /\ w.cols = v.cols /\ w.rows = v.rows /\ w.x = v.x /\ w.y = v.y /\ w.savedX = v.savedX /\ w.savedY = v.savedY
  /\ w.ink = v.ink /\ w.strayed = v.strayed /\ w.lost = v.lost

\* The lines of rows a..to of f, the last of which is the one given.
LEMMA CommitLines ==
  ASSUME NEW n, NEW f, NEW a, NEW to, Span(f, n, a, to), Span(f, n, to, to + 1)
  PROVE  Body(f, a, to) \o <<f[to]>> = Body(f, a, to + 1)
<1>1. PICK b : b = to + 1
  OBVIOUS
<1>2. Span(f, n, to, b) /\ b - to = 1
  BY <1>1 DEF Span
<1>3. /\ Body(f, to, b) \in Seq(Seq(Int)) /\ Len(Body(f, to, b)) = b - to
      /\ \A i \in 1..b - to : Body(f, to, b)[i] = f[to + i - 1]
  BY <1>2, BodyType
<1>4. Body(f, to, b)[1] = f[to]
  <2>1. 1 \in 1..b - to /\ to + 1 - 1 = to
    BY <1>2 DEF Span
  <2>2. QED
    BY <1>3, <2>1
<1>5. Body(f, to, b) = <<f[to]>>
  <2>1. PICK s \in Seq(Seq(Int)) : s = Body(f, to, b)
    BY <1>3
  <2>2. Len(s) = 1 /\ s[1] = f[to]
    BY <1>2, <1>3, <1>4, <2>1
  <2>3. s = <<f[to]>>
    BY <2>2
  <2>4. QED
    BY <2>1, <2>3
<1>6. Body(f, a, to) \o Body(f, to, b) = Body(f, a, b)
  BY <1>2, BodySplit
<1>7. QED
  BY <1>1, <1>5, <1>6

\* A commit of rows 0..to, given what they are rendered as.
LEMMA Commits ==
  ASSUME NEW v, Sound(v), v.pendingRow = NoRow, NEW to \in 0..v.rows - 1, NEW f \in Texts(v.rows),
         \A r \in 0..v.rows - 1 : r # to => f[r] = Line(v, r), NEW w, w = commitPrefix(v, to, f[to])
  PROVE  /\ Sound(w) /\ Carried(v, w) /\ w.pendingRow = NoRow
         /\ \A r \in 0..to : Marks(w.screen[r]) = {}
         /\ \A r \in to + 1..v.rows - 1 : w.screen[r] = v.screen[r]
         /\ Shown(w) = InkOf(v.log \o Body(f, 0, v.rows))
<1>1. PICK n \in Nat : n = v.rows /\ to \in Nat /\ to + 1 <= n /\ n > 0 /\ to <= n
  BY ScreenType
<1>2. PICK a : a = Min({h \in 0..to : h = to \/ Line(v, h) # <<>>})
  OBVIOUS
<1>3. a \in 0..to /\ \A h \in 0..a - 1 : Line(v, h) = <<>>
  <2> DEFINE T == {h \in 0..to : h = to \/ Line(v, h) # <<>>}
  <2>1. to \in T /\ T \subseteq Nat /\ T # {}
    BY <1>1
  <2>2. a \in T /\ \A y \in T : a <= y
    <3> HIDE DEF T
    <3>1. Min(T) \in T /\ \A y \in T : Min(T) <= y
      BY <2>1, Smallest
    <3>2. a = Min(T)
      BY <1>2 DEF T
    <3>3. QED
      BY <3>1, <3>2
  <2>3. ASSUME NEW h \in 0..a - 1 PROVE Line(v, h) = <<>>
    <3>1. h \in 0..to /\ ~(a <= h)
      BY <2>2
    <3>2. h \notin T
      BY <2>2, <3>1
    <3>3. QED
      BY <3>1, <3>2
  <2>4. QED
    BY <2>2, <2>3
<1>4. /\ Span(f, n, 0, a) /\ Span(f, n, a, to) /\ Span(f, n, to, to + 1) /\ Span(f, n, to + 1, n)
      /\ Span(f, n, a, to + 1) /\ Span(f, n, 0, to + 1)
  BY <1>1, <1>3 DEF Span
<1>5. PICK lines : lines = [i \in 1..to - a |-> Line(v, a + i - 1)] \o <<f[to]>>
  OBVIOUS
<1>6. lines = Body(f, a, to + 1) /\ lines \in Seq(Seq(Int))
  <2>1. Body(f, a, to) = [i \in 1..to - a |-> Line(v, a + i - 1)]
    <3>1. \A i \in 1..to - a : a + i - 1 \in 0..n - 1 /\ a + i - 1 # to
      BY <1>1, <1>3
    <3>2. QED
      BY <1>1, <3>1 DEF Body
  <2>2. Body(f, a, to) \o <<f[to]>> = Body(f, a, to + 1)
    BY <1>4, CommitLines
  <2>3. Body(f, a, to + 1) \in Seq(Seq(Int))
    BY <1>4, BodyType, Zenon
  <2>4. QED
    BY <1>5, <2>1, <2>2, <2>3
<1>7. PICK u : u = appendHistoryLines(v, lines)
  OBVIOUS
<1>8. /\ Sound(u) /\ Seat(u) = Seat(v) /\ u.log = v.log \o lines
      /\ u.screen = v.screen /\ u.committedRows = v.committedRows /\ u.pendingRow = v.pendingRow
      /\ u.pendingText = v.pendingText /\ u.strayed = v.strayed
  <2>1. lines \in Seq(Seq(Int))
    BY <1>6
  <2>2. QED
    BY <1>7, <2>1, Appended
<1>9. u.ink = v.ink /\ u.lost = v.lost
  BY <1>7 DEF appendHistoryLines, Sound, Shaped, Fields
<1>10. PICK c : c = Cleared(u, 0..to)
  OBVIOUS
<1>11. /\ Sound(c) /\ Repainted(u, c)
       /\ \A r \in 0..u.rows - 1 : c.screen[r] = IF r \in 0..to THEN blankRow(u.cols) ELSE u.screen[r]
  BY <1>8, <1>10, ClearedSound
<1>12. u.rows = n /\ u.cols = v.cols
  BY <1>1, <1>8 DEF Seat
<1>13. w = [c EXCEPT !.committedRows = to + 1]
  <2>1. w = Committed(v, a, to, f[to])
    BY <1>2 DEF commitPrefix
  <2>2. Committed(v, a, to, f[to]) = [Cleared(appendHistoryLines(v, [i \in 1..to - a |-> Line(v, a + i - 1)] \o <<f[to]>>), 0..to)
                                        EXCEPT !.committedRows = to + 1]
    BY DEF Committed
  <2>3. QED
    BY <1>5, <1>7, <1>10, <2>1, <2>2
<1>14. /\ DOMAIN w = Fields /\ w.committedRows = to + 1 /\ w.screen = c.screen /\ w.log = c.log /\ w.head = c.head
       /\ w.history = c.history /\ w.dropped = c.dropped /\ w.cols = c.cols /\ w.rows = c.rows /\ w.x = c.x /\ w.y = c.y
       /\ w.savedX = c.savedX /\ w.savedY = c.savedY /\ w.pendingRow = c.pendingRow /\ w.pendingText = c.pendingText
       /\ w.ink = c.ink /\ w.strayed = c.strayed /\ w.lost = c.lost
  BY <1>11, <1>13 DEF Repainted, Fields
<1>15. Carried(v, w) /\ w.pendingRow = NoRow /\ w.log = v.log \o lines
  BY <1>8, <1>9, <1>11, <1>14 DEF Repainted, Seat, Carried
<1>16. \A r \in 0..to : Marks(w.screen[r]) = {}
  <2>1. Marks(blankRow(v.cols)) = {}
    BY ScreenType, BlankRow
  <2>2. \A r \in 0..to : r \in 0..u.rows - 1
    BY <1>1, <1>12
  <2>3. QED
    BY <1>11, <1>12, <1>14, <2>1, <2>2
<1>17. \A r \in to + 1..v.rows - 1 : w.screen[r] = v.screen[r]
  <2>1. \A r \in to + 1..v.rows - 1 : r \in 0..u.rows - 1 /\ r \notin 0..to
    BY <1>1, <1>12
  <2>2. QED
    BY <1>8, <1>11, <1>14, <2>1
<1>18. Sound(w)
  <2>1. Shaped(w)
    <3>1. \A r \in 0..w.committedRows - 1 : Marks(w.screen[r]) = {}
      <4>1. 0..w.committedRows - 1 = 0..to
        BY <1>1, <1>14
      <4>2. QED
        BY <1>16, <4>1
    <3>2. w.committedRows \in 0..w.rows
      BY <1>1, <1>14, <1>15 DEF Carried
    <3>3. c.screen \in [0..c.rows - 1 -> Rows(c.cols)] /\ c.log \in Seq(Seq(Int)) /\ c.cols \in Nat \ {0} /\ c.rows \in Nat \ {0}
      BY <1>11 DEF Sound, Shaped
    <3>4. QED
      BY <1>14, <3>1, <3>2, <3>3 DEF Shaped
  <2>2. Erasing(w)
    BY <1>11, <1>14, <1>15 DEF Sound, Erasing
  <2>3. Kept(w)
    BY <1>11, <1>14 DEF Sound, Kept
  <2>4. QED
    BY <2>1, <2>2, <2>3 DEF Sound
<1>19. /\ TextsOf(w) \in Texts(n) /\ Shown(w) = InkOf(w.log \o Body(TextsOf(w), 0, n)) /\ v.log \in Seq(Seq(Int))
  <2>1. w.rows = n
    BY <1>1, <1>15 DEF Carried
  <2>2. QED
    BY <1>18, <2>1, ShownIs DEF Sound, Shaped
<1>20. \A r \in 0..n - 1 : TextsOf(w)[r] = Line(w, r)
  BY <1>1, <1>15 DEF TextsOf, NoRow, Carried
<1>21. \A r \in 0..to + 1 - 1 : Inked(TextsOf(w)[r]) = <<>>
  <2>1. \A r \in 0..to + 1 - 1 : r \in 0..to /\ r \in 0..n - 1 /\ r \in 0..w.rows - 1
    BY <1>1, <1>15 DEF Carried
  <2>2. \A r \in 0..to + 1 - 1 : Line(w, r) = <<>>
    BY <1>16, <1>18, <2>1, LineType
  <2>3. QED
    BY <1>20, <2>1, <2>2, InkedNone
<1>22. \A r \in to + 1..n - 1 : TextsOf(w)[r] = f[r]
  <2>1. \A r \in to + 1..n - 1 : r \in 0..n - 1 /\ r # to
    BY <1>1
  <2>2. QED
    BY <1>1, <1>17, <1>20, <2>1 DEF Line
<1>23. InkOf(Body(TextsOf(w), 0, n)) = InkOf(Body(f, to + 1, n))
  <2>1. Span(TextsOf(w), n, 0, to + 1) /\ Span(TextsOf(w), n, to + 1, n)
    BY <1>1, <1>19 DEF Span
  <2>2. PICK b, g : b = to + 1 /\ g = TextsOf(w)
    OBVIOUS
  <2>3. QED
    BY <1>4, <1>21, <1>22, <2>1, <2>2, BelowShows
<1>24. \A r \in 0..a - 1 : Inked(f[r]) = <<>>
  <2>1. \A r \in 0..a - 1 : r \in 0..n - 1 /\ r # to
    BY <1>1, <1>3
  <2>2. QED
    BY <1>1, <1>3, <2>1, InkedNone
<1>25. Span(TextsOf(w), n, 0, n)
  BY <1>1, <1>19 DEF Span
<1>26. InkOf((v.log \o Body(f, a, to + 1)) \o Body(TextsOf(w), 0, n)) = InkOf(v.log \o Body(f, 0, n))
  <2>1. PICK g, b : g = TextsOf(w) /\ b = to + 1
    OBVIOUS
  <2>2. QED
    BY <1>4, <1>19, <1>23, <1>24, <1>25, <2>1, ScrolledOff
<1>27. QED
  BY <1>1, <1>6, <1>15, <1>16, <1>17, <1>18, <1>19, <1>26

-----------------------------------------------------------------------------
(* The operations of the emulator.                                         *)

\* The cursor stays where it is, and an erase that was pending still is, or it
\* is resolved.
Follows(v, w) ==
  /\ Sound(w) /\ Seat(w) = Seat(v) /\ w.ink = v.ink /\ w.lost = v.lost
  /\ w.pendingRow = NoRow \/ (w.pendingRow = v.pendingRow /\ w.strayed = v.strayed)
  /\ w.strayed \in {v.strayed, FALSE}

LEMMA FollowsSelf == ASSUME NEW v, Sound(v) PROVE Follows(v, v)
  BY DEF Follows

LEMMA FollowsOn == ASSUME NEW u, NEW v, NEW w, Follows(u, v), Follows(v, w) PROVE Follows(u, w)
  BY DEF Follows

LEMMA FollowsRepaint == ASSUME NEW v, NEW w, Sound(w), Repainted(v, w) PROVE Follows(v, w)
  BY DEF Follows, Repainted, Seat

\* What the pending row is rendered as.
LEMMA SettledSound ==
  ASSUME NEW v, Sound(v), NEW w, w = Settled(v)
  PROVE  /\ Follows(v, w) /\ w.pendingRow = NoRow /\ w.screen = v.screen /\ w.log = v.log /\ w.rows = v.rows
         /\ w.committedRows = v.committedRows
<1>1. /\ DOMAIN w = Fields
      /\ w.cols = v.cols /\ w.rows = v.rows /\ w.x = v.x /\ w.y = v.y /\ w.savedX = v.savedX /\ w.savedY = v.savedY
      /\ w.history = v.history /\ w.head = v.head /\ w.dropped = v.dropped /\ w.log = v.log
      /\ w.pendingRow = NoRow /\ w.pendingText = <<>> /\ w.committedRows = v.committedRows
      /\ w.ink = v.ink /\ w.lost = v.lost /\ w.screen = v.screen /\ w.strayed = FALSE
  BY DEF Settled, Sound, Shaped, Fields
<1>2. Shaped(w)
  BY <1>1 DEF Sound, Shaped
<1>3. <<>> \in Seq(Int)
  OBVIOUS
<1>4. Erasing(w)
  BY <1>1, <1>3 DEF Erasing
<1>5. Kept(w)
  BY <1>1 DEF Sound, Kept
<1>6. QED
  BY <1>1, <1>2, <1>4, <1>5 DEF Follows, Sound, Seat

LEMMA TextOf ==
  ASSUME NEW v, NEW r \in 0..v.rows - 1
  PROVE  TextsOf(v)[r] = IF r = v.pendingRow THEN v.pendingText ELSE Line(v, r)
  BY DEF TextsOf

\* A pending erase goes into history, and nothing is lost of what was shown.
LEMMA Resolves ==
  ASSUME NEW v, Sound(v), NEW w, w = resolvePending(v)
  PROVE  Follows(v, w) /\ w.pendingRow = NoRow /\ Shown(w) = Shown(v)
<1>1. CASE v.pendingRow = NoRow
  BY <1>1, FollowsSelf DEF resolvePending
<1>2. CASE v.pendingRow # NoRow
  <2>1. PICK to, f : to = v.pendingRow /\ f = TextsOf(v)
    OBVIOUS
  <2>2. PICK u : u = Settled(v)
    OBVIOUS
  <2>3. to \in 0..v.rows - 1
    BY <1>2, <2>1 DEF Sound, Erasing
  <2>4. /\ Follows(v, u) /\ u.pendingRow = NoRow /\ u.screen = v.screen /\ u.log = v.log /\ u.rows = v.rows
    BY <2>2, SettledSound
  <2>5. /\ f \in Texts(v.rows) /\ Shown(v) = InkOf(v.log \o Body(f, 0, v.rows))
    BY <2>1, ShownIs
  <2>6. f[to] = v.pendingText /\ \A r \in 0..u.rows - 1 : r # to => f[r] = Line(u, r)
    BY <2>1, <2>3, <2>4, TextOf DEF Line
  <2>7. w = commitPrefix(u, to, f[to])
    BY <1>2, <2>1, <2>2, <2>6 DEF resolvePending
  <2>8. Sound(u) /\ to \in 0..u.rows - 1 /\ f \in Texts(u.rows)
    BY <2>3, <2>4, <2>5 DEF Follows
  <2>9. Sound(w) /\ Carried(u, w) /\ w.pendingRow = NoRow /\ Shown(w) = InkOf(u.log \o Body(f, 0, u.rows))
    BY <2>4, <2>6, <2>7, <2>8, Commits
  <2>10. Follows(u, w)
    BY <2>9 DEF Follows, Carried, Seat
  <2>11. QED
    BY <2>4, <2>5, <2>9, <2>10, FollowsOn
<1>3. QED
  BY <1>1, <1>2

\* What is on rows 0..to goes into history, and nothing is lost of it.
LEMMA Pushes ==
  ASSUME NEW v, Sound(v), v.pendingRow = NoRow, NEW to \in Int, to <= v.rows - 1, NEW w, w = pushRowsToHistory(v, to)
  PROVE  /\ Follows(v, w) /\ w.pendingRow = NoRow /\ Shown(w) = Shown(v)
         /\ \A r \in 0..to : Marks(w.screen[r]) = {}
<1>1. PICK n \in Nat : n = v.rows /\ n > 0
  BY ScreenType
<1>2. \A r \in 0..to : r \in 0..n - 1
  BY <1>1
<1>3. \A r \in 0..to : Line(v, r) = <<>> <=> Marks(v.screen[r]) = {}
  BY <1>1, <1>2, LineType
<1>4. PICK shown : shown = {r \in 0..to : Line(v, r) # <<>>}
  OBVIOUS
<1>5. CASE shown = {}
  <2>1. w = v
    BY <1>4, <1>5 DEF pushRowsToHistory
  <2>2. \A r \in 0..to : Marks(v.screen[r]) = {}
    BY <1>3, <1>4, <1>5
  <2>3. QED
    BY <2>1, <2>2, FollowsSelf
<1>6. CASE shown # {}
  <2>1. PICK m, f : m = Max(shown) /\ f = TextsOf(v)
    OBVIOUS
  <2>2. m \in shown /\ \A y \in shown : y <= m
    <3>1. shown \subseteq 0..n
      BY <1>1, <1>2, <1>4
    <3>2. QED
      BY <1>6, <2>1, <3>1, Largest
  <2>3. m \in 0..to /\ m \in 0..n - 1
    BY <1>2, <1>4, <2>2
  <2>4. f \in Texts(v.rows) /\ Shown(v) = InkOf(v.log \o Body(f, 0, v.rows))
    BY <2>1, ShownIs
  <2>5. \A r \in 0..v.rows - 1 : f[r] = Line(v, r)
    <3>1. \A r \in 0..n - 1 : r # NoRow
      BY <1>1 DEF NoRow
    <3>2. QED
      BY <1>1, <2>1, <3>1, TextOf
  <2>6. w = commitPrefix(v, m, f[m])
    BY <1>1, <1>4, <1>6, <2>1, <2>3, <2>5 DEF pushRowsToHistory
  <2>7. m \in 0..v.rows - 1
    BY <1>1, <2>3
  <2>8. /\ Sound(w) /\ Carried(v, w) /\ w.pendingRow = NoRow
        /\ \A r \in 0..m : Marks(w.screen[r]) = {}
        /\ \A r \in m + 1..v.rows - 1 : w.screen[r] = v.screen[r]
        /\ Shown(w) = InkOf(v.log \o Body(f, 0, v.rows))
    BY <2>4, <2>5, <2>6, <2>7, Commits
  <2>9. ASSUME NEW r \in 0..to PROVE Marks(w.screen[r]) = {}
    <3>1. CASE r <= m
      <4>1. r \in 0..m
        BY <2>3, <3>1
      <4>2. QED
        BY <2>8, <4>1
    <3>2. CASE r > m
      <4>1. r \in m + 1..v.rows - 1 /\ r \notin shown
        BY <1>1, <1>2, <2>2, <2>3, <3>2
      <4>2. Marks(v.screen[r]) = {}
        BY <1>3, <1>4, <4>1
      <4>3. QED
        BY <2>8, <4>1, <4>2
    <3>3. r <= m \/ r > m
      BY <2>3
    <3>4. QED
      BY <3>1, <3>2, <3>3
  <2>10. Follows(v, w)
    BY <2>8 DEF Follows, Carried, Seat
  <2>11. QED
    BY <2>4, <2>8, <2>9, <2>10
<1>7. QED
  BY <1>5, <1>6

\* The erase of a whole row is rendered from the text that is kept of it.
LEMMA PendingErase ==
  ASSUME NEW v, Sound(v), NEW row \in 0..v.rows - 1, v.pendingRow \in {NoRow, row}, NEW w, w = setPendingErase(v, row)
  PROVE  /\ Sound(w) /\ Seat(w) = Seat(v) /\ w.ink = v.ink /\ w.lost = v.lost /\ w.pendingRow \in {NoRow, row}
         /\ Shown(w) = Shown(v)
<1>1. PICK e : e = Erased(v, row, WholeRow(v))
  OBVIOUS
<1>2. /\ Sound(e) /\ Repainted(v, e) /\ \A q \in 0..v.rows - 1 : q # row => e.screen[q] = v.screen[q]
      /\ Marks(e.screen[row]) = {} /\ (Marks(v.screen[row]) = {} => Shown(e) = Shown(v))
  <2>1. PICK cells : cells = WholeRow(v)
    OBVIOUS
  <2>2. e = Erased(v, row, cells)
    BY <1>1, <2>1
  <2>3. /\ Sound(e) /\ Repainted(v, e) /\ \A q \in 0..v.rows - 1 : q # row => e.screen[q] = v.screen[q]
        /\ WholeRow(v) \subseteq cells => Marks(e.screen[row]) = {}
        /\ Marks(v.screen[row]) = {} => Shown(e) = Shown(v)
    BY <2>2, ErasedSound
  <2>4. QED
    BY <2>1, <2>3
<1>3. Line(v, row) = <<>> <=> Marks(v.screen[row]) = {}
  BY LineType
<1>4. CASE Line(v, row) = <<>>
  <2>1. w = e
    BY <1>1, <1>4 DEF setPendingErase
  <2>2. QED
    BY <1>2, <1>3, <1>4, <2>1 DEF Repainted, Seat
<1>5. CASE Line(v, row) # <<>>
  <2>1. v.pendingRow = NoRow
    BY <1>3, <1>5 DEF Sound, Erasing
  <2>2. PICK u, text : u = [v EXCEPT !.pendingRow = row, !.pendingText = text] /\ text = Line(v, row)
    OBVIOUS
  <2>a. /\ DOMAIN u = Fields
        /\ u.cols = v.cols /\ u.rows = v.rows /\ u.x = v.x /\ u.y = v.y /\ u.savedX = v.savedX /\ u.savedY = v.savedY
        /\ u.history = v.history /\ u.head = v.head /\ u.dropped = v.dropped /\ u.log = v.log
        /\ u.pendingRow = row /\ u.pendingText = text /\ u.committedRows = v.committedRows
        /\ u.ink = v.ink /\ u.lost = v.lost /\ u.screen = v.screen
    BY <2>2 DEF Sound, Shaped, Fields
  <2>b. w = Erased(u, row, WholeRow(v))
    BY <1>5, <2>2, <2>a DEF setPendingErase, WholeRow
  <2>c. e.screen = w.screen
    BY <1>1, <2>a, <2>b DEF Erased, Sound, Shaped, Fields
  <2>d. /\ DOMAIN w = Fields
        /\ w.cols = u.cols /\ w.rows = u.rows /\ w.x = u.x /\ w.y = u.y /\ w.savedX = u.savedX /\ w.savedY = u.savedY
        /\ w.history = u.history /\ w.head = u.head /\ w.dropped = u.dropped /\ w.log = u.log
        /\ w.pendingRow = u.pendingRow /\ w.pendingText = u.pendingText /\ w.committedRows = u.committedRows
        /\ w.ink = u.ink /\ w.lost = u.lost
    BY <2>a, <2>b DEF Erased, Fields
  <2>3. /\ DOMAIN w = Fields
        /\ w.cols = e.cols /\ w.rows = e.rows /\ w.x = e.x /\ w.y = e.y /\ w.savedX = e.savedX /\ w.savedY = e.savedY
        /\ w.history = e.history /\ w.head = e.head /\ w.dropped = e.dropped /\ w.log = e.log
        /\ w.pendingRow = row /\ w.pendingText = Line(v, row) /\ w.committedRows = e.committedRows
        /\ w.ink = e.ink /\ w.lost = e.lost /\ w.screen = e.screen
    BY <1>2, <2>2, <2>a, <2>c, <2>d DEF Repainted
  <2>4. Shaped(w)
    BY <1>2, <2>3 DEF Sound, Shaped
  <2>5. Erasing(w)
    <3>1. row \in 0..w.rows - 1 /\ Marks(w.screen[row]) = {} /\ Line(v, row) \in Seq(Int)
      BY <1>2, <2>3, LineType DEF Repainted
    <3>2. QED
      BY <1>5, <2>3, <3>1 DEF Erasing
  <2>6. Kept(w)
    BY <1>2, <2>3 DEF Sound, Kept
  <2>7. Page(w) = Page(v)
    <3>1. w.rows = v.rows /\ w.log = v.log /\ v.rows \in Nat
      BY <1>2, <2>3, ScreenType DEF Repainted
    <3>2. ASSUME NEW i \in 1..v.rows
          PROVE  (IF i - 1 = w.pendingRow THEN w.pendingText ELSE Line(w, i - 1))
                   = IF i - 1 = v.pendingRow THEN v.pendingText ELSE Line(v, i - 1)
      <4>1. i - 1 \in 0..v.rows - 1 /\ i - 1 # NoRow
        BY <3>1 DEF NoRow
      <4>2. CASE i - 1 = row
        BY <2>1, <2>3, <4>1, <4>2
      <4>3. CASE i - 1 # row
        <5>1. Line(w, i - 1) = Line(v, i - 1)
          BY <1>2, <2>3, <4>1, <4>3 DEF Line
        <5>2. QED
          BY <2>1, <2>3, <4>1, <4>3, <5>1
      <4>4. QED
        BY <4>2, <4>3
    <3>3. QED
      BY <3>1, <3>2 DEF Page
  <2>8. QED
    BY <1>2, <2>3, <2>4, <2>5, <2>6, <2>7 DEF Sound, Repainted, Seat, Shown
<1>6. QED
  BY <1>4, <1>5

\* Only the screen and the number of committed rows may differ.
Reframed(v, w) ==
  /\ DOMAIN w = Fields
  /\ w.cols = v.cols /\ w.rows = v.rows /\ w.x = v.x /\ w.y = v.y /\ w.savedX = v.savedX /\ w.savedY = v.savedY
  /\ w.history = v.history /\ w.head = v.head /\ w.dropped = v.dropped /\ w.log = v.log
  /\ w.pendingRow = v.pendingRow /\ w.pendingText = v.pendingText
  /\ w.ink = v.ink /\ w.strayed = v.strayed /\ w.lost = v.lost

\* Only the rows and the number of the committed ones change.
LEMMA Reframe ==
  ASSUME NEW v, Sound(v), v.pendingRow = NoRow, NEW w, Reframed(v, w),
         w.screen \in [0..v.rows - 1 -> Rows(v.cols)], w.committedRows \in 0..v.rows,
         \A r \in 0..w.committedRows - 1 : Marks(w.screen[r]) = {}
  PROVE  Follows(v, w) /\ w.pendingRow = NoRow
<1>1. Shaped(w)
  BY DEF Sound, Shaped, Reframed
<1>2. Erasing(w)
  BY DEF Sound, Erasing, Reframed
<1>3. Kept(w)
  BY DEF Sound, Kept, Reframed
<1>4. QED
  BY <1>1, <1>2, <1>3 DEF Sound, Follows, Reframed, Seat

\* Which rows a shift brings where.
LEMMA ShiftUp ==
  ASSUME NEW v, Sound(v), NEW from \in Nat, NEW k \in Nat, k <= v.rows - from, NEW w, w = ShiftedUp(v, from, k)
  PROVE  /\ Reframed(v, w) /\ w.committedRows = v.committedRows
         /\ w.screen \in [0..v.rows - 1 -> Rows(v.cols)]
         /\ \A r \in 0..v.rows - 1 : w.screen[r] = IF r < from THEN v.screen[r]
                                                   ELSE IF r < v.rows - k THEN v.screen[r + k] ELSE blankRow(v.cols)
<1>1. PICK n \in Nat : n = v.rows /\ n > 0
  BY ScreenType
<1>2. v.screen \in [0..n - 1 -> Rows(v.cols)] /\ DOMAIN v.screen = 0..n - 1
  BY <1>1, ScreenType
<1> DEFINE s == [r \in 0..n - 1 |-> IF r < from THEN v.screen[r]
                                    ELSE IF r < n - k THEN v.screen[r + k] ELSE blankRow(v.cols)]
<1>3. w = [v EXCEPT !.screen = s]
  BY <1>1, <1>2 DEF ShiftedUp, Sound, Shaped, Fields
<1>4. \A r \in 0..n - 1 : s[r] \in Rows(v.cols)
  <2>1. blankRow(v.cols) \in Rows(v.cols)
    BY ScreenType, BlankRow
  <2>2. \A r \in 0..n - 1 : r < n - k => r + k \in 0..n - 1
    BY <1>1
  <2>3. QED
    BY <1>2, <2>1, <2>2
<1>5. s \in [0..n - 1 -> Rows(v.cols)]
  BY <1>4
<1>6. \A r \in 0..n - 1 : s[r] = IF r < from THEN v.screen[r]
                                 ELSE IF r < n - k THEN v.screen[r + k] ELSE blankRow(v.cols)
  OBVIOUS
<1> HIDE DEF s
<1>7. Reframed(v, w) /\ w.committedRows = v.committedRows /\ w.screen = s
  BY <1>3 DEF Sound, Shaped, Fields, Reframed
<1>8. QED
  BY <1>1, <1>5, <1>6, <1>7

\* The rows of the screen move down.
LEMMA ShiftDown ==
  ASSUME NEW v, Sound(v), NEW from \in Nat, NEW k \in Nat, k <= v.rows - from, NEW w, w = ShiftedDown(v, from, k)
  PROVE  /\ Reframed(v, w) /\ w.committedRows = v.committedRows
         /\ w.screen \in [0..v.rows - 1 -> Rows(v.cols)]
         /\ \A r \in 0..v.rows - 1 : w.screen[r] = IF r < from THEN v.screen[r]
                                                   ELSE IF r >= from + k THEN v.screen[r - k] ELSE blankRow(v.cols)
<1>1. PICK n \in Nat : n = v.rows /\ n > 0
  BY ScreenType
<1>2. v.screen \in [0..n - 1 -> Rows(v.cols)] /\ DOMAIN v.screen = 0..n - 1
  BY <1>1, ScreenType
<1> DEFINE s == [r \in 0..n - 1 |-> IF r < from THEN v.screen[r]
                                    ELSE IF r >= from + k THEN v.screen[r - k] ELSE blankRow(v.cols)]
<1>3. w = [v EXCEPT !.screen = s]
  BY <1>1, <1>2 DEF ShiftedDown, Sound, Shaped, Fields
<1>4. \A r \in 0..n - 1 : s[r] \in Rows(v.cols)
  <2>1. blankRow(v.cols) \in Rows(v.cols)
    BY ScreenType, BlankRow
  <2>2. \A r \in 0..n - 1 : r >= from + k => r - k \in 0..n - 1
    BY <1>1
  <2>3. QED
    BY <1>2, <2>1, <2>2
<1>5. s \in [0..n - 1 -> Rows(v.cols)]
  BY <1>4
<1>6. \A r \in 0..n - 1 : s[r] = IF r < from THEN v.screen[r]
                                 ELSE IF r >= from + k THEN v.screen[r - k] ELSE blankRow(v.cols)
  OBVIOUS
<1> HIDE DEF s
<1>7. Reframed(v, w) /\ w.committedRows = v.committedRows /\ w.screen = s
  BY <1>3 DEF Sound, Shaped, Fields, Reframed
<1>8. QED
  BY <1>1, <1>5, <1>6, <1>7

\* What a shift must bring for its committed rows to be blank.
LEMMA Shifts ==
  ASSUME NEW v, Sound(v), v.pendingRow = NoRow, NEW s, Reframed(v, s), s.screen \in [0..v.rows - 1 -> Rows(v.cols)],
         NEW c \in 0..v.rows, \A r \in 0..c - 1 : Marks(s.screen[r]) = {}, NEW w, w = [s EXCEPT !.committedRows = c]
  PROVE  Follows(v, w) /\ w.pendingRow = NoRow
<1>1. Reframed(v, w) /\ w.committedRows = c /\ w.screen = s.screen
  BY DEF Reframed, Fields
<1>2. QED
  BY <1>1, Reframe

\* The committed rows are blank.
LEMMA BlankAbove ==
  ASSUME NEW v, Sound(v)
  PROVE  /\ v.committedRows \in Nat /\ v.committedRows <= v.rows /\ v.rows \in Nat /\ v.rows > 0
         /\ \A r \in 0..v.committedRows - 1 : Marks(v.screen[r]) = {}
         /\ Marks(blankRow(v.cols)) = {}
<1>1. Marks(blankRow(v.cols)) = {}
  BY ScreenType, BlankRow
<1>2. v.committedRows \in 0..v.rows /\ v.rows \in Nat \ {0} /\ \A r \in 0..v.committedRows - 1 : Marks(v.screen[r]) = {}
  BY DEF Sound, Shaped
<1>3. v.committedRows \in Nat /\ v.committedRows <= v.rows /\ v.rows \in Nat /\ v.rows > 0
  BY <1>2
<1>4. QED
  BY <1>1, <1>2, <1>3

\* A scroll down keeps what the invariant says (scrollDown).
LEMMA ScrollsDown ==
  ASSUME NEW v, Sound(v), NEW n \in Int, NEW w, w = scrollDown(v, n)
  PROVE  Follows(v, w)
<1>1. CASE n <= 0
  BY <1>1, FollowsSelf DEF scrollDown
<1>2. CASE n > 0
  <2>1. PICK u : u = resolvePending(v)
    OBVIOUS
  <2>2. Follows(v, u) /\ u.pendingRow = NoRow /\ Sound(u) /\ u.rows = v.rows
    BY <2>1, Resolves DEF Follows, Seat
  <2>3. PICK h \in Nat, d \in Nat : h = u.rows /\ d = u.committedRows /\ d <= h /\ h > 0
    BY <2>2, BlankAbove
  <2>4. PICK k \in Nat : k = Min({n, h}) /\ k <= h - 0 /\ k > 0
    <3>1. Min({n, h}) = IF n <= h THEN n ELSE h
      BY MinTwo
    <3>2. Min({n, h}) \in Nat /\ Min({n, h}) <= h - 0 /\ Min({n, h}) > 0
      BY <1>2, <2>3, <3>1
    <3>3. QED
      BY <3>2
  <2>5. PICK s, z : s = ShiftedDown(u, z, k) /\ z = 0
    OBVIOUS
  <2>6. /\ Reframed(u, s) /\ s.committedRows = u.committedRows /\ s.screen \in [0..u.rows - 1 -> Rows(u.cols)]
        /\ \A r \in 0..u.rows - 1 : s.screen[r] = IF r < 0 THEN u.screen[r]
                                                  ELSE IF r >= 0 + k THEN u.screen[r - k] ELSE blankRow(u.cols)
    <3>1. z \in Nat /\ k \in Nat /\ k <= u.rows - z
      BY <2>3, <2>4, <2>5
    <3>2. /\ Reframed(u, s) /\ s.committedRows = u.committedRows /\ s.screen \in [0..u.rows - 1 -> Rows(u.cols)]
          /\ \A r \in 0..u.rows - 1 : s.screen[r] = IF r < z THEN u.screen[r]
                                                    ELSE IF r >= z + k THEN u.screen[r - k] ELSE blankRow(u.cols)
      BY <2>2, <2>5, <3>1, ShiftDown
    <3>3. QED
      BY <2>5, <3>2
  <2>7. PICK c \in 0..h : c = Min({h, d + k}) /\ c <= d + k
    <3>1. Min({h, d + k}) = IF h <= d + k THEN h ELSE d + k
      BY MinTwo
    <3>2. Min({h, d + k}) \in 0..h /\ Min({h, d + k}) <= d + k
      BY <2>3, <3>1
    <3>3. QED
      BY <3>2
  <2>8. ASSUME NEW r \in 0..c - 1 PROVE Marks(s.screen[r]) = {}
    <3>1. r \in 0..h - 1 /\ ~(r < 0) /\ (r >= 0 + k => r - k \in 0..d - 1)
      BY <2>3, <2>7
    <3>2. CASE r >= 0 + k
      BY <2>2, <2>3, <2>6, <3>1, <3>2, BlankAbove
    <3>3. CASE ~(r >= 0 + k)
      BY <2>2, <2>3, <2>6, <3>1, <3>3, BlankAbove
    <3>4. QED
      BY <3>2, <3>3
  <2>9. w = [s EXCEPT !.committedRows = c]
    <3>1. w = [ShiftedDown(u, 0, k) EXCEPT !.committedRows = Min({v.rows, @ + k})]
      BY <1>2, <2>1, <2>2, <2>3, <2>4 DEF scrollDown
    <3>2. QED
      BY <2>2, <2>3, <2>5, <2>6, <2>7, <3>1
  <2>10. Follows(u, w)
    BY <2>2, <2>3, <2>6, <2>7, <2>8, <2>9, Shifts
  <2>11. QED
    BY <2>2, <2>10, FollowsOn
<1>3. QED
  BY <1>1, <1>2

\* The number of rows that are inserted, deleted or scrolled.
LEMMA AtMost ==
  ASSUME NEW n \in Int, n > 0, NEW m \in Nat, m > 0
  PROVE  Min({n, m}) \in Nat /\ Min({n, m}) <= m /\ Min({n, m}) > 0
<1>1. Min({n, m}) = IF n <= m THEN n ELSE m
  BY MinTwo
<1>2. QED
  BY <1>1

\* So does the insert of lines (insertLines).
LEMMA InsertsLines ==
  ASSUME NEW v, Sound(v), v.y \in 0..v.rows - 1, NEW n \in Int, NEW w, w = insertLines(v, n)
  PROVE  Follows(v, w)
<1>1. CASE n <= 0
  BY <1>1, FollowsSelf DEF insertLines
<1>2. CASE n > 0
  <2>1. PICK u : u = resolvePending(v)
    OBVIOUS
  <2>2. Follows(v, u) /\ u.pendingRow = NoRow /\ Sound(u) /\ u.rows = v.rows
    BY <2>1, Resolves DEF Follows, Seat
  <2>3. PICK h \in Nat, d \in Nat, y \in Nat : h = u.rows /\ d = u.committedRows /\ d <= h /\ h > 0 /\ y = v.y /\ y < h
    BY <2>2, BlankAbove
  <2>4. PICK k \in Nat : k = Min({n, h - y}) /\ k <= h - y
    <3>1. h - y \in Nat /\ h - y > 0
      BY <2>3
    <3>2. QED
      BY <1>2, <3>1, AtMost
  <2>5. PICK s : s = ShiftedDown(u, y, k)
    OBVIOUS
  <2>6. /\ Reframed(u, s) /\ s.committedRows = u.committedRows /\ s.screen \in [0..u.rows - 1 -> Rows(u.cols)]
        /\ \A r \in 0..u.rows - 1 : s.screen[r] = IF r < y THEN u.screen[r]
                                                  ELSE IF r >= y + k THEN u.screen[r - k] ELSE blankRow(u.cols)
    <3>1. k <= u.rows - y
      BY <2>3, <2>4
    <3>2. QED
      BY <2>2, <2>5, <3>1, ShiftDown
  <2>7. PICK c : c = IF y < d THEN Min({h, d + k}) ELSE d
    OBVIOUS
  <2>8. c \in 0..h /\ (y < d => c <= d + k) /\ (~(y < d) => c <= y /\ c = d)
    <3>1. Min({h, d + k}) = IF h <= d + k THEN h ELSE d + k
      BY MinTwo
    <3>2. Min({h, d + k}) \in 0..h /\ Min({h, d + k}) <= d + k
      BY <2>3, <3>1
    <3>3. QED
      BY <2>3, <2>7, <3>2
  <2>9. ASSUME NEW r \in 0..c - 1 PROVE Marks(s.screen[r]) = {}
    <3>1. /\ r \in 0..h - 1 /\ (r < y => r \in 0..d - 1)
          /\ (~(r < y) /\ r >= y + k => r - k \in 0..d - 1)
      BY <2>3, <2>8
    <3>2. CASE r < y
      BY <2>2, <2>3, <2>6, <3>1, <3>2, BlankAbove
    <3>3. CASE ~(r < y) /\ r >= y + k
      BY <2>2, <2>3, <2>6, <3>1, <3>3, BlankAbove
    <3>4. CASE ~(r < y) /\ ~(r >= y + k)
      BY <2>2, <2>3, <2>6, <3>1, <3>4, BlankAbove
    <3>5. QED
      BY <3>2, <3>3, <3>4
  <2>10. w = [s EXCEPT !.committedRows = c]
    <3>1. w = [ShiftedDown(u, y, k) EXCEPT !.committedRows = IF y < @ THEN Min({h, @ + k}) ELSE @]
      BY <1>2, <2>1, <2>2, <2>3, <2>4 DEF insertLines
    <3>2. QED
      BY <2>3, <2>5, <2>6, <2>7, <3>1
  <2>11. Follows(u, w)
    BY <2>2, <2>3, <2>6, <2>8, <2>9, <2>10, Shifts
  <2>12. QED
    BY <2>2, <2>11, FollowsOn
<1>3. QED
  BY <1>1, <1>2

\* So does the delete of lines (deleteLines).
LEMMA DeletesLines ==
  ASSUME NEW v, Sound(v), v.y \in 0..v.rows - 1, NEW n \in Int, NEW w, w = deleteLines(v, n)
  PROVE  Follows(v, w)
<1>1. CASE n <= 0
  BY <1>1, FollowsSelf DEF deleteLines
<1>2. CASE n > 0
  <2>1. PICK u : u = resolvePending(v)
    OBVIOUS
  <2>2. Follows(v, u) /\ u.pendingRow = NoRow /\ Sound(u) /\ u.rows = v.rows
    BY <2>1, Resolves DEF Follows, Seat
  <2>3. PICK h \in Nat, d \in Nat, y \in Nat : h = u.rows /\ d = u.committedRows /\ d <= h /\ h > 0 /\ y = v.y /\ y < h
    BY <2>2, BlankAbove
  <2>4. PICK k \in Nat : k = Min({n, h - y}) /\ k <= h - y
    <3>1. h - y \in Nat /\ h - y > 0
      BY <2>3
    <3>2. QED
      BY <1>2, <3>1, AtMost
  <2>5. PICK s : s = ShiftedUp(u, y, k)
    OBVIOUS
  <2>6. /\ Reframed(u, s) /\ s.committedRows = u.committedRows /\ s.screen \in [0..u.rows - 1 -> Rows(u.cols)]
        /\ \A r \in 0..u.rows - 1 : s.screen[r] = IF r < y THEN u.screen[r]
                                                  ELSE IF r < u.rows - k THEN u.screen[r + k] ELSE blankRow(u.cols)
    <3>1. k <= u.rows - y
      BY <2>3, <2>4
    <3>2. QED
      BY <2>2, <2>5, <3>1, ShiftUp
  <2>7. PICK c : c = IF y < d THEN Max({y, d - k}) ELSE d
    OBVIOUS
  <2>8. c \in 0..h /\ (y < d => c <= d /\ (c <= y \/ c = d - k)) /\ (~(y < d) => c <= y /\ c = d)
    <3>1. Max({y, d - k}) = IF y >= d - k THEN y ELSE d - k
      BY MaxTwo
    <3>2. y < d => Max({y, d - k}) \in 0..h /\ Max({y, d - k}) <= d /\ (Max({y, d - k}) <= y \/ Max({y, d - k}) = d - k)
      BY <2>3, <3>1
    <3>3. QED
      BY <2>3, <2>7, <3>2
  <2>9. ASSUME NEW r \in 0..c - 1 PROVE Marks(s.screen[r]) = {}
    <3>1. /\ r \in 0..h - 1 /\ (r < y => r \in 0..d - 1)
          /\ (~(r < y) /\ r < h - k => r + k \in 0..d - 1)
      BY <2>3, <2>8
    <3>2. CASE r < y
      BY <2>2, <2>3, <2>6, <3>1, <3>2, BlankAbove
    <3>3. CASE ~(r < y) /\ r < h - k
      BY <2>2, <2>3, <2>6, <3>1, <3>3, BlankAbove
    <3>4. CASE ~(r < y) /\ ~(r < h - k)
      BY <2>2, <2>3, <2>6, <3>1, <3>4, BlankAbove
    <3>5. QED
      BY <3>2, <3>3, <3>4
  <2>10. w = [s EXCEPT !.committedRows = c]
    <3>1. w = [ShiftedUp(u, y, k) EXCEPT !.committedRows = IF y < @ THEN Max({y, @ - k}) ELSE @]
      BY <1>2, <2>1, <2>2, <2>3, <2>4 DEF deleteLines
    <3>2. QED
      BY <2>3, <2>5, <2>6, <2>7, <3>1
  <2>11. Follows(u, w)
    BY <2>2, <2>3, <2>6, <2>8, <2>9, <2>10, Shifts
  <2>12. QED
    BY <2>2, <2>11, FollowsOn
<1>3. QED
  BY <1>1, <1>2

\* What scrolls off goes into history, but for the rows that went before.
LEMMA ScrollsUp ==
  ASSUME NEW v, Sound(v), NEW n \in Int, NEW w, w = scrollUp(v, n)
  PROVE  Follows(v, w) /\ Shown(w) = Shown(v) /\ (n > 0 => w.pendingRow = NoRow)
<1>1. CASE n <= 0
  BY <1>1, FollowsSelf DEF scrollUp
<1>2. CASE n > 0
  <2>1. PICK u : u = resolvePending(v)
    OBVIOUS
  <2>2. Follows(v, u) /\ u.pendingRow = NoRow /\ Sound(u) /\ u.rows = v.rows /\ Shown(u) = Shown(v)
    BY <2>1, Resolves DEF Follows, Seat
  <2>3. PICK h \in Nat, d \in Nat : h = u.rows /\ d = u.committedRows /\ d <= h /\ h > 0
    BY <2>2, BlankAbove
  <2>4. PICK k \in Nat : k = Min({n, h}) /\ k <= h /\ k > 0
    BY <1>2, <2>3, AtMost
  <2>5. PICK skip \in Nat : skip = Min({k, d}) /\ skip <= k /\ skip <= d
    <3>1. Min({k, d}) = IF k <= d THEN k ELSE d
      BY MinTwo
    <3>2. Min({k, d}) \in Nat /\ Min({k, d}) <= k /\ Min({k, d}) <= d
      BY <3>1
    <3>3. QED
      BY <3>2
  <2>6. PICK c : c = Max({0, d - k}) /\ c \in 0..h /\ (c = 0 \/ c = d - k)
    <3>1. Max({0, d - k}) = IF 0 >= d - k THEN 0 ELSE d - k
      BY MaxTwo
    <3>2. Max({0, d - k}) \in 0..h /\ (Max({0, d - k}) = 0 \/ Max({0, d - k}) = d - k)
      BY <2>3, <3>1
    <3>3. QED
      BY <3>2
  <2>7. PICK f, lines : f = TextsOf(u) /\ lines = [i \in 1..k - skip |-> Line(u, skip + i - 1)]
    OBVIOUS
  <2>8. f \in Texts(h) /\ Shown(u) = InkOf(u.log \o Body(f, 0, h)) /\ u.log \in Seq(Seq(Int))
    BY <2>2, <2>3, <2>7, ShownIs
  <2>9. \A r \in 0..h - 1 : f[r] = Line(u, r)
    <3>1. \A r \in 0..h - 1 : r # NoRow
      BY DEF NoRow
    <3>2. QED
      BY <2>2, <2>3, <2>7, <3>1, TextOf
  <2>10. Span(f, h, 0, skip) /\ Span(f, h, skip, k) /\ Span(f, h, k, h)
    BY <2>3, <2>4, <2>5, <2>8 DEF Span
  <2>11. lines = Body(f, skip, k) /\ lines \in Seq(Seq(Int))
    <3>1. \A i \in 1..k - skip : skip + i - 1 \in 0..h - 1
      BY <2>4, <2>5
    <3>2. lines = Body(f, skip, k)
      BY <2>7, <2>9, <3>1 DEF Body
    <3>3. QED
      BY <2>10, <3>2, BodyType
  <2>12. PICK a : a = appendHistoryLines(u, lines)
    OBVIOUS
  <2>13. /\ Sound(a) /\ Seat(a) = Seat(u) /\ a.log = u.log \o lines
         /\ a.screen = u.screen /\ a.committedRows = u.committedRows /\ a.pendingRow = u.pendingRow
         /\ a.pendingText = u.pendingText /\ a.strayed = u.strayed
    <3>1. Sound(u) /\ lines \in Seq(Seq(Int))
      BY <2>2, <2>11
    <3>2. QED
      BY <2>12, <3>1, Appended
  <2>14. a.ink = u.ink /\ a.lost = u.lost
    BY <2>2, <2>12 DEF appendHistoryLines, Sound, Shaped, Fields
  <2>15. Follows(u, a) /\ a.rows = h /\ a.cols = u.cols
    BY <2>3, <2>13, <2>14 DEF Follows, Seat
  <2>16. PICK s, z : s = ShiftedUp(a, z, k) /\ z = 0
    OBVIOUS
  <2>17. /\ Reframed(a, s) /\ s.committedRows = a.committedRows /\ s.screen \in [0..a.rows - 1 -> Rows(a.cols)]
         /\ \A r \in 0..a.rows - 1 : s.screen[r] = IF r < z THEN a.screen[r]
                                                   ELSE IF r < a.rows - k THEN a.screen[r + k] ELSE blankRow(a.cols)
    <3>1. z \in Nat /\ k <= a.rows - z
      BY <2>4, <2>15, <2>16
    <3>2. QED
      BY <2>13, <2>16, <3>1, ShiftUp
  <2>18. \A r \in 0..h - 1 : s.screen[r] = IF r < h - k THEN u.screen[r + k] ELSE blankRow(u.cols)
    <3>1. \A r \in 0..h - 1 : ~(r < z)
      BY <2>16
    <3>2. QED
      BY <2>13, <2>15, <2>17, <3>1
  <2>19. ASSUME NEW r \in 0..c - 1 PROVE Marks(s.screen[r]) = {}
    <3>1. r \in 0..h - 1 /\ r + k \in 0..d - 1
      BY <2>3, <2>6
    <3>2. CASE r < h - k
      BY <2>2, <2>3, <2>18, <3>1, <3>2, BlankAbove
    <3>3. CASE ~(r < h - k)
      BY <2>2, <2>18, <3>1, <3>3, BlankAbove
    <3>4. QED
      BY <3>2, <3>3
  <2>20. w = [s EXCEPT !.committedRows = c]
    <3>1. w = [ShiftedUp(a, 0, k) EXCEPT !.committedRows = Max({0, @ - k})]
      BY <1>2, <2>1, <2>2, <2>3, <2>4, <2>5, <2>7, <2>12 DEF scrollUp
    <3>2. QED
      BY <2>3, <2>6, <2>13, <2>16, <2>17, <3>1
  <2>21. Follows(a, w) /\ w.pendingRow = NoRow
    <3>1. a.pendingRow = NoRow /\ c \in 0..a.rows
      BY <2>2, <2>6, <2>13, <2>15
    <3>2. \A r \in 0..c - 1 : Marks(s.screen[r]) = {}
      BY <2>19
    <3>3. Sound(a) /\ Reframed(a, s) /\ s.screen \in [0..a.rows - 1 -> Rows(a.cols)]
      BY <2>13, <2>17
    <3>4. Reframed(a, w) /\ w.committedRows = c /\ w.screen = s.screen
      BY <2>20, <3>3 DEF Reframed, Fields
    <3>5. QED
      BY <3>1, <3>2, <3>3, <3>4, Reframe
  <2>22. Follows(v, w)
    BY <2>2, <2>15, <2>21, FollowsOn
  <2>23. w.screen = s.screen /\ w.log = u.log \o lines /\ w.rows = h /\ Sound(w)
    BY <2>13, <2>15, <2>17, <2>20, <2>21 DEF Reframed, Fields, Follows
  <2>24. PICK g : g = TextsOf(w)
    OBVIOUS
  <2>25. g \in Texts(h) /\ Shown(w) = InkOf(w.log \o Body(g, 0, h))
    BY <2>23, <2>24, ShownIs
  <2>26. \A r \in 0..h - 1 : g[r] = Line(w, r)
    <3>1. \A r \in 0..h - 1 : r # NoRow
      BY DEF NoRow
    <3>2. QED
      BY <2>21, <2>23, <2>24, <3>1, TextOf
  <2>27. PICK e \in Nat : e = h - k
    BY <2>4
  <2>28. \A r \in e..h - 1 : Inked(g[r]) = <<>>
    <3>1. \A r \in e..h - 1 : r \in 0..h - 1 /\ ~(r < h - k)
      BY <2>4, <2>27
    <3>2. \A r \in e..h - 1 : Marks(w.screen[r]) = {}
      BY <2>2, <2>18, <2>23, <3>1, BlankAbove
    <3>3. \A r \in e..h - 1 : Line(w, r) = <<>>
      BY <2>23, <3>1, <3>2, LineType
    <3>4. QED
      BY <2>26, <3>1, <3>3, InkedNone
  <2>29. \A r \in 0..e - 1 : Inked(g[r]) = Inked(f[r + k])
    <3>1. \A r \in 0..e - 1 : r \in 0..h - 1 /\ r + k \in 0..h - 1 /\ r < h - k
      BY <2>4, <2>27
    <3>2. \A r \in 0..e - 1 : Line(w, r) = Line(u, r + k)
      BY <2>18, <2>23, <3>1 DEF Line
    <3>3. QED
      BY <2>9, <2>26, <3>1, <3>2
  <2>30. Span(g, h, 0, e) /\ Span(g, h, e, h) /\ k + e = h /\ Span(g, h, 0, h)
    BY <2>4, <2>25, <2>27 DEF Span
  <2>31. InkOf(Body(g, 0, h)) = InkOf(Body(f, k, h))
    BY <2>10, <2>28, <2>29, <2>30, MovedShows
  <2>32. \A r \in 0..skip - 1 : Inked(f[r]) = <<>>
    <3>1. \A r \in 0..skip - 1 : r \in 0..h - 1 /\ r \in 0..d - 1
      BY <2>3, <2>5
    <3>2. \A r \in 0..skip - 1 : Line(u, r) = <<>>
      BY <2>2, <2>3, <3>1, BlankAbove, LineType
    <3>3. QED
      BY <2>9, <3>1, <3>2, InkedNone
  <2>33. InkOf((u.log \o Body(f, skip, k)) \o Body(g, 0, h)) = InkOf(u.log \o Body(f, 0, h))
    BY <2>8, <2>10, <2>30, <2>31, <2>32, ScrolledOff
  <2>34. Shown(w) = Shown(v)
    BY <2>2, <2>8, <2>11, <2>23, <2>25, <2>33
  <2>35. QED
    BY <2>21, <2>22, <2>34
<1>3. QED
  BY <1>1, <1>2

-----------------------------------------------------------------------------
(* The invariant.                                                          *)

\* The cursor is on the screen.
Placed(v) ==
  /\ v.x \in 0..v.cols - 1 /\ v.y \in 0..v.rows - 1 /\ v.savedX \in Int /\ v.savedY \in Int
  /\ v.ink \in Nat

\* A row whose erase is pending is the cursor's, unless CSI u took it away.
Steady(v) == v.strayed \in BOOLEAN /\ (v.pendingRow \in {NoRow, v.y} \/ v.strayed = TRUE)

Good(v) == Sound(v) /\ Placed(v) /\ Steady(v) /\ v.lost = FALSE

\* What keeps the invariant, for any size, tab stop, limit and number.
TermInv == Good(vt)

LEMMA FollowsGood == ASSUME NEW v, NEW w, Good(v), Follows(v, w) PROVE Good(w) /\ Seat(w) = Seat(v)
<1>1. Placed(w)
  BY DEF Good, Follows, Seat, Placed
<1>2. Steady(w)
  BY DEF Good, Follows, Seat, Steady
<1>3. QED
  BY <1>1, <1>2 DEF Good, Follows

\* Only the cursor moves.
LEMMA AlikeGood ==
  ASSUME NEW v, NEW w, Sound(v), Alike(v, w), Placed(w), Steady(w), w.lost = FALSE
  PROVE  Good(w) /\ Shown(w) = Shown(v)
  BY AlikeSound DEF Good

\* A step that takes nothing from the transcript.
LEMMA KeepsGood ==
  ASSUME TermInv, NEW v, Good(v), vt.strayed = TRUE \/ Shown(v) = Shown(vt), Keeps(v)
  PROVE  TermInv'
<1> DEFINE gone == v.lost \/ (~vt.strayed /\ Text(v) # Text(vt) /\ Shown(v) # Shown(vt))
<1>1. vt' = [v EXCEPT !.lost = gone]
  BY DEF Keeps, Edits
<1>2. gone = FALSE
  BY DEF Good
<1> HIDE DEF gone
<1>3. vt' = [v EXCEPT !.lost = FALSE]
  BY <1>1, <1>2
<1>4. DOMAIN v = Fields /\ v.lost = FALSE
  BY DEF Good, Sound, Shaped
<1>5. Alike(v, vt')
  BY <1>3, <1>4 DEF Alike, Fields
<1>6. /\ vt'.x = v.x /\ vt'.y = v.y /\ vt'.savedX = v.savedX /\ vt'.savedY = v.savedY /\ vt'.ink = v.ink
      /\ vt'.strayed = v.strayed /\ vt'.lost = FALSE /\ vt'.cols = v.cols /\ vt'.rows = v.rows /\ vt'.pendingRow = v.pendingRow
  BY <1>3, <1>4 DEF Fields
<1>7. Placed(vt') /\ Steady(vt')
  BY <1>6 DEF Good, Placed, Steady
<1>8. Good(vt')
  BY <1>5, <1>6, <1>7, AlikeGood DEF Good
<1>9. QED
  BY <1>8 DEF TermInv

\* A step that may overwrite what is on the screen.
LEMMA EditsGood == ASSUME NEW v, Good(v), Edits(v) PROVE TermInv'
<1>1. vt' = v
  BY DEF Edits
<1>2. Good(vt')
  BY <1>1
<1>3. QED
  BY <1>2 DEF TermInv

-----------------------------------------------------------------------------
(* The operations keep it.                                                 *)

\* What the invariant says of single fields.
LEMMA FlagsKept ==
  ASSUME NEW v, Good(v)
  PROVE  /\ DOMAIN v = Fields /\ v.strayed \in BOOLEAN /\ v.lost = FALSE /\ v.ink \in Nat
         /\ v.rows \in Nat \ {0} /\ v.cols \in Nat \ {0} /\ v.x \in 0..v.cols - 1 /\ v.y \in 0..v.rows - 1
         /\ v.savedX \in Int /\ v.savedY \in Int /\ Sound(v)
  BY DEF Good, Sound, Shaped, Placed, Steady

\* A pending erase is resolved, and nothing that was shown is lost (resolvePending).
LEMMA ResolvesGood ==
  ASSUME NEW v, Good(v), NEW w, w = resolvePending(v)
  PROVE  Good(w) /\ w.pendingRow = NoRow /\ Shown(w) = Shown(v) /\ Seat(w) = Seat(v)
<1>1. Sound(v)
  BY FlagsKept
<1>2. Follows(v, w) /\ w.pendingRow = NoRow /\ Shown(w) = Shown(v)
  BY <1>1, Resolves
<1>3. QED
  BY <1>2, FollowsGood

\* Rows go into history, and nothing that was shown is lost (pushRowsToHistory).
LEMMA PushesGood ==
  ASSUME NEW v, Good(v), v.pendingRow = NoRow, NEW to \in Int, to <= v.rows - 1, NEW w, w = pushRowsToHistory(v, to)
  PROVE  /\ Good(w) /\ w.pendingRow = NoRow /\ Shown(w) = Shown(v) /\ Seat(w) = Seat(v)
         /\ \A r \in 0..to : Marks(w.screen[r]) = {}
<1>1. Sound(v)
  BY FlagsKept
<1>2. /\ Follows(v, w) /\ w.pendingRow = NoRow /\ Shown(w) = Shown(v)
      /\ \A r \in 0..to : Marks(w.screen[r]) = {}
  BY <1>1, Pushes
<1>3. QED
  BY <1>2, FollowsGood

LEMMA RepaintGood ==
  ASSUME NEW v, Good(v), NEW w, Sound(w), Repainted(v, w)
  PROVE  Good(w) /\ Seat(w) = Seat(v) /\ w.pendingRow = v.pendingRow
<1>1. Follows(v, w)
  BY FollowsRepaint
<1>2. QED
  BY <1>1, FollowsGood DEF Repainted

\* Cells are erased; of a blank row nothing is lost.
LEMMA ErasedGood ==
  ASSUME NEW v, Good(v), NEW r \in 0..v.rows - 1, NEW cells, NEW w, w = Erased(v, r, cells)
  PROVE  /\ Good(w) /\ Seat(w) = Seat(v) /\ w.pendingRow = v.pendingRow
         /\ Marks(v.screen[r]) = {} => Shown(w) = Shown(v)
<1>s. Sound(v)
  BY FlagsKept
<1>1. /\ Sound(w) /\ Repainted(v, w)
      /\ Marks(v.screen[r]) = {} => Shown(w) = Shown(v)
  BY <1>s, ErasedSound
<1>2. QED
  BY <1>1, RepaintGood

\* Rows are cleared; of blank rows nothing is lost.
LEMMA ClearedGood ==
  ASSUME NEW v, Good(v), NEW gone, NEW w, w = Cleared(v, gone)
  PROVE  /\ Good(w) /\ Seat(w) = Seat(v) /\ w.pendingRow = v.pendingRow
         /\ (\A r \in gone \cap 0..v.rows - 1 : Marks(v.screen[r]) = {}) => Shown(w) = Shown(v)
         /\ \A r \in 0..v.rows - 1 : Marks(v.screen[r]) = {} => Marks(w.screen[r]) = {}
<1>s. Sound(v)
  BY FlagsKept
<1>1. /\ Sound(w) /\ Repainted(v, w)
      /\ \A r \in 0..v.rows - 1 : w.screen[r] = IF r \in gone THEN blankRow(v.cols) ELSE v.screen[r]
      /\ (\A r \in gone \cap 0..v.rows - 1 : Marks(v.screen[r]) = {}) => Shown(w) = Shown(v)
  <2>1. Sound(w) /\ Repainted(v, w)
    BY <1>s, ClearedSound
  <2>2. \A r \in 0..v.rows - 1 : w.screen[r] = IF r \in gone THEN blankRow(v.cols) ELSE v.screen[r]
    BY <1>s, ClearedSound
  <2>3. (\A r \in gone \cap 0..v.rows - 1 : Marks(v.screen[r]) = {}) => Shown(w) = Shown(v)
    BY <1>s, ClearedSound
  <2>4. QED
    BY <2>1, <2>2, <2>3
<1>2. Marks(blankRow(v.cols)) = {}
  BY FlagsKept, BlankAbove
<1>3. \A r \in 0..v.rows - 1 : Marks(v.screen[r]) = {} => Marks(w.screen[r]) = {}
  BY <1>1, <1>2
<1>4. QED
  BY <1>1, <1>3, RepaintGood

\* The cursor and the size, as numbers.
LEMMA Bounds ==
  ASSUME NEW v, Good(v)
  PROVE  v.x \in Nat /\ v.x < v.cols /\ v.cols \in Nat /\ v.y \in Nat /\ v.y < v.rows /\ v.rows \in Nat
<1>1. v.rows \in Nat \ {0} /\ v.cols \in Nat \ {0} /\ v.x \in 0..v.cols - 1 /\ v.y \in 0..v.rows - 1
  BY FlagsKept
<1>2. \A m \in Nat \ {0} : \A i \in 0..m - 1 : i \in Nat /\ i < m
  OBVIOUS
<1>3. QED
  BY <1>1, <1>2

\* Cells of the cursor's row are inserted or taken out.
LEMMA CharsGood ==
  ASSUME NEW v, Good(v), NEW row \in Rows(v.cols), Marks(v.screen[v.y]) = {} => Marks(row) = {},
         NEW w, w = [v EXCEPT !.screen[v.y] = row]
  PROVE  Good(w)
<1>1. DOMAIN v = Fields /\ v.y \in 0..v.rows - 1 /\ Sound(v)
  BY FlagsKept
<1>2. Repainted(v, w) /\ w.screen = [v.screen EXCEPT ![v.y] = row]
  BY <1>1 DEF Repainted, Fields
<1>3. Sound(w)
  BY <1>1, <1>2, RowRepaint
<1>4. QED
  BY <1>2, <1>3, RepaintGood

\* Cells come in at the cursor (insertChars).
LEMMA InsertsChars ==
  ASSUME NEW v, Good(v), NEW n \in Int, NEW w, w = insertChars(v, n)
  PROVE  Good(w)
<1>1. CASE n <= 0
  BY <1>1 DEF insertChars
<1>2. CASE n > 0
  <2>1. PICK m \in Nat, x \in Nat : m = v.cols /\ x = v.x /\ x < m
    BY Bounds
  <2>2. PICK k \in Nat : k = Min({n, m - x}) /\ k <= m - x
    <3>1. m - x \in Nat /\ m - x > 0
      BY <2>1
    <3>2. QED
      BY <1>2, <3>1, AtMost
  <2>3. PICK old : old = v.screen[v.y] /\ old \in Rows(m)
    BY <2>1, FlagsKept, ScreenType
  <2>4. DOMAIN old = 0..m - 1 /\ \A c \in 0..m - 1 : old[c] \in Int
    BY <2>3 DEF Rows
  <2> DEFINE row == [c \in 0..m - 1 |-> IF c < x THEN old[c] ELSE IF c < x + k THEN 0 ELSE old[c - k]]
  <2>5. w = [v EXCEPT !.screen[v.y] = row]
    BY <1>2, <2>1, <2>2, <2>3, <2>4, FlagsKept, ScreenType DEF insertChars, Fields, Blank
  <2>6. \A c \in 0..m - 1 : row[c] \in Int /\ (~(c < x) /\ ~(c < x + k) => c - k \in 0..m - 1)
    <3>1. \A c \in 0..m - 1 : ~(c < x) /\ ~(c < x + k) => c - k \in 0..m - 1
      <4>1. ASSUME NEW c \in 0..m - 1, ~(c < x), ~(c < x + k) PROVE c - k \in 0..m - 1
        <5>1. c \in Nat /\ c < m /\ x + k <= c
          BY <2>1, <2>2, <4>1
        <5>2. QED
          BY <2>1, <2>2, <5>1
      <4>2. QED
        BY <4>1
    <3>2. \A c \in 0..m - 1 : row[c] \in Int
      BY <2>4, <3>1
    <3>3. QED
      BY <3>1, <3>2
  <2>7. row \in Rows(m)
    BY <2>6 DEF Rows
  <2>8. \A c \in 0..m - 1 : row[c] = IF c < x THEN old[c] ELSE IF c < x + k THEN 0 ELSE old[c - k]
    OBVIOUS
  <2> HIDE DEF row
  <2>9. Marks(old) = {} => Marks(row) = {}
    <3>1. Marks(old) = {c \in 0..m - 1 : old[c] > 0} /\ Marks(row) = {c \in 0..m - 1 : row[c] > 0}
      BY <2>3, <2>7, MarksIn
    <3>2. SUFFICES ASSUME Marks(old) = {}, NEW c \in 0..m - 1, row[c] > 0 PROVE FALSE
      BY <3>1
    <3>3. \A d \in 0..m - 1 : ~(old[d] > 0)
      BY <3>1, <3>2
    <3>4. QED
      BY <2>6, <2>8, <3>2, <3>3
  <2>10. QED
    BY <2>1, <2>3, <2>5, <2>7, <2>9, CharsGood
<1>3. QED
  BY <1>1, <1>2

\* Cells are taken out at the cursor (deleteChars).
LEMMA DeletesChars ==
  ASSUME NEW v, Good(v), NEW n \in Int, NEW w, w = deleteChars(v, n)
  PROVE  Good(w)
<1>1. CASE n <= 0
  BY <1>1 DEF deleteChars
<1>2. CASE n > 0
  <2>1. PICK m \in Nat, x \in Nat : m = v.cols /\ x = v.x /\ x < m
    BY Bounds
  <2>2. PICK k \in Nat : k = Min({n, m - x}) /\ k <= m - x
    <3>1. m - x \in Nat /\ m - x > 0
      BY <2>1
    <3>2. QED
      BY <1>2, <3>1, AtMost
  <2>3. PICK old : old = v.screen[v.y] /\ old \in Rows(m)
    BY <2>1, FlagsKept, ScreenType
  <2>4. DOMAIN old = 0..m - 1 /\ \A c \in 0..m - 1 : old[c] \in Int
    BY <2>3 DEF Rows
  <2> DEFINE row == [c \in 0..m - 1 |-> IF c < x THEN old[c] ELSE IF c < m - k THEN old[c + k] ELSE 0]
  <2>5. w = [v EXCEPT !.screen[v.y] = row]
    BY <1>2, <2>1, <2>2, <2>3, <2>4, FlagsKept, ScreenType DEF deleteChars, Fields, Blank
  <2>6. \A c \in 0..m - 1 : row[c] \in Int /\ (~(c < x) /\ c < m - k => c + k \in 0..m - 1)
    <3>1. \A c \in 0..m - 1 : ~(c < x) /\ c < m - k => c + k \in 0..m - 1
      <4>1. ASSUME NEW c \in 0..m - 1, ~(c < x), c < m - k PROVE c + k \in 0..m - 1
        BY <2>1, <2>2, <4>1
      <4>2. QED
        BY <4>1
    <3>2. \A c \in 0..m - 1 : row[c] \in Int
      BY <2>4, <3>1
    <3>3. QED
      BY <3>1, <3>2
  <2>7. row \in Rows(m)
    BY <2>6 DEF Rows
  <2>8. \A c \in 0..m - 1 : row[c] = IF c < x THEN old[c] ELSE IF c < m - k THEN old[c + k] ELSE 0
    OBVIOUS
  <2> HIDE DEF row
  <2>9. Marks(old) = {} => Marks(row) = {}
    <3>1. Marks(old) = {c \in 0..m - 1 : old[c] > 0} /\ Marks(row) = {c \in 0..m - 1 : row[c] > 0}
      BY <2>3, <2>7, MarksIn
    <3>2. SUFFICES ASSUME Marks(old) = {}, NEW c \in 0..m - 1, row[c] > 0 PROVE FALSE
      BY <3>1
    <3>3. \A d \in 0..m - 1 : ~(old[d] > 0)
      BY <3>1, <3>2
    <3>4. QED
      BY <2>6, <2>8, <3>2, <3>3
  <2>10. QED
    BY <2>1, <2>3, <2>5, <2>7, <2>9, CharsGood
<1>3. QED
  BY <1>1, <1>2

\* Cells from the cursor on are erased (eraseChars).
LEMMA ErasesChars ==
  ASSUME NEW v, Good(v), NEW n \in Int, NEW w, w = eraseChars(v, n)
  PROVE  Good(w)
<1>1. PICK cells : cells = v.x..Min({v.cols, addSat(v.x, n)}) - 1
  OBVIOUS
<1>2. v.y \in 0..v.rows - 1
  BY FlagsKept
<1>3. w = v \/ w = Erased(v, v.y, cells)
  BY <1>1 DEF eraseChars
<1>4. QED
  BY <1>2, <1>3, ErasedGood

\* The insert, the delete and the scroll of lines.
LEMMA LinesGood ==
  ASSUME NEW v, Good(v), NEW n \in Int
  PROVE  Good(insertLines(v, n)) /\ Good(deleteLines(v, n)) /\ Good(scrollDown(v, n))
<1>1. Sound(v) /\ v.y \in 0..v.rows - 1
  BY FlagsKept
<1>2. Follows(v, insertLines(v, n)) /\ Follows(v, deleteLines(v, n)) /\ Follows(v, scrollDown(v, n))
  BY <1>1, InsertsLines, DeletesLines, ScrollsDown
<1>3. QED
  BY <1>2, FollowsGood

\* A scroll up loses nothing that was shown (scrollUp).
LEMMA ScrollGood ==
  ASSUME NEW v, Good(v), NEW n \in Int, NEW w, w = scrollUp(v, n)
  PROVE  Good(w) /\ Shown(w) = Shown(v) /\ Seat(w) = Seat(v) /\ (n > 0 => w.pendingRow = NoRow)
<1>1. Sound(v)
  BY FlagsKept
<1>2. Follows(v, w) /\ Shown(w) = Shown(v) /\ (n > 0 => w.pendingRow = NoRow)
  BY <1>1, ScrollsUp
<1>3. QED
  BY <1>2, FollowsGood

\* The cursor goes somewhere on the screen, from a row with no erase pending or
\* within its row.
LEMMA CursorGoes ==
  ASSUME NEW v, Good(v), NEW w, Alike(v, w), w.x \in 0..w.cols - 1, w.y \in 0..w.rows - 1,
         w.savedX \in Int, w.savedY \in Int, w.ink = v.ink, w.lost = v.lost, w.strayed \in BOOLEAN,
         v.pendingRow = NoRow \/ (w.y = v.y /\ w.strayed = v.strayed) \/ w.strayed = TRUE
  PROVE  Good(w) /\ Shown(w) = Shown(v)
<1>1. Placed(w)
  BY FlagsKept DEF Placed
<1>2. Steady(w)
  BY DEF Good, Steady, Alike
<1>3. QED
  BY <1>1, <1>2, AlikeGood DEF Good

\* Neither does the way to the next row (advanceLine).
LEMMA AdvanceGood ==
  ASSUME NEW v, Good(v), NEW w, w = advanceLine(v)
  PROVE  /\ Good(w) /\ Shown(w) = Shown(v) /\ w.pendingRow = NoRow
         /\ w.x = v.x /\ w.rows = v.rows /\ w.cols = v.cols
<1>1. PICK h \in Nat, y \in Nat : h = v.rows /\ y = v.y /\ y < h
  BY Bounds
<1>2. PICK u, to : /\ w = [u EXCEPT !.y = to] /\ to \in 0..h - 1
                   /\ Good(u) /\ Shown(u) = Shown(v) /\ Seat(u) = Seat(v) /\ u.pendingRow = NoRow
  <2>1. CASE y + 1 >= h
    <3>1. PICK u : u = scrollUp(v, 1)
      OBVIOUS
    <3>2. Good(u) /\ Shown(u) = Shown(v) /\ Seat(u) = Seat(v) /\ (1 > 0 => u.pendingRow = NoRow)
      BY <3>1, ScrollGood
    <3>3. PICK to : to = h - 1
      OBVIOUS
    <3>4. w = [u EXCEPT !.y = to] /\ to \in 0..h - 1
      BY <1>1, <2>1, <3>1, <3>3 DEF advanceLine
    <3>5. Good(u) /\ Shown(u) = Shown(v) /\ Seat(u) = Seat(v) /\ u.pendingRow = NoRow
      BY <3>2
    <3>6. QED
      BY <3>4, <3>5
  <2>2. CASE ~(y + 1 >= h)
    <3>1. PICK u : u = resolvePending(v)
      OBVIOUS
    <3>2. Good(u) /\ Shown(u) = Shown(v) /\ Seat(u) = Seat(v) /\ u.pendingRow = NoRow
      BY <3>1, ResolvesGood
    <3>3. w = [u EXCEPT !.y = y + 1] /\ y + 1 \in 0..h - 1
      <4>1. u.y = y
        BY <1>1, <3>2 DEF Seat
      <4>2. w = [u EXCEPT !.y = u.y + 1]
        BY <1>1, <2>2, <3>1 DEF advanceLine
      <4>3. QED
        BY <1>1, <2>2, <4>1, <4>2
    <3>4. QED
      BY <3>2, <3>3
  <2>3. QED
    BY <2>1, <2>2
<1>3. /\ DOMAIN u = Fields /\ u.strayed \in BOOLEAN /\ u.x \in 0..u.cols - 1 /\ u.savedX \in Int /\ u.savedY \in Int
      /\ u.rows = h /\ u.cols = v.cols /\ u.x = v.x
  BY <1>1, <1>2, FlagsKept DEF Seat
<1>4. /\ Alike(u, w) /\ w.x = u.x /\ w.y = to /\ w.savedX = u.savedX /\ w.savedY = u.savedY /\ w.ink = u.ink
      /\ w.lost = u.lost /\ w.strayed = u.strayed /\ w.rows = u.rows /\ w.cols = u.cols /\ w.pendingRow = u.pendingRow
  BY <1>2, <1>3 DEF Alike, Fields
<1>5. Good(w) /\ Shown(w) = Shown(u)
  BY <1>2, <1>3, <1>4, CursorGoes
<1>6. QED
  BY <1>1, <1>2, <1>3, <1>4, <1>5

\* The sum of two parameters is a number, whatever they are (addSat).
LEMMA Saturates == ASSUME NEW a \in Int, NEW b \in Int PROVE addSat(a, b) \in Int
  BY MaxHistoryNat DEF addSat

\* So is what a parameter stands for.
LEMMA Parameters ==
  ASSUME NEW n \in Int
  PROVE  paramDefault(n, 1) \in Int /\ Times(n) \in Int /\ -Times(n) \in Int
<1>1. paramDefault(n, 1) \in Int
  BY DEF paramDefault
<1>2. Times(n) \in Int
  BY <1>1 DEF Times
<1>3. QED
  BY <1>1, <1>2

\* A clamped row or column is on the screen.
LEMMA OnScreen ==
  ASSUME NEW v, Good(v), NEW n \in Int
  PROVE  OnRow(v, n) \in 0..v.rows - 1 /\ OnColumn(v, n) \in 0..v.cols - 1
<1>1. \A m \in Nat : m > 0 => clamp(n, 0, m - 1) \in 0..m - 1
  BY DEF clamp
<1>2. v.rows \in Nat /\ v.rows > 0 /\ v.cols \in Nat /\ v.cols > 0
  BY Bounds
<1>3. QED
  BY <1>1, <1>2 DEF OnRow, OnColumn

\* The cursor goes to another row, and a pending erase is resolved (moveCursorY).
LEMMA MoveGood ==
  ASSUME NEW v, Good(v), NEW newY \in 0..v.rows - 1, NEW w, w = moveCursorY(v, newY)
  PROVE  Good(w) /\ Shown(w) = Shown(v) /\ w.x = v.x /\ w.rows = v.rows /\ w.cols = v.cols
<1>1. PICK u : u = IF newY # v.y THEN resolvePending(v) ELSE v
  OBVIOUS
<1>2. Good(u) /\ Shown(u) = Shown(v) /\ Seat(u) = Seat(v) /\ (u.pendingRow = NoRow \/ newY = v.y)
  <2>1. CASE newY # v.y
    <3>1. u = resolvePending(v)
      BY <1>1, <2>1
    <3>2. QED
      BY <3>1, ResolvesGood
  <2>2. CASE newY = v.y
    BY <1>1, <2>2
  <2>3. QED
    BY <2>1, <2>2
<1>3. w = [u EXCEPT !.y = newY]
  BY <1>1 DEF moveCursorY
<1>4. /\ DOMAIN u = Fields /\ u.strayed \in BOOLEAN /\ u.x \in 0..u.cols - 1 /\ u.savedX \in Int /\ u.savedY \in Int
      /\ u.rows = v.rows /\ u.cols = v.cols /\ u.x = v.x /\ u.y = v.y
  BY <1>2, FlagsKept DEF Seat
<1>5. /\ Alike(u, w) /\ w.x = u.x /\ w.y = newY /\ w.savedX = u.savedX /\ w.savedY = u.savedY /\ w.ink = u.ink
      /\ w.lost = u.lost /\ w.strayed = u.strayed /\ w.rows = u.rows /\ w.cols = u.cols
  BY <1>3, <1>4 DEF Alike, Fields
<1>6. w.y \in 0..w.rows - 1 /\ w.x \in 0..w.cols - 1 /\ (u.pendingRow = NoRow \/ (w.y = u.y /\ w.strayed = u.strayed))
  BY <1>2, <1>4, <1>5
<1>7. Good(w) /\ Shown(w) = Shown(u)
  BY <1>2, <1>4, <1>5, <1>6, CursorGoes
<1>8. QED
  BY <1>2, <1>4, <1>5, <1>7

\* The cursor goes elsewhere in its row, and a deferred wrap is forgotten or not.
LEMMA ColumnGood ==
  ASSUME NEW v, Good(v), NEW w, Alike(v, w), w.x \in 0..v.cols - 1, w.y = v.y,
         w.savedX = v.savedX, w.savedY = v.savedY, w.ink = v.ink, w.lost = v.lost, w.strayed = v.strayed
  PROVE  Good(w) /\ Shown(w) = Shown(v)
<1>1. w.x \in 0..w.cols - 1 /\ w.y \in 0..w.rows - 1 /\ w.savedX \in Int /\ w.savedY \in Int /\ w.strayed \in BOOLEAN
  BY FlagsKept DEF Alike
<1>2. QED
  BY <1>1, CursorGoes

\* A deferred wrap is forgotten.
LEMMA UnwrapGood ==
  ASSUME NEW v, Good(v), NEW w, w = [v EXCEPT !.wrapPending = FALSE]
  PROVE  Good(w) /\ Shown(w) = Shown(v) /\ Seat(w) = Seat(v) /\ w.pendingRow = v.pendingRow
<1>1. DOMAIN v = Fields /\ v.x \in 0..v.cols - 1
  BY FlagsKept
<1>2. /\ Alike(v, w) /\ w.x = v.x /\ w.y = v.y /\ w.savedX = v.savedX /\ w.savedY = v.savedY /\ w.ink = v.ink
      /\ w.lost = v.lost /\ w.strayed = v.strayed /\ w.cols = v.cols /\ w.rows = v.rows /\ w.pendingRow = v.pendingRow
  BY <1>1 DEF Alike, Fields
<1>3. Good(w) /\ Shown(w) = Shown(v)
  BY <1>1, <1>2, ColumnGood
<1>4. QED
  BY <1>2, <1>3 DEF Seat

\* The cursor goes to another column.
LEMMA AtColumn ==
  ASSUME NEW v, Good(v), NEW c \in 0..v.cols - 1, NEW w, w = [v EXCEPT !.x = c]
  PROVE  Good(w) /\ Shown(w) = Shown(v) /\ w.y = v.y /\ w.rows = v.rows /\ w.cols = v.cols
<1>1. DOMAIN v = Fields
  BY FlagsKept
<1>2. /\ Alike(v, w) /\ w.x = c /\ w.y = v.y /\ w.savedX = v.savedX /\ w.savedY = v.savedY /\ w.ink = v.ink
      /\ w.lost = v.lost /\ w.strayed = v.strayed /\ w.cols = v.cols /\ w.rows = v.rows
  BY <1>1 DEF Alike, Fields
<1>3. Good(w) /\ Shown(w) = Shown(v)
  BY <1>2, ColumnGood
<1>4. QED
  BY <1>2, <1>3

\* A move of the cursor, whatever else it forgets.
LEMMA MovesKeep ==
  ASSUME TermInv, NEW v, Good(v), Shown(v) = Shown(vt) \/ vt.strayed = TRUE, moves(v)
  PROVE  TermInv'
<1>1. PICK w : w = [v EXCEPT !.wrapPending = FALSE]
  OBVIOUS
<1>2. Good(w) /\ Shown(w) = Shown(v)
  BY <1>1, UnwrapGood
<1>3. Keeps(w)
  BY <1>1 DEF moves
<1>4. Shown(w) = Shown(vt) \/ vt.strayed = TRUE
  BY <1>2
<1>5. QED
  BY <1>2, <1>3, <1>4, KeepsGood

\* The first column of the row below.
LEMMA NextGood ==
  ASSUME NEW v, Good(v), NEW w, w = NextRow(v)
  PROVE  Good(w) /\ Shown(w) = Shown(v) /\ w.x = 0 /\ w.rows = v.rows /\ w.cols = v.cols /\ w.pendingRow = NoRow
<1>1. PICK u, z : u = [v EXCEPT !.x = z] /\ z = 0
  OBVIOUS
<1>2. z \in 0..v.cols - 1
  BY <1>1, Bounds
<1>3. Good(u) /\ Shown(u) = Shown(v) /\ u.rows = v.rows /\ u.cols = v.cols
  BY <1>1, <1>2, AtColumn
<1>4. u.x = 0
  BY <1>1, FlagsKept DEF Fields
<1>5. PICK s : s = advanceLine(u)
  OBVIOUS
<1>6. /\ Good(s) /\ Shown(s) = Shown(u) /\ s.pendingRow = NoRow
      /\ s.x = u.x /\ s.rows = u.rows /\ s.cols = u.cols
  BY <1>3, <1>5, AdvanceGood
<1>7. w = [s EXCEPT !.wrapPending = FALSE]
  BY <1>1, <1>5 DEF NextRow
<1>8. Good(w) /\ Shown(w) = Shown(s) /\ Seat(w) = Seat(s) /\ w.pendingRow = s.pendingRow
  BY <1>6, <1>7, UnwrapGood
<1>9. QED
  BY <1>3, <1>4, <1>6, <1>8 DEF Seat

-----------------------------------------------------------------------------
(* Control characters and moves.                                           *)

\* CR, BS, LF and the save of the cursor keep the invariant.
LEMMA ControlKeeps ==
  ASSUME TermInv, carriageReturn \/ backspace \/ lineFeed \/ saveCursor
  PROVE  TermInv'
<1>1. Good(vt) /\ DOMAIN vt = Fields
  BY FlagsKept DEF TermInv
<1>2. CASE carriageReturn
  <2>1. PICK u, w, z : u = [vt EXCEPT !.x = z] /\ w = [u EXCEPT !.wrapPending = FALSE] /\ z = 0
    OBVIOUS
  <2>2. z \in 0..vt.cols - 1
    BY <1>1, <2>1, Bounds
  <2>3. Good(u) /\ Shown(u) = Shown(vt)
    BY <1>1, <2>1, <2>2, AtColumn
  <2>4. Good(w) /\ Shown(w) = Shown(vt)
    BY <2>1, <2>3, UnwrapGood
  <2>5. Keeps(w)
    BY <1>2, <2>1 DEF carriageReturn
  <2>6. QED
    BY <2>4, <2>5, KeepsGood
<1>3. CASE backspace
  <2>1. PICK u, w, z : u = [vt EXCEPT !.x = z] /\ w = [u EXCEPT !.wrapPending = FALSE] /\ z = Max({0, vt.x - 1})
    OBVIOUS
  <2>2. z \in 0..vt.cols - 1
    <3>1. PICK m \in Nat, x \in Nat : m = vt.cols /\ x = vt.x /\ x < m
      BY <1>1, Bounds
    <3>2. Max({0, x - 1}) = IF 0 >= x - 1 THEN 0 ELSE x - 1
      BY MaxTwo
    <3>3. QED
      BY <2>1, <3>1, <3>2
  <2>3. Good(u) /\ Shown(u) = Shown(vt)
    BY <1>1, <2>1, <2>2, AtColumn
  <2>4. Good(w) /\ Shown(w) = Shown(vt)
    BY <2>1, <2>3, UnwrapGood
  <2>5. Keeps(w)
    BY <1>3, <2>1 DEF backspace
  <2>6. QED
    BY <2>4, <2>5, KeepsGood
<1>4. CASE lineFeed
  <2>1. PICK w : w = NextRow(vt)
    OBVIOUS
  <2>2. Good(w) /\ Shown(w) = Shown(vt)
    BY <1>1, <2>1, NextGood
  <2>3. Keeps(w)
    BY <1>4, <2>1 DEF lineFeed
  <2>4. QED
    BY <2>2, <2>3, KeepsGood
<1>5. CASE saveCursor
  <2>1. PICK w : w = [vt EXCEPT !.savedX = vt.x, !.savedY = vt.y]
    OBVIOUS
  <2>2. /\ Alike(vt, w) /\ w.x = vt.x /\ w.y = vt.y /\ w.savedX = vt.x /\ w.savedY = vt.y /\ w.ink = vt.ink
        /\ w.lost = vt.lost /\ w.strayed = vt.strayed /\ w.cols = vt.cols /\ w.rows = vt.rows
    BY <1>1, <2>1 DEF Alike, Fields
  <2>3. vt.x \in Int /\ vt.y \in Int
    BY <1>1, Bounds
  <2>4. w.x \in 0..w.cols - 1 /\ w.y \in 0..w.rows - 1 /\ w.savedX \in Int /\ w.savedY \in Int /\ w.strayed \in BOOLEAN
    BY <1>1, <2>2, <2>3, FlagsKept
  <2>5. Good(w) /\ Shown(w) = Shown(vt)
    BY <1>1, <2>2, <2>4, CursorGoes
  <2>6. Keeps(w)
    BY <1>5, <2>1 DEF saveCursor
  <2>7. QED
    BY <2>5, <2>6, KeepsGood
<1>6. QED
  BY <1>2, <1>3, <1>4, <1>5

\* So does a tab, which may wrap.
LEMMA TabKeeps ==
  ASSUME TermInv, tab
  PROVE  TermInv'
<1>1. Good(vt) /\ DOMAIN vt = Fields
  BY FlagsKept DEF TermInv
<1>2. PICK next : next = (vt.x \div TabStop + 1) * TabStop
  OBVIOUS
<1>3. CASE next >= vt.cols
  <2>1. PICK w : w = NextRow(vt)
    OBVIOUS
  <2>2. Good(w) /\ Shown(w) = Shown(vt)
    BY <1>1, <2>1, NextGood
  <2>3. Keeps(w)
    BY <1>2, <1>3, <2>1 DEF tab
  <2>4. QED
    BY <2>2, <2>3, KeepsGood
<1>4. CASE ~(next >= vt.cols)
  <2>1. next \in 0..vt.cols - 1
    <3>1. PICK x \in Nat, m \in Nat, t \in Nat \ {0} : x = vt.x /\ m = vt.cols /\ t = TabStop
      BY <1>1, Bounds, MaxHistoryNat
    <3>2. PICK q : q = x \div t
      OBVIOUS
    <3>3. q \in Nat
      BY <3>1, <3>2
    <3>4. (q + 1) * t \in Nat
      BY <3>1, <3>3
    <3>5. next = (q + 1) * t
      BY <1>2, <3>1, <3>2
    <3>6. QED
      BY <1>4, <3>1, <3>4, <3>5
  <2>2. PICK e, u, w, cells : /\ cells = vt.x..next - 1 /\ e = Erased(vt, vt.y, cells)
                              /\ u = [e EXCEPT !.x = next] /\ w = [u EXCEPT !.wrapPending = FALSE]
    OBVIOUS
  <2>0. vt.y \in 0..vt.rows - 1
    BY <1>1, FlagsKept
  <2>3. Good(e) /\ Seat(e) = Seat(vt)
    BY <1>1, <2>0, <2>2, ErasedGood
  <2>4. e.cols = vt.cols
    BY <2>3 DEF Seat
  <2>5. Good(u)
    BY <2>1, <2>2, <2>3, <2>4, AtColumn
  <2>6. Good(w)
    BY <2>2, <2>5, UnwrapGood
  <2>7. Edits(w)
    BY <1>2, <1>4, <2>2 DEF tab
  <2>8. QED
    BY <2>6, <2>7, EditsGood
<1>5. QED
  BY <1>3, <1>4

\* So do the moves to another row.
LEMMA VerticalKeeps ==
  ASSUME TermInv, NEW n \in Int, cursorVertical(n)
  PROVE  TermInv'
<1>1. Good(vt) /\ vt.y \in Int
  BY Bounds DEF TermInv
<1>2. PICK a, b, c : /\ a = addSat(vt.y, -Times(n)) /\ b = addSat(vt.y, Times(n))
                     /\ c = addSat(paramDefault(n, 1), -1)
  OBVIOUS
<1>3. a \in Int /\ b \in Int /\ c \in Int
  <2>0. PICK p \in Int, q \in Int : p = paramDefault(n, 1) /\ q = Times(n)
    BY Parameters
  <2>1. PICK h \in Int, t \in Int, o \in Int : o = -1 /\ h = vt.y /\ t = -q
    BY <1>1
  <2>2. addSat(h, t) \in Int /\ addSat(h, q) \in Int /\ addSat(p, o) \in Int
    BY Saturates
  <2>3. QED
    BY <1>2, <2>0, <2>1, <2>2
<1>4. ASSUME NEW k \in {a, b, c}
      PROVE  Good(moveCursorY(vt, OnRow(vt, k))) /\ Shown(moveCursorY(vt, OnRow(vt, k))) = Shown(vt)
             /\ Good([moveCursorY(vt, OnRow(vt, k)) EXCEPT !.x = 0])
             /\ Shown([moveCursorY(vt, OnRow(vt, k)) EXCEPT !.x = 0]) = Shown(vt)
  <2>1. PICK y, u : y = OnRow(vt, k) /\ u = moveCursorY(vt, y)
    OBVIOUS
  <2>2. y \in 0..vt.rows - 1
    BY <1>1, <1>3, <2>1, OnScreen
  <2>3. Good(u) /\ Shown(u) = Shown(vt)
    BY <1>1, <2>1, <2>2, MoveGood
  <2>4. PICK w, z : w = [u EXCEPT !.x = z] /\ z = 0
    OBVIOUS
  <2>5. z \in 0..u.cols - 1
    BY <2>3, <2>4, Bounds
  <2>6. Good(w) /\ Shown(w) = Shown(u)
    BY <2>3, <2>4, <2>5, AtColumn
  <2>7. QED
    BY <2>1, <2>3, <2>4, <2>6
<1>5. \E v : Good(v) /\ Shown(v) = Shown(vt) /\ moves(v)
  <2>1. \/ moves(moveCursorY(vt, OnRow(vt, a))) \/ moves(moveCursorY(vt, OnRow(vt, b)))
        \/ moves([moveCursorY(vt, OnRow(vt, b)) EXCEPT !.x = 0]) \/ moves([moveCursorY(vt, OnRow(vt, a)) EXCEPT !.x = 0])
        \/ moves(moveCursorY(vt, OnRow(vt, c)))
    BY <1>2 DEF cursorVertical
  <2>2. QED
    BY <1>4, <2>1
<1>6. QED
  BY <1>5, MovesKeep

\* So do the moves to another column.
LEMMA HorizontalKeeps ==
  ASSUME TermInv, NEW n \in Int, cursorHorizontal(n)
  PROVE  TermInv'
<1>1. Good(vt) /\ vt.x \in Int
  BY Bounds DEF TermInv
<1>2. PICK a, b, c : /\ a = addSat(vt.x, -Times(n)) /\ b = addSat(vt.x, Times(n))
                     /\ c = addSat(paramDefault(n, 1), -1)
  OBVIOUS
<1>3. a \in Int /\ b \in Int /\ c \in Int
  <2>0. PICK p \in Int, q \in Int : p = paramDefault(n, 1) /\ q = Times(n)
    BY Parameters
  <2>1. PICK h \in Int, t \in Int, o \in Int : o = -1 /\ h = vt.x /\ t = -q
    BY <1>1
  <2>2. addSat(h, t) \in Int /\ addSat(h, q) \in Int /\ addSat(p, o) \in Int
    BY Saturates
  <2>3. QED
    BY <1>2, <2>0, <2>1, <2>2
<1>4. PICK k \in {a, b, c} : moves([vt EXCEPT !.x = OnColumn(vt, k)])
  BY <1>2 DEF cursorHorizontal
<1>5. PICK x, w : x = OnColumn(vt, k) /\ w = [vt EXCEPT !.x = x]
  OBVIOUS
<1>6. x \in 0..vt.cols - 1
  BY <1>1, <1>3, <1>5, OnScreen
<1>7. Good(w) /\ Shown(w) = Shown(vt)
  BY <1>1, <1>5, <1>6, AtColumn
<1>8. moves(w)
  BY <1>4, <1>5
<1>9. QED
  BY <1>7, <1>8, MovesKeep

\* So does the move to a place.
LEMMA PositionKeeps ==
  ASSUME TermInv, NEW m \in Int, NEW n \in Int, cursorPosition(m, n)
  PROVE  TermInv'
<1>1. Good(vt)
  BY DEF TermInv
<1>2. PICK y, x, u, w : /\ y = OnRow(vt, addSat(paramDefault(m, 1), -1)) /\ x = OnColumn(vt, addSat(paramDefault(n, 1), -1))
                        /\ u = moveCursorY(vt, y) /\ w = [u EXCEPT !.x = x]
  OBVIOUS
<1>3. y \in 0..vt.rows - 1 /\ x \in 0..vt.cols - 1
  <2>a. PICK p \in Int, q \in Int, o \in Int : o = -1 /\ p = paramDefault(m, 1) /\ q = paramDefault(n, 1)
    BY Parameters
  <2>b. addSat(p, o) \in Int /\ addSat(q, o) \in Int
    BY Saturates
  <2>1. addSat(paramDefault(m, 1), -1) \in Int /\ addSat(paramDefault(n, 1), -1) \in Int
    BY <2>a, <2>b
  <2>2. QED
    BY <1>1, <1>2, <2>1, OnScreen
<1>4. Good(u) /\ Shown(u) = Shown(vt) /\ u.cols = vt.cols
  BY <1>1, <1>2, <1>3, MoveGood
<1>5. Good(w) /\ Shown(w) = Shown(u)
  BY <1>2, <1>3, <1>4, AtColumn
<1>6. moves(w)
  BY <1>2 DEF cursorPosition
<1>7. QED
  BY <1>4, <1>5, <1>6, MovesKeep

\* The cursor is where it was saved.
LEMMA RestoredGood ==
  ASSUME Good(vt)
  PROVE  /\ Good(Restored) /\ Shown(Restored) = Shown(vt) /\ OnRow(vt, vt.savedY) \in 0..vt.rows - 1
         /\ Restored.rows = vt.rows /\ Restored.cols = vt.cols /\ Restored.y = vt.y
<1>1. vt.savedX \in Int /\ vt.savedY \in Int
  BY FlagsKept
<1>2. OnColumn(vt, vt.savedX) \in 0..vt.cols - 1 /\ OnRow(vt, vt.savedY) \in 0..vt.rows - 1
  BY <1>1, OnScreen
<1>3. PICK w, c : w = [vt EXCEPT !.x = c] /\ c = OnColumn(vt, vt.savedX)
  OBVIOUS
<1>4. Good(w) /\ Shown(w) = Shown(vt) /\ w.y = vt.y /\ w.rows = vt.rows /\ w.cols = vt.cols
  BY <1>2, <1>3, AtColumn
<1>5. w = Restored
  BY <1>3 DEF Restored
<1>6. QED
  BY <1>2, <1>4, <1>5

\* So do both ways to restore the cursor; CSI u leaves a pending erase behind.
LEMMA RestoreKeeps ==
  ASSUME TermInv, restoreCursorEsc \/ restoreCursor
  PROVE  TermInv'
<1>1. Good(vt)
  BY DEF TermInv
<1>2. PICK r, y : r = Restored /\ y = OnRow(vt, vt.savedY)
  OBVIOUS
<1>3. /\ Good(r) /\ Shown(r) = Shown(vt) /\ y \in 0..r.rows - 1
      /\ r.rows = vt.rows /\ r.cols = vt.cols /\ r.y = vt.y
  BY <1>1, <1>2, RestoredGood
<1>4. CASE restoreCursorEsc
  <2>1. PICK w : w = moveCursorY(r, y)
    OBVIOUS
  <2>2. Good(w) /\ Shown(w) = Shown(r)
    BY <1>3, <2>1, MoveGood
  <2>3. moves(w)
    BY <1>2, <1>4, <2>1 DEF restoreCursorEsc
  <2>4. QED
    BY <1>3, <2>2, <2>3, MovesKeep
<1>5. CASE restoreCursor
  <2> DEFINE astray == r.strayed \/ (vt.pendingRow # NoRow /\ y # vt.y)
  <2>1. PICK w : w = [r EXCEPT !.y = y, !.strayed = astray]
    OBVIOUS
  <2>2. /\ DOMAIN r = Fields /\ r.strayed \in BOOLEAN /\ r.x \in 0..r.cols - 1 /\ r.savedX \in Int /\ r.savedY \in Int
    BY <1>3, FlagsKept
  <2>3. r.pendingRow = vt.pendingRow
    BY <1>1, <1>2, FlagsKept DEF Restored, Fields
  <2>4. astray \in BOOLEAN /\ (r.pendingRow = NoRow \/ (y = r.y /\ astray = r.strayed) \/ astray = TRUE)
    BY <1>3, <2>2, <2>3
  <2> HIDE DEF astray
  <2>5. /\ Alike(r, w) /\ w.x = r.x /\ w.y = y /\ w.savedX = r.savedX /\ w.savedY = r.savedY /\ w.ink = r.ink
        /\ w.lost = r.lost /\ w.strayed = astray /\ w.cols = r.cols /\ w.rows = r.rows
    BY <2>1, <2>2 DEF Alike, Fields
  <2>6. Good(w) /\ Shown(w) = Shown(r)
    <3>1. w.x \in 0..w.cols - 1 /\ w.y \in 0..w.rows - 1 /\ w.savedX \in Int /\ w.savedY \in Int /\ w.strayed \in BOOLEAN
      BY <1>3, <2>2, <2>4, <2>5
    <3>2. r.pendingRow = NoRow \/ (w.y = r.y /\ w.strayed = r.strayed) \/ w.strayed = TRUE
      BY <2>4, <2>5
    <3>3. QED
      BY <1>3, <2>5, <3>1, <3>2, CursorGoes
  <2>7. moves(w)
    BY <1>2, <1>5, <2>1 DEF restoreCursor, astray
  <2>8. QED
    BY <1>3, <2>6, <2>7, MovesKeep
<1>6. QED
  BY <1>4, <1>5

\* So does the reverse index, which may scroll.
LEMMA ReverseKeeps ==
  ASSUME TermInv, reverseIndex
  PROVE  TermInv'
<1>1. Good(vt)
  BY DEF TermInv
<1>2. CASE vt.y > 0
  <2>1. PICK y, w : y = vt.y - 1 /\ w = moveCursorY(vt, y)
    OBVIOUS
  <2>2. y \in 0..vt.rows - 1
    BY <1>1, <1>2, <2>1, Bounds
  <2>3. Good(w) /\ Shown(w) = Shown(vt)
    BY <1>1, <2>1, <2>2, MoveGood
  <2>4. moves(w)
    BY <1>2, <2>1 DEF reverseIndex
  <2>5. QED
    BY <2>3, <2>4, MovesKeep
<1>3. CASE ~(vt.y > 0)
  <2>1. PICK u, w : u = scrollDown(vt, 1) /\ w = [u EXCEPT !.wrapPending = FALSE]
    OBVIOUS
  <2>2. Good(u)
    BY <1>1, <2>1, LinesGood
  <2>3. Good(w)
    BY <2>1, <2>2, UnwrapGood
  <2>4. Edits(w)
    BY <1>3, <2>1 DEF reverseIndex
  <2>5. QED
    BY <2>3, <2>4, EditsGood
<1>4. QED
  BY <1>2, <1>3

\* So do the edits and the scroll.
LEMMA EditKeeps ==
  ASSUME TermInv, NEW n \in Int, edit(n) \/ scroll(n)
  PROVE  TermInv'
<1>1. Good(vt)
  BY DEF TermInv
<1>2. PICK k \in Int : k = paramDefault(n, 1)
  BY Parameters
<1>3. CASE edit(n)
  <2>1. PICK w : /\ Edits(w)
                 /\ w \in {insertLines(vt, k), deleteLines(vt, k), scrollDown(vt, k), insertChars(vt, k), deleteChars(vt, k), eraseChars(vt, k)}
    BY <1>2, <1>3 DEF edit
  <2>2. Good(w)
    BY <1>1, <2>1, LinesGood, InsertsChars, DeletesChars, ErasesChars
  <2>3. QED
    BY <2>1, <2>2, EditsGood
<1>4. CASE scroll(n)
  <2>1. PICK w : w = scrollUp(vt, k)
    OBVIOUS
  <2>2. Good(w) /\ Shown(w) = Shown(vt)
    BY <1>1, <2>1, ScrollGood
  <2>3. Keeps(w)
    BY <1>2, <1>4, <2>1 DEF scroll
  <2>4. QED
    BY <2>2, <2>3, KeepsGood
<1>5. QED
  BY <1>3, <1>4

\* So does a flush.
LEMMA FlushKeeps ==
  ASSUME TermInv, Flush
  PROVE  TermInv'
<1>1. Good(vt)
  BY DEF TermInv
<1>2. PICK w : w = resolvePending(vt)
  OBVIOUS
<1>3. Good(w) /\ Shown(w) = Shown(vt)
  BY <1>1, <1>2, ResolvesGood
<1>4. Keeps(w)
  BY <1>2 DEF Flush
<1>5. QED
  BY <1>3, <1>4, KeepsGood

-----------------------------------------------------------------------------
(* Erases and clears.                                                      *)

\* The erase of the cursor's row, wherever a row with one pending is.
LEMMA StrayErase ==
  ASSUME NEW v, Good(v), v.strayed = TRUE, NEW w, w = setPendingErase(v, v.y)
  PROVE  Good(w)
<1>1. PICK row : row = v.y
  OBVIOUS
<1>2. row \in 0..v.rows - 1 /\ DOMAIN v = Fields /\ Sound(v)
  BY <1>1, FlagsKept
<1>3. CASE Line(v, row) = <<>>
  <2>1. w = Erased(v, row, WholeRow(v))
    BY <1>1, <1>3 DEF setPendingErase
  <2>2. QED
    BY <1>2, <2>1, ErasedGood
<1>4. CASE Line(v, row) # <<>>
  <2>1. PICK e : e = Erased(v, row, WholeRow(v))
    OBVIOUS
  <2>2. /\ Sound(e) /\ Repainted(v, e) /\ (WholeRow(v) \subseteq WholeRow(v) => Marks(e.screen[row]) = {})
    BY <1>2, <2>1, ErasedSound
  <2>3. PICK u, text : u = [v EXCEPT !.pendingRow = row, !.pendingText = text] /\ text = Line(v, row)
    OBVIOUS
  <2>4. /\ DOMAIN u = Fields /\ u.cols = v.cols /\ u.rows = v.rows /\ u.x = v.x /\ u.y = v.y /\ u.savedX = v.savedX /\ u.savedY = v.savedY
        /\ u.history = v.history /\ u.head = v.head /\ u.dropped = v.dropped /\ u.log = v.log
        /\ u.pendingRow = row /\ u.pendingText = text /\ u.committedRows = v.committedRows
        /\ u.ink = v.ink /\ u.lost = v.lost /\ u.strayed = v.strayed /\ u.screen = v.screen
    BY <1>2, <2>3 DEF Fields
  <2>5. w = Erased(u, row, WholeRow(v))
    BY <1>1, <1>4, <2>3, <2>4 DEF setPendingErase, WholeRow
  <2>6. e.screen = w.screen
    BY <1>2, <2>1, <2>4, <2>5 DEF Erased, Fields
  <2>7. /\ DOMAIN w = Fields
        /\ w.cols = u.cols /\ w.rows = u.rows /\ w.x = u.x /\ w.y = u.y /\ w.savedX = u.savedX /\ w.savedY = u.savedY
        /\ w.history = u.history /\ w.head = u.head /\ w.dropped = u.dropped /\ w.log = u.log
        /\ w.pendingRow = u.pendingRow /\ w.pendingText = u.pendingText /\ w.committedRows = u.committedRows
        /\ w.ink = u.ink /\ w.lost = u.lost /\ w.strayed = u.strayed
    BY <2>4, <2>5 DEF Erased, Fields
  <2>8. /\ DOMAIN w = Fields
        /\ w.cols = e.cols /\ w.rows = e.rows /\ w.x = v.x /\ w.y = v.y /\ w.savedX = v.savedX /\ w.savedY = v.savedY
        /\ w.history = e.history /\ w.head = e.head /\ w.dropped = e.dropped /\ w.log = e.log
        /\ w.pendingRow = row /\ w.pendingText = Line(v, row) /\ w.committedRows = e.committedRows
        /\ w.ink = v.ink /\ w.lost = v.lost /\ w.strayed = v.strayed /\ w.screen = e.screen
        /\ w.cols = v.cols /\ w.rows = v.rows
    BY <2>2, <2>3, <2>4, <2>6, <2>7 DEF Repainted
  <2>9. Shaped(w)
    BY <2>2, <2>8 DEF Sound, Shaped
  <2>10. Erasing(w)
    <3>1. row \in 0..w.rows - 1 /\ Marks(w.screen[row]) = {} /\ Line(v, row) \in Seq(Int)
      BY <1>2, <2>2, <2>8, LineType
    <3>2. QED
      BY <1>4, <2>8, <3>1 DEF Erasing
  <2>11. Kept(w)
    BY <2>2, <2>8 DEF Sound, Kept
  <2>12. Placed(w) /\ Steady(w)
    BY <2>8 DEF Good, Placed, Steady
  <2>13. QED
    BY <2>8, <2>9, <2>10, <2>11, <2>12 DEF Good, Sound
<1>5. QED
  BY <1>3, <1>4

\* The erases within a line keep the invariant.
LEMMA EraseLineKeeps ==
  ASSUME TermInv, NEW mode, eraseInLine(mode)
  PROVE  TermInv'
<1>1. Good(vt) /\ vt.y \in 0..vt.rows - 1 /\ Sound(vt) /\ DOMAIN vt = Fields
  BY FlagsKept DEF TermInv
<1>2. CASE Keeps(setPendingErase(vt, vt.y))
  <2>1. PICK w : w = setPendingErase(vt, vt.y)
    OBVIOUS
  <2>2. CASE vt.strayed = TRUE
    <3>1. Good(w)
      BY <1>1, <2>1, <2>2, StrayErase
    <3>2. QED
      BY <1>2, <2>1, <2>2, <3>1, KeepsGood
  <2>3. CASE vt.strayed # TRUE
    <3>1. PICK row : row = vt.y
      OBVIOUS
    <3>2. row \in 0..vt.rows - 1 /\ vt.pendingRow \in {NoRow, row}
      BY <1>1, <2>3, <3>1 DEF Good, Steady
    <3>3. /\ Sound(w) /\ Seat(w) = Seat(vt) /\ w.ink = vt.ink /\ w.lost = vt.lost /\ w.pendingRow \in {NoRow, row}
          /\ Shown(w) = Shown(vt)
      BY <1>1, <2>1, <3>1, <3>2, PendingErase
    <3>4. w.strayed = vt.strayed
      BY <1>1, <2>1 DEF setPendingErase, Erased, Fields
    <3>5. w.lost = FALSE /\ Placed(w) /\ Steady(w)
      BY <1>1, <3>1, <3>3, <3>4 DEF Good, Placed, Steady, Seat
    <3>6. Good(w)
      BY <3>3, <3>5 DEF Good
    <3>7. QED
      BY <1>2, <2>1, <3>3, <3>6, KeepsGood
  <2>4. QED
    BY <2>2, <2>3
<1>3. CASE Edits(Erased(vt, vt.y, IF mode = 0 THEN vt.x..vt.cols - 1 ELSE 0..vt.x))
  <2>1. PICK w, cells : w = Erased(vt, vt.y, cells) /\ cells = IF mode = 0 THEN vt.x..vt.cols - 1 ELSE 0..vt.x
    OBVIOUS
  <2>2. Good(w)
    BY <1>1, <2>1, ErasedGood
  <2>3. QED
    BY <1>3, <2>1, <2>2, EditsGood
<1>4. QED
  BY <1>2, <1>3 DEF eraseInLine

\* Everything is in the transcript before it is cleared.
LEMMA ClearsScreen ==
  ASSUME NEW v, Good(v), v.pendingRow = NoRow, NEW gone, NEW w,
         w = Cleared(pushRowsToHistory(v, v.rows - 1), gone)
  PROVE  Good(w) /\ Shown(w) = Shown(v) /\ Seat(w) = Seat(v) /\ w.pendingRow = NoRow
<1>1. PICK to \in Int : to = v.rows - 1 /\ to <= v.rows - 1
  BY Bounds
<1>2. PICK u : u = pushRowsToHistory(v, to)
  OBVIOUS
<1>3. /\ Good(u) /\ u.pendingRow = NoRow /\ Shown(u) = Shown(v) /\ Seat(u) = Seat(v)
      /\ \A r \in 0..to : Marks(u.screen[r]) = {}
  BY <1>1, <1>2, PushesGood
<1>4. w = Cleared(u, gone) /\ u.rows = v.rows
  BY <1>1, <1>2, <1>3 DEF Seat
<1>5. /\ Good(w) /\ Seat(w) = Seat(u) /\ w.pendingRow = u.pendingRow
      /\ (\A r \in gone \cap 0..u.rows - 1 : Marks(u.screen[r]) = {}) => Shown(w) = Shown(u)
  BY <1>3, <1>4, ClearedGood
<1>6. \A r \in gone \cap 0..u.rows - 1 : Marks(u.screen[r]) = {}
  BY <1>1, <1>3, <1>4
<1>7. QED
  BY <1>3, <1>5, <1>6

\* So does the reset of the terminal.
LEMMA ResetKeeps ==
  ASSUME TermInv, resetToInitial
  PROVE  TermInv'
<1>1. Good(vt)
  BY DEF TermInv
<1>2. PICK u : u = resolvePending(vt)
  OBVIOUS
<1>3. Good(u) /\ u.pendingRow = NoRow /\ Shown(u) = Shown(vt) /\ Seat(u) = Seat(vt)
  BY <1>1, <1>2, ResolvesGood
<1>4. PICK s, gone : s = Cleared(pushRowsToHistory(u, u.rows - 1), gone) /\ gone = WholeScreen(vt)
  OBVIOUS
<1>5. Good(s) /\ Shown(s) = Shown(u) /\ Seat(s) = Seat(u) /\ s.pendingRow = NoRow
  BY <1>3, <1>4, ClearsScreen
<1>6. PICK w : w = [s EXCEPT !.x = 0, !.y = 0, !.savedX = 0, !.savedY = 0, !.wrapPending = FALSE]
  OBVIOUS
<1>7. DOMAIN s = Fields /\ s.strayed \in BOOLEAN
  BY <1>5, FlagsKept
<1>8. /\ Alike(s, w) /\ w.x = 0 /\ w.y = 0 /\ w.savedX = 0 /\ w.savedY = 0 /\ w.ink = s.ink
      /\ w.lost = s.lost /\ w.strayed = s.strayed /\ w.cols = s.cols /\ w.rows = s.rows
  BY <1>6, <1>7 DEF Alike, Fields
<1>9. w.x \in 0..w.cols - 1 /\ w.y \in 0..w.rows - 1 /\ w.savedX \in Int /\ w.savedY \in Int /\ w.strayed \in BOOLEAN
  <2>1. PICK c \in Nat \ {0}, h \in Nat \ {0} : c = s.cols /\ h = s.rows
    BY <1>5, FlagsKept
  <2>2. 0 \in 0..c - 1 /\ 0 \in 0..h - 1
    OBVIOUS
  <2>3. QED
    BY <1>7, <1>8, <2>1, <2>2
<1>10. Good(w) /\ Shown(w) = Shown(s)
  BY <1>5, <1>8, <1>9, CursorGoes
<1>11. Keeps(w)
  <2>1. u.rows = vt.rows
    BY <1>3 DEF Seat
  <2>2. QED
    BY <1>2, <1>4, <1>6, <2>1 DEF resetToInitial
<1>12. QED
  BY <1>3, <1>5, <1>10, <1>11, KeepsGood

\* So do the erases of the display, in every mode.
LEMMA EraseDisplayKeeps ==
  ASSUME TermInv, NEW mode, eraseInDisplay(mode)
  PROVE  TermInv'
<1>1. Good(vt)
  BY DEF TermInv
<1>2. PICK v : v = resolvePending(vt)
  OBVIOUS
<1>3. Good(v) /\ v.pendingRow = NoRow /\ Shown(v) = Shown(vt) /\ Seat(v) = Seat(vt)
  BY <1>1, <1>2, ResolvesGood
<1>4. PICK y \in Nat, m \in Nat : y = v.y /\ m = v.rows /\ y < m
  BY <1>3, Bounds
<1>5. CASE mode = 0
  <2>1. PICK to \in Int : to = v.rows - 1 /\ to <= v.rows - 1
    BY <1>4
  <2>2. PICK p, e, w, cells, gone :
           /\ p = pushRowsToHistory(v, to) /\ e = Erased(p, y, cells) /\ w = Cleared(e, gone)
           /\ cells = v.x..v.cols - 1 /\ gone = v.y + 1..v.rows - 1
    OBVIOUS
  <2>3. /\ Good(p) /\ p.pendingRow = NoRow /\ Shown(p) = Shown(v) /\ Seat(p) = Seat(v)
        /\ \A r \in 0..to : Marks(p.screen[r]) = {}
    BY <1>3, <2>1, <2>2, PushesGood
  <2>4. y \in 0..p.rows - 1 /\ p.rows = v.rows /\ Sound(p)
    <3>1. p.rows = v.rows
      BY <2>3 DEF Seat
    <3>2. y \in 0..m - 1
      BY <1>4
    <3>3. QED
      BY <1>4, <2>3, <3>1, <3>2, FlagsKept
  <2>5. /\ Good(e) /\ Seat(e) = Seat(p)
        /\ Marks(p.screen[y]) = {} => Shown(e) = Shown(p)
    BY <2>2, <2>3, <2>4, ErasedGood
  <2>6. Sound(e) /\ Repainted(p, e) /\ \A q \in 0..p.rows - 1 : q # y => e.screen[q] = p.screen[q]
    BY <2>2, <2>4, ErasedSound
  <2>7. Shown(e) = Shown(p)
    BY <2>1, <2>3, <2>4, <2>5
  <2>8. /\ Good(w) /\ Seat(w) = Seat(e) /\ w.pendingRow = e.pendingRow
        /\ (\A r \in gone \cap 0..e.rows - 1 : Marks(e.screen[r]) = {}) => Shown(w) = Shown(e)
    <3>1. Good(e) /\ w = Cleared(e, gone)
      BY <2>2, <2>5
    <3>2. QED
      BY <3>1, ClearedGood
  <2>9. \A r \in gone \cap 0..e.rows - 1 : Marks(e.screen[r]) = {}
    <3>1. e.rows = m
      BY <1>4, <2>4, <2>6 DEF Repainted
    <3>2. \A r \in gone \cap 0..e.rows - 1 : r \in 0..m - 1 /\ r # y
      BY <1>4, <2>2, <3>1
    <3>3. QED
      BY <1>4, <2>1, <2>3, <2>4, <2>6, <3>2
  <2>10. Keeps(w)
    BY <1>2, <1>4, <1>5, <2>1, <2>2 DEF eraseInDisplay
  <2>11. QED
    BY <1>3, <2>3, <2>7, <2>8, <2>9, <2>10, KeepsGood
<1>6. CASE mode = 1
  <2>1. PICK to \in Int : to = (IF v.x = v.cols - 1 THEN v.y ELSE v.y - 1) /\ (to = y \/ to = y - 1) /\ to <= v.rows - 1
    <3>1. y \in Int /\ y - 1 \in Int /\ y <= m - 1 /\ y - 1 <= m - 1
      BY <1>4
    <3>2. QED
      BY <1>4, <3>1
  <2>2. PICK p, e, w, cells, gone :
           /\ p = pushRowsToHistory(v, to) /\ e = Cleared(p, gone) /\ w = Erased(e, y, cells)
           /\ cells = 0..v.x /\ gone = 0..v.y - 1
    OBVIOUS
  <2>3. /\ Good(p) /\ p.pendingRow = NoRow /\ Shown(p) = Shown(v) /\ Seat(p) = Seat(v)
        /\ \A r \in 0..to : Marks(p.screen[r]) = {}
    BY <1>3, <2>1, <2>2, PushesGood
  <2>4. p.rows = m
    BY <1>4, <2>3 DEF Seat
  <2>5. /\ Good(e) /\ Seat(e) = Seat(p) /\ e.pendingRow = p.pendingRow
        /\ (\A r \in gone \cap 0..p.rows - 1 : Marks(p.screen[r]) = {}) => Shown(e) = Shown(p)
        /\ \A r \in 0..p.rows - 1 : Marks(p.screen[r]) = {} => Marks(e.screen[r]) = {}
    <3>1. Good(p) /\ e = Cleared(p, gone)
      BY <2>2, <2>3
    <3>2. QED
      BY <3>1, ClearedGood
  <2>6. Shown(e) = Shown(p)
    <3>1. \A r \in gone : r \in 0..to
      BY <1>4, <2>1, <2>2
    <3>2. QED
      BY <2>3, <2>5, <3>1
  <2>7. y \in 0..e.rows - 1
    <3>1. e.rows = m
      BY <2>4, <2>5 DEF Seat
    <3>2. QED
      BY <1>4, <3>1
  <2>8. /\ Good(w)
        /\ Marks(e.screen[y]) = {} => Shown(w) = Shown(e)
    BY <2>2, <2>5, <2>7, ErasedGood
  <2>9. CASE to = y
    <3>1. y \in 0..to /\ y \in 0..p.rows - 1
      BY <1>4, <2>4, <2>9
    <3>2. Marks(e.screen[y]) = {}
      BY <2>3, <2>5, <3>1
    <3>3. Keeps(w)
      BY <1>2, <1>4, <1>6, <2>1, <2>2, <2>9 DEF eraseInDisplay
    <3>4. QED
      BY <1>3, <2>3, <2>6, <2>8, <3>2, <3>3, KeepsGood
  <2>10. CASE to # y
    <3>1. Edits(w)
      BY <1>2, <1>4, <1>6, <2>1, <2>2, <2>10 DEF eraseInDisplay
    <3>2. QED
      BY <2>8, <3>1, EditsGood
  <2>11. QED
    BY <2>9, <2>10
<1>7. CASE mode # 0 /\ mode # 1
  <2>1. PICK w, gone : w = Cleared(pushRowsToHistory(v, v.rows - 1), gone) /\ gone = WholeScreen(v)
    OBVIOUS
  <2>2. Good(w) /\ Shown(w) = Shown(v)
    BY <1>3, <2>1, ClearsScreen
  <2>3. Keeps(w)
    BY <1>2, <1>7, <2>1 DEF eraseInDisplay
  <2>4. QED
    BY <1>3, <2>2, <2>3, KeepsGood
<1>8. QED
  BY <1>5, <1>6, <1>7

-----------------------------------------------------------------------------
(* What is printed.                                                        *)

\* The row that is written to is neither committed nor erased.
LEMMA Writes ==
  ASSUME NEW v, Good(v), NEW w, w = beforeWriteToRow(v, v.y)
  PROVE  Good(w) /\ Seat(w) = Seat(v) /\ w.pendingRow # w.y /\ w.committedRows <= w.y
<1>1. PICK y \in Nat, m \in Nat : y = v.y /\ m = v.rows /\ y < m
  BY Bounds
<1>2. PICK u : u = IF v.pendingRow = y THEN Settled(v) ELSE v
  OBVIOUS
<1>3. Good(u) /\ Seat(u) = Seat(v) /\ u.pendingRow # y
  <2>1. CASE v.pendingRow = y
    <3>1. Sound(v) /\ u = Settled(v)
      BY <1>2, <2>1, FlagsKept
    <3>2. Follows(v, u) /\ u.pendingRow = NoRow
      BY <3>1, SettledSound
    <3>3. NoRow # y
      BY <1>1 DEF NoRow
    <3>4. QED
      BY <3>2, <3>3, FollowsGood
  <2>2. CASE v.pendingRow # y
    BY <1>2, <2>2
  <2>3. QED
    BY <2>1, <2>2
<1>4. DOMAIN u = Fields /\ Sound(u) /\ u.rows = m /\ u.y = y
  BY <1>1, <1>3, FlagsKept DEF Seat
<1>5. PICK k \in Nat : k = u.committedRows /\ k <= m
  <2>1. u.committedRows \in Nat /\ u.committedRows <= u.rows
    BY <1>4, BlankAbove
  <2>2. QED
    BY <1>4, <2>1
<1>6. PICK c \in Nat : c = Min({k, y}) /\ c <= k /\ c <= y
  BY MinTwo
<1>7. w = [u EXCEPT !.committedRows = c]
  BY <1>1, <1>2, <1>4, <1>5, <1>6 DEF beforeWriteToRow, Fields
<1>8. /\ DOMAIN w = Fields
      /\ w.cols = u.cols /\ w.rows = u.rows /\ w.x = u.x /\ w.y = u.y /\ w.savedX = u.savedX /\ w.savedY = u.savedY
      /\ w.history = u.history /\ w.head = u.head /\ w.dropped = u.dropped /\ w.log = u.log
      /\ w.pendingRow = u.pendingRow /\ w.pendingText = u.pendingText /\ w.committedRows = c
      /\ w.ink = u.ink /\ w.lost = u.lost /\ w.strayed = u.strayed /\ w.screen = u.screen
  BY <1>4, <1>7 DEF Fields
<1>9. Shaped(w)
  <2>1. c \in 0..m /\ \A r \in 0..c - 1 : r \in 0..k - 1
    <3>1. c \in Nat /\ k \in Nat /\ m \in Nat /\ c <= k /\ k <= m
      BY <1>1, <1>5, <1>6
    <3>2. QED
      BY <3>1
  <2>2. \A r \in 0..c - 1 : Marks(u.screen[r]) = {}
    BY <1>4, <1>5, <2>1, BlankAbove
  <2>3. QED
    BY <1>4, <1>8, <2>1, <2>2 DEF Sound, Shaped
<1>10. Erasing(w)
  BY <1>4, <1>8 DEF Sound, Erasing
<1>11. Kept(w)
  BY <1>4, <1>8 DEF Sound, Kept
<1>12. Placed(w) /\ Steady(w) /\ w.lost = FALSE
  BY <1>3, <1>8 DEF Good, Placed, Steady
<1>13. Seat(w) = Seat(u)
  BY <1>8 DEF Seat
<1>14. QED
  BY <1>3, <1>4, <1>6, <1>8, <1>9, <1>10, <1>11, <1>12, <1>13 DEF Good, Sound

\* A mark in the row that is written to.
LEMMA MarkGood ==
  ASSUME NEW v, Good(v), v.pendingRow # v.y, v.committedRows <= v.y, NEW row \in Rows(v.cols),
         NEW w, w = [v EXCEPT !.ink = @ + 1, !.screen[v.y] = row]
  PROVE  Good(w) /\ Seat(w) = Seat(v)
<1>1. DOMAIN v = Fields /\ Sound(v) /\ v.ink \in Nat
  BY FlagsKept
<1>2. PICK y \in Nat, m \in Nat : y = v.y /\ m = v.rows /\ y < m
  BY Bounds
<1>3. /\ DOMAIN w = Fields
      /\ w.cols = v.cols /\ w.rows = v.rows /\ w.x = v.x /\ w.y = v.y /\ w.savedX = v.savedX /\ w.savedY = v.savedY
      /\ w.history = v.history /\ w.head = v.head /\ w.dropped = v.dropped /\ w.log = v.log
      /\ w.pendingRow = v.pendingRow /\ w.pendingText = v.pendingText /\ w.committedRows = v.committedRows
      /\ w.ink = v.ink + 1 /\ w.lost = v.lost /\ w.strayed = v.strayed /\ w.screen = [v.screen EXCEPT ![y] = row]
  BY <1>1, <1>2 DEF Fields
<1>4. PICK s : s = [v.screen EXCEPT ![y] = row]
  OBVIOUS
<1>5. s \in [0..v.rows - 1 -> Rows(v.cols)] /\ \A r \in 0..v.rows - 1 : r # y => s[r] = v.screen[r]
  BY <1>1, <1>4, ScreenType
<1>6. Shaped(w)
  <2>1. PICK k \in Nat : k = v.committedRows /\ k <= m
    BY <1>1, <1>2, BlankAbove
  <2>2. \A r \in 0..k - 1 : r \in 0..v.rows - 1 /\ r # y
    BY <1>2, <2>1
  <2>3. \A r \in 0..k - 1 : Marks(s[r]) = {}
    BY <1>1, <1>5, <2>1, <2>2, BlankAbove
  <2>4. QED
    BY <1>1, <1>3, <1>4, <1>5, <2>1, <2>3 DEF Sound, Shaped
<1>7. Erasing(w)
  <2>1. CASE v.pendingRow = NoRow
    BY <1>1, <1>3, <2>1 DEF Sound, Erasing
  <2>2. CASE v.pendingRow # NoRow
    <3>1. v.pendingRow \in 0..v.rows - 1 /\ Marks(v.screen[v.pendingRow]) = {} /\ v.pendingText # <<>> /\ v.pendingText \in Seq(Int)
      BY <1>1, <2>2 DEF Sound, Erasing
    <3>2. s[v.pendingRow] = v.screen[v.pendingRow]
      BY <1>2, <1>5, <3>1
    <3>3. QED
      BY <1>3, <1>4, <3>1, <3>2 DEF Erasing
  <2>3. QED
    BY <2>1, <2>2
<1>8. Kept(w)
  BY <1>1, <1>3 DEF Sound, Kept
<1>9. v.ink + 1 \in Nat
  BY <1>1
<1>10. Placed(w) /\ Steady(w) /\ w.lost = FALSE
  BY <1>3, <1>9 DEF Good, Placed, Steady
<1>11. QED
  BY <1>3, <1>6, <1>7, <1>8, <1>10 DEF Good, Sound, Seat

\* What is printed keeps the invariant: a deferred wrap and a wide rune that does not fit
\* come first.
LEMMA PrintKeeps ==
  ASSUME TermInv, NEW n \in {1, 2}, print(n)
  PROVE  TermInv'
<1>1. Good(vt)
  BY DEF TermInv
<1>2. PICK a : a = IF vt.wrapPending THEN NextRow(vt) ELSE vt
  OBVIOUS
<1>3. Good(a)
  BY <1>1, <1>2, NextGood
<1>4. PICK s, e, cells : s = beforeWriteToRow(a, a.y) /\ e = Erased(s, a.y, cells) /\ cells = {a.x}
  OBVIOUS
<1>5. Good(s) /\ Seat(s) = Seat(a)
  BY <1>3, <1>4, Writes
<1>6. a.y \in 0..s.rows - 1
  BY <1>3, <1>5, FlagsKept DEF Seat
<1>7. Good(e)
  BY <1>4, <1>5, <1>6, ErasedGood
<1>8. PICK b : b = IF n = 2 /\ a.x >= a.cols - 1 THEN NextRow(e) ELSE a
  OBVIOUS
<1>9. Good(b)
  BY <1>3, <1>7, <1>8, NextGood
<1>10. PICK c : c = beforeWriteToRow(b, b.y)
  OBVIOUS
<1>11. Good(c) /\ c.pendingRow # c.y /\ c.committedRows <= c.y
  BY <1>9, <1>10, Writes
<1>12. PICK m \in Nat, x \in Nat, k \in Nat : m = c.cols /\ x = c.x /\ x < m /\ k = c.ink
  <2>1. c.ink \in Nat
    BY <1>11, FlagsKept
  <2>2. QED
    BY <1>11, <2>1, Bounds
<1>13. PICK old : old = c.screen[c.y] /\ old \in Rows(m)
  BY <1>11, <1>12, FlagsKept, ScreenType
<1>14. DOMAIN old = 0..m - 1 /\ \A i \in 0..m - 1 : old[i] \in Int
  BY <1>13 DEF Rows
<1>15. PICK row : row = [i \in 0..m - 1 |-> IF i = x THEN k + 1 ELSE IF n = 2 /\ i = x + 1 THEN Half ELSE old[i]]
  OBVIOUS
<1>16. row \in Rows(m)
  <2>1. k + 1 \in Int /\ Half \in Int
    BY DEF Half
  <2>2. QED
    BY <1>14, <1>15, <2>1 DEF Rows
<1>17. PICK d : d = [c EXCEPT !.ink = @ + 1, !.screen[c.y] = row]
  OBVIOUS
<1>18. Good(d) /\ Seat(d) = Seat(c)
  BY <1>11, <1>12, <1>16, <1>17, MarkGood
<1>19. d.cols = m /\ d.x = x
  BY <1>12, <1>18 DEF Seat
<1>20. PICK z : z = IF d.x + n < d.cols THEN d.x + n ELSE d.cols - 1
  OBVIOUS
<1>21. z \in 0..d.cols - 1
  BY <1>12, <1>19, <1>20
<1>f. PICK full, u, w : full = ~(d.x + n < d.cols) /\ u = [d EXCEPT !.x = z] /\ w = [u EXCEPT !.wrapPending = full]
  OBVIOUS
<1>22. Good(u)
  BY <1>18, <1>f, <1>21, AtColumn
<1>23. DOMAIN u = Fields /\ u.x \in 0..u.cols - 1
  BY <1>22, FlagsKept
<1>24. /\ Alike(u, w) /\ w.x = u.x /\ w.y = u.y /\ w.savedX = u.savedX /\ w.savedY = u.savedY /\ w.ink = u.ink
       /\ w.lost = u.lost /\ w.strayed = u.strayed
  BY <1>f, <1>23 DEF Alike, Fields
<1>25. Good(w)
  BY <1>22, <1>23, <1>24, ColumnGood
<1>26. w = [d EXCEPT !.x = IF d.x + n < d.cols THEN d.x + n ELSE d.cols - 1, !.wrapPending = ~(d.x + n < d.cols)]
  BY <1>20, <1>f
<1>27. d = [c EXCEPT !.ink = @ + 1,
                     !.screen[c.y] = [i \in DOMAIN @ |-> IF i = c.x THEN c.ink + 1
                                                         ELSE IF n = 2 /\ i = c.x + 1 THEN Half ELSE @[i]]]
  <2>1. [i \in DOMAIN c.screen[c.y] |-> IF i = c.x THEN c.ink + 1
                                        ELSE IF n = 2 /\ i = c.x + 1 THEN Half ELSE c.screen[c.y][i]] = row
    BY <1>12, <1>13, <1>14, <1>15
  <2>2. DOMAIN c = Fields /\ c.y \in DOMAIN c.screen
    BY <1>11, FlagsKept, ScreenType
  <2>3. QED
    BY <1>17, <2>1, <2>2 DEF Fields
<1>28. Edits(w)
  <2>1. a = Wrapped(vt)
    BY <1>2 DEF Wrapped
  <2>2. b = Fitted(a, n)
    BY <1>4, <1>8 DEF Fitted
  <2>3. d = Inscribed(c, n)
    BY <1>27 DEF Inscribed
  <2>4. w = Advanced(d, n)
    BY <1>26 DEF Advanced
  <2>5. w = Written(b, n)
    BY <1>10, <2>3, <2>4 DEF Written
  <2>6. QED
    BY <2>1, <2>2, <2>5 DEF print
<1>29. QED
  BY <1>25, <1>28, EditsGood

-----------------------------------------------------------------------------
(* A new terminal.                                                         *)

\* A new terminal satisfies the invariant.
LEMMA InitGood ==
  ASSUME TerminalInit
  PROVE  TermInv
<1>1. PICK s \in Sizes : vt = NewVT(s[1], s[2])
  BY DEF TerminalInit
<1>2. PICK cols \in Nat \ {0}, rows \in Nat \ {0} : cols = s[1] /\ rows = s[2]
  BY TerminalAssumption
<1>3. vt = NewVT(cols, rows)
  BY <1>1, <1>2
<1>4. /\ DOMAIN vt = Fields
      /\ vt.cols = cols /\ vt.rows = rows /\ vt.x = 0 /\ vt.y = 0 /\ vt.savedX = 0 /\ vt.savedY = 0
      /\ vt.screen = blankScreen(cols, rows) /\ vt.history = <<>> /\ vt.head = <<>> /\ vt.dropped = 0
      /\ vt.pendingRow = NoRow /\ vt.pendingText = <<>> /\ vt.committedRows = 0
      /\ vt.ink = 0 /\ vt.log = <<>> /\ vt.strayed = FALSE /\ vt.lost = FALSE
  BY <1>3 DEF NewVT, Fields
<1>5. blankRow(cols) \in Rows(cols)
  BY BlankRow
<1>6. blankScreen(cols, rows) \in [0..rows - 1 -> Rows(cols)]
  BY <1>5 DEF blankScreen
<1>7. <<>> \in Seq(Seq(Int)) /\ <<>> \in Seq(Int)
  OBVIOUS
<1>8. 0 \in 0..rows /\ 0 \in 0..rows - 1 /\ 0 \in 0..cols - 1 /\ \A r \in 0..0 - 1 : FALSE
  OBVIOUS
<1>9. Shaped(vt)
  BY <1>4, <1>6, <1>7, <1>8 DEF Shaped
<1>10. Erasing(vt)
  BY <1>4, <1>7 DEF Erasing
<1>11. Kept(vt)
  <2>1. /\ FirstOf(<<>>, MaxHistory) = <<>> /\ LastOf(<<>>, MaxHistory) = <<>>
    <3>0. Len(<<>>) = 0
      OBVIOUS
    <3>1. PICK z : z = <<>> /\ z \in Seq(Int) /\ Len(z) = 0
      BY <1>7, <3>0
    <3>2. FirstOf(z, MaxHistory) \in Seq(Int) /\ Len(FirstOf(z, MaxHistory)) = IF MaxHistory <= Len(z) THEN MaxHistory ELSE Len(z)
      BY <3>1, MaxHistoryNat, FirstOfIs
    <3>3. LastOf(z, MaxHistory) \in Seq(Int) /\ Len(LastOf(z, MaxHistory)) = IF MaxHistory <= Len(z) THEN MaxHistory ELSE Len(z)
      BY <3>1, MaxHistoryNat, LastOfIs
    <3>4. Len(FirstOf(z, MaxHistory)) = 0 /\ Len(LastOf(z, MaxHistory)) = 0
      BY <3>1, <3>2, <3>3, MaxHistoryNat
    <3>5. QED
      BY <3>1, <3>2, <3>3, <3>4, EmptySeq
  <2>2. QED
    BY <1>4, <2>1 DEF Kept
<1>12. Placed(vt) /\ Steady(vt)
  <2>1. 0 \in Int /\ 0 \in Nat
    OBVIOUS
  <2>2. Placed(vt)
    BY <1>4, <1>8, <2>1 DEF Placed
  <2>3. Steady(vt)
    BY <1>4 DEF Steady
  <2>4. QED
    BY <2>2, <2>3
<1>13. QED
  BY <1>4, <1>9, <1>10, <1>11, <1>12 DEF TermInv, Good, Sound

-----------------------------------------------------------------------------
(* Another size.                                                           *)

\* A sequence is cut in two.
LEMMA Cut ==
  ASSUME NEW S, NEW s \in Seq(S), NEW a \in Nat, a <= Len(s)
  PROVE  /\ SubSeq(s, 1, a) \in Seq(S) /\ SubSeq(s, a + 1, Len(s)) \in Seq(S)
         /\ Len(SubSeq(s, 1, a)) = a /\ Len(SubSeq(s, a + 1, Len(s))) = Len(s) - a
         /\ \A i \in 1..a : SubSeq(s, 1, a)[i] = s[i]
         /\ \A i \in 1..Len(s) - a : SubSeq(s, a + 1, Len(s))[i] = s[a + i]
         /\ SubSeq(s, 1, a) \o SubSeq(s, a + 1, Len(s)) = s
<1>1. PICK n \in Nat, z \in Nat : n = Len(s) /\ z = 0
  OBVIOUS
<1>2. PICK t, u : t = SubSeq(s, z + 1, a) /\ u = SubSeq(s, a + 1, n)
  OBVIOUS
<1>3. /\ t \in Seq(S) /\ Len(t) = a - z /\ \A i \in 1..a - z : t[i] = s[z + i]
  BY <1>1, <1>2, Slice
<1>4. /\ u \in Seq(S) /\ Len(u) = n - a /\ \A i \in 1..n - a : u[i] = s[a + i]
  BY <1>1, <1>2, Slice
<1>5. a - z = a /\ z + 1 = 1 /\ \A i \in 1..a : z + i = i
  BY <1>1
<1>6. t = SubSeq(s, 1, a) /\ Len(t) = a /\ \A i \in 1..a : t[i] = s[i]
  BY <1>2, <1>3, <1>5
<1>7. /\ t \o u \in Seq(S) /\ Len(t \o u) = a + (n - a)
      /\ \A i \in 1..a + (n - a) : (t \o u)[i] = IF i <= a THEN t[i] ELSE u[i - a]
  BY <1>3, <1>4, <1>6, ConcatProperties
<1>8. a + (n - a) = n
  BY <1>1
<1>9. ASSUME NEW i \in 1..n PROVE (t \o u)[i] = s[i]
  <2>1. CASE i <= a
    <3>1. i \in 1..a
      BY <2>1
    <3>2. QED
      BY <1>6, <1>7, <1>8, <2>1, <3>1
  <2>2. CASE i > a
    <3>1. PICK j \in 1..n - a : j = i - a
      BY <1>1, <2>2
    <3>2. a + j = i /\ ~(i <= a)
      BY <2>2, <3>1
    <3>3. (t \o u)[i] = u[j]
      BY <1>7, <1>8, <3>1, <3>2
    <3>4. QED
      BY <1>4, <3>2, <3>3
  <2>3. i <= a \/ i > a
    OBVIOUS
  <2>4. QED
    BY <2>1, <2>2, <2>3
<1>10. t \o u = s
  BY <1>1, <1>7, <1>8, <1>9, SeqEqual
<1>11. QED
  BY <1>1, <1>2, <1>3, <1>4, <1>6, <1>10

\* The empty lines at the end are dropped.
Trimmed(pieces) ==
  LET full == {i \in DOMAIN pieces : pieces[i] # <<>>}
  IN  IF full = {} THEN <<>> ELSE SubSeq(pieces, 1, Max(full))

\* Nothing that is shown is dropped.
LEMMA TrimmedInk ==
  ASSUME NEW pieces \in Seq(Seq(Int)), NEW lines, lines = Trimmed(pieces)
  PROVE  /\ lines \in Seq(Seq(Int)) /\ Len(lines) <= Len(pieces) /\ InkOf(lines) = InkOf(pieces)
         /\ \A i \in 1..Len(lines) : lines[i] = pieces[i]
<1>1. PICK n \in Nat : n = Len(pieces) /\ DOMAIN pieces = 1..n
  OBVIOUS
<1>a. PICK full : full = {i \in DOMAIN pieces : pieces[i] # <<>>}
  OBVIOUS
<1>b. lines = IF full = {} THEN <<>> ELSE SubSeq(pieces, 1, Max(full))
  BY <1>a DEF Trimmed
<1>2. CASE full = {}
  <2>1. \A i \in 1..Len(pieces) : pieces[i] = <<>>
    BY <1>1, <1>a, <1>2
  <2>2. \A i \in 1..Len(pieces) : Inked(pieces[i]) = <<>>
    BY <2>1, InkedNone
  <2>3. InkOf(pieces) = <<>>
    BY <2>2, InkOfNothing
  <2>4. lines = <<>>
    BY <1>b, <1>2
  <2>5. <<>> \in Seq(Seq(Int)) /\ Len(<<>>) = 0
    OBVIOUS
  <2>6. lines \in Seq(Seq(Int)) /\ Len(lines) = 0 /\ InkOf(lines) = <<>>
    BY <2>4, <2>5, InkOfNone
  <2>7. QED
    <3>1. Len(lines) <= Len(pieces) /\ \A i \in 1..Len(lines) : lines[i] = pieces[i]
      BY <1>1, <2>6
    <3>2. QED
      BY <2>3, <2>6, <3>1
<1>3. CASE full # {}
  <2>1. full \subseteq 0..n
    BY <1>1, <1>a
  <2>2. PICK m : m = Max(full)
    OBVIOUS
  <2>3. m \in full /\ \A y \in full : y <= m
    BY <1>3, <2>1, <2>2, Largest
  <2>4. m \in Nat /\ m <= n
    BY <2>1, <2>3
  <2>5. PICK rest : rest = SubSeq(pieces, m + 1, Len(pieces))
    OBVIOUS
  <2>6. lines = SubSeq(pieces, 1, m)
    BY <1>b, <1>3, <2>2
  <2>7. /\ lines \in Seq(Seq(Int)) /\ rest \in Seq(Seq(Int)) /\ Len(lines) = m /\ Len(rest) = Len(pieces) - m
        /\ \A i \in 1..m : lines[i] = pieces[i]
        /\ \A i \in 1..Len(pieces) - m : rest[i] = pieces[m + i]
        /\ lines \o rest = pieces
    <3>1. m \in Nat /\ m <= Len(pieces)
      BY <1>1, <2>4
    <3>2. /\ SubSeq(pieces, 1, m) \in Seq(Seq(Int)) /\ SubSeq(pieces, m + 1, Len(pieces)) \in Seq(Seq(Int))
          /\ Len(SubSeq(pieces, 1, m)) = m /\ Len(SubSeq(pieces, m + 1, Len(pieces))) = Len(pieces) - m
          /\ \A i \in 1..m : SubSeq(pieces, 1, m)[i] = pieces[i]
          /\ \A i \in 1..Len(pieces) - m : SubSeq(pieces, m + 1, Len(pieces))[i] = pieces[m + i]
          /\ SubSeq(pieces, 1, m) \o SubSeq(pieces, m + 1, Len(pieces)) = pieces
      BY <3>1, Cut
    <3>3. QED
      BY <2>5, <2>6, <3>2
  <2>8. ASSUME NEW i \in 1..Len(rest) PROVE Inked(rest[i]) = <<>>
    <3>1. i \in 1..n - m
      BY <1>1, <2>7
    <3>2. m + i \in 1..n /\ ~(m + i <= m)
      BY <2>4, <3>1
    <3>3. m + i \notin full
      BY <2>3, <3>2
    <3>4. pieces[m + i] = <<>>
      BY <1>1, <1>a, <3>2, <3>3
    <3>5. QED
      BY <1>1, <2>7, <3>1, <3>4, InkedNone
  <2>9. InkOf(rest) = <<>>
    BY <2>7, <2>8, InkOfNothing
  <2>10. InkOf(pieces) = InkOf(lines) \o InkOf(rest) /\ InkOf(lines) \in Seq(Int)
    BY <2>7, InkOfConcat
  <2>11. InkOf(pieces) = InkOf(lines)
    BY <2>9, <2>10, ConcatEmptySeq
  <2>12. QED
    BY <1>1, <2>4, <2>7, <2>11
<1>4. QED
  BY <1>2, <1>3

LEMMA SeqRetype ==
  ASSUME NEW A, NEW B, NEW s \in Seq(A), \A i \in 1..Len(s) : s[i] \in B
  PROVE  s \in Seq(B)
  OBVIOUS

\* The pieces that lines fall into at a width, one list (Resize).
Pieces(lines, cols) == FlattenSeq([i \in 1..Len(lines) |-> Split(lines[i], cols)])

\* The pieces of lines show what the lines do.
LEMMA PiecesInk ==
  ASSUME NEW lines \in Seq(Seq(Int)), NEW cols \in Nat \ {0}, NEW pieces, pieces = Pieces(lines, cols)
  PROVE  /\ pieces \in Seq(Seq(Int)) /\ InkOf(pieces) = InkOf(lines)
         /\ \A i \in 1..Len(pieces) : Len(pieces[i]) <= cols
<1> DEFINE S == {l \in Seq(Int) : Len(l) <= cols}
           L == Seq(Int)
<1>1. PICK p : p = [i \in 1..Len(lines) |-> Split(lines[i], cols)]
  OBVIOUS
<1>2. /\ \A i \in 1..Len(lines) : Split(lines[i], cols) \in Seq(Seq(Int)) /\ FlattenSeq(Split(lines[i], cols)) = lines[i]
      /\ \A i \in 1..Len(lines) : \A j \in 1..Len(Split(lines[i], cols)) : Len(Split(lines[i], cols)[j]) <= cols
  <2>1. ASSUME NEW i \in 1..Len(lines)
        PROVE  /\ Split(lines[i], cols) \in Seq(Seq(Int)) /\ FlattenSeq(Split(lines[i], cols)) = lines[i]
               /\ \A j \in 1..Len(Split(lines[i], cols)) : Len(Split(lines[i], cols)[j]) <= cols
    <3>1. PICK line \in Seq(Int) : line = lines[i]
      OBVIOUS
    <3>2. /\ Split(line, cols) \in Seq(Seq(Int)) /\ FlattenSeq(Split(line, cols)) = line
          /\ \A j \in 1..Len(Split(line, cols)) : Len(Split(line, cols)[j]) <= cols
      BY SplitWhole
    <3>3. QED
      BY <3>1, <3>2
  <2>2. QED
    BY <2>1
<1>3. ASSUME NEW i \in 1..Len(lines) PROVE Split(lines[i], cols) \in Seq(S)
  <2>1. PICK q : q = Split(lines[i], cols)
    OBVIOUS
  <2>2. q \in Seq(Seq(Int)) /\ \A j \in 1..Len(q) : Len(q[j]) <= cols
    BY <1>2, <2>1
  <2>3. \A j \in 1..Len(q) : q[j] \in S
    BY <2>2
  <2>4. q \in Seq(S)
    <3> HIDE DEF S
    <3>1. QED
      BY <2>2, <2>3, SeqRetype
  <2>5. QED
    BY <2>1, <2>4
<1> HIDE DEF S
<1>4. p \in Seq(Seq(S)) /\ p \in Seq(Seq(Seq(Int))) /\ Len(p) = Len(lines)
  <2>1. p \in Seq(Seq(S)) /\ Len(p) = Len(lines)
    BY <1>1, <1>3
  <2>2. p \in Seq(Seq(Seq(Int)))
    BY <1>1, <1>2
  <2>3. QED
    BY <2>1, <2>2
<1>5. pieces = FlattenSeq(p)
  BY <1>1 DEF Pieces
<1>6. pieces \in Seq(S)
  BY <1>4, <1>5, FlattenType
<1>7. pieces \in Seq(Seq(Int)) /\ \A i \in 1..Len(pieces) : Len(pieces[i]) <= cols
  <2>1. \A l \in S : l \in Seq(Int) /\ Len(l) <= cols
    BY DEF S
  <2>2. QED
    <3>1. \A i \in 1..Len(pieces) : pieces[i] \in S
      BY <1>6
    <3>2. \A i \in 1..Len(pieces) : pieces[i] \in Seq(Int) /\ Len(pieces[i]) <= cols
      BY <2>1, <3>1
    <3>3. pieces \in Seq(Seq(Int))
      BY <1>6, <3>2, SeqRetype
    <3>4. QED
      BY <3>2, <3>3
<1>8. FlattenSeq(pieces) = FlattenSeq([i \in 1..Len(p) |-> FlattenSeq(p[i])])
  BY <1>4, <1>5, FlattenFlatten
<1>9. [i \in 1..Len(p) |-> FlattenSeq(p[i])] = lines
  <2>1. \A i \in 1..Len(p) : FlattenSeq(p[i]) = lines[i]
    BY <1>1, <1>2, <1>4
  <2>2. [i \in 1..Len(p) |-> FlattenSeq(p[i])] = [i \in 1..Len(lines) |-> lines[i]]
    BY <1>4, <2>1
  <2>3. [i \in 1..Len(lines) |-> lines[i]] = lines
    OBVIOUS
  <2>4. QED
    BY <2>2, <2>3
<1>10. QED
  BY <1>7, <1>8, <1>9 DEF InkOf

\* What is laid out again shows what was on the screen, in lines that fit (Reflowed).
LEMMA ReflowedInk ==
  ASSUME NEW v, Sound(v), v.pendingRow = NoRow, NEW cols \in Nat \ {0}, NEW lines, lines = Reflowed(v, cols)
  PROVE  /\ lines \in Seq(Seq(Int)) /\ Shown(v) = InkOf(v.log \o lines)
         /\ \A i \in 1..Len(lines) : Len(lines[i]) <= cols
<1>1. PICK n \in Nat, k \in Nat, z \in Nat : n = v.rows /\ k = v.committedRows /\ k <= n /\ z = 0
  BY BlankAbove
<1>2. PICK f : f = TextsOf(v)
  OBVIOUS
<1>3. /\ f \in Texts(n) /\ v.log \in Seq(Seq(Int))
      /\ Shown(v) = InkOf(v.log \o Body(f, z, n))
  BY <1>1, <1>2, ShownIs
<1>4. \A r \in 0..n - 1 : f[r] = Line(v, r)
  <2>1. \A r \in 0..n - 1 : r # NoRow
    BY <1>1 DEF NoRow
  <2>2. QED
    BY <1>1, <1>2, <2>1, TextOf
<1>5. Span(f, n, z, k) /\ Span(f, n, k, n) /\ Span(f, n, z, n)
  BY <1>1, <1>3 DEF Span
<1>6. PICK b, below : b = Body(f, z, k) /\ below = Body(f, k, n)
  OBVIOUS
<1>7. InkOf(Body(f, z, n)) = InkOf(b) \o InkOf(below) /\ InkOf(below) \in Seq(Int)
  <2>1. /\ InkOf(Body(f, z, n)) = InkOf(Body(f, z, k)) \o InkOf(Body(f, k, n))
        /\ InkOf(Body(f, z, k)) \in Seq(Int) /\ InkOf(Body(f, k, n)) \in Seq(Int)
    BY <1>5, InkSplit
  <2>2. QED
    BY <1>6, <2>1
<1>8. \A r \in z..k - 1 : Inked(f[r]) = <<>>
  <2>1. \A r \in z..k - 1 : r \in 0..k - 1 /\ r \in 0..n - 1
    BY <1>1
  <2>2. \A r \in 0..k - 1 : Marks(v.screen[r]) = {}
    BY <1>1, BlankAbove
  <2>3. \A r \in z..k - 1 : Line(v, r) = <<>>
    BY <1>1, <2>1, <2>2, LineType
  <2>4. QED
    BY <1>4, <2>1, <2>3, InkedNone
<1>9. InkOf(b) = <<>>
  BY <1>5, <1>6, <1>8, InkBlank
<1>10. InkOf(Body(f, z, n)) = InkOf(below)
  BY <1>7, <1>9, ConcatEmptySeq
<1>11. /\ below \in Seq(Seq(Int)) /\ Len(below) = n - k
       /\ \A i \in 1..n - k : below[i] = f[k + i - 1]
  <2>1. /\ Body(f, k, n) \in Seq(Seq(Int)) /\ Len(Body(f, k, n)) = n - k
        /\ \A i \in 1..n - k : Body(f, k, n)[i] = f[k + i - 1]
    <3>1. PICK from, to : from = k /\ to = n
      OBVIOUS
    <3>2. Span(f, to, from, to)
      BY <1>5, <3>1
    <3>3. /\ Body(f, from, to) \in Seq(Seq(Int)) /\ Len(Body(f, from, to)) = to - from
          /\ \A i \in 1..to - from : Body(f, from, to)[i] = f[from + i - 1]
      BY <3>2, BodyType
    <3>4. QED
      BY <3>1, <3>3
  <2>2. QED
    BY <1>6, <2>1
<1>12. PICK pieces : pieces = FlattenSeq([i \in 1..Len(below) |-> Split(below[i], cols)])
  OBVIOUS
<1>13. /\ pieces \in Seq(Seq(Int)) /\ InkOf(pieces) = InkOf(below)
       /\ \A i \in 1..Len(pieces) : Len(pieces[i]) <= cols
  <2>1. below \in Seq(Seq(Int))
    BY <1>11
  <2>2. pieces = Pieces(below, cols)
    BY <1>12 DEF Pieces
  <2>3. QED
    BY <2>1, <2>2, PiecesInk
<1>14. [i \in 1..v.rows - v.committedRows |-> Split(Line(v, v.committedRows + i - 1), cols)]
         = [i \in 1..Len(below) |-> Split(below[i], cols)]
  <2>1. \A i \in 1..n - k : k + i - 1 \in 0..n - 1
    BY <1>1
  <2>2. \A i \in 1..n - k : below[i] = Line(v, k + i - 1)
    BY <1>4, <1>11, <2>1
  <2>3. QED
    BY <1>1, <1>11, <2>2
<1>16. lines = Trimmed(pieces)
  <2>1. Reflowed(v, cols)
          = Trimmed(FlattenSeq([i \in 1..v.rows - v.committedRows |-> Split(Line(v, v.committedRows + i - 1), cols)]))
    BY DEF Reflowed, Trimmed
  <2>2. QED
    BY <1>12, <1>14, <2>1
<1>17. /\ lines \in Seq(Seq(Int)) /\ Len(lines) <= Len(pieces) /\ InkOf(lines) = InkOf(pieces)
       /\ \A i \in 1..Len(lines) : lines[i] = pieces[i]
  <2>1. pieces \in Seq(Seq(Int))
    BY <1>13
  <2>2. QED
    BY <1>16, <2>1, TrimmedInk
<1>18. \A i \in 1..Len(lines) : Len(lines[i]) <= cols
  <2>1. \A i \in 1..Len(lines) : i \in 1..Len(pieces)
    BY <1>13, <1>17
  <2>2. QED
    BY <1>13, <1>17, <2>1
<1>19. Body(f, z, n) \in Seq(Seq(Int))
  BY <1>5, BodyType
<1>20. /\ InkOf(v.log \o Body(f, z, n)) = InkOf(v.log) \o InkOf(Body(f, z, n))
       /\ InkOf(v.log \o lines) = InkOf(v.log) \o InkOf(lines)
  BY <1>3, <1>17, <1>19, InkOfConcat
<1>21. QED
  BY <1>3, <1>10, <1>13, <1>17, <1>18, <1>20

\* A line is laid out from the first column on.
LEMMA LaidOut ==
  ASSUME NEW line \in Seq(Int), NEW cols \in Nat \ {0}, Len(line) <= cols,
         NEW row, row = [c \in 0..cols - 1 |-> IF c < Len(line) THEN line[c + 1] ELSE Blank]
  PROVE  row \in Rows(cols) /\ Inked(Cells(row, cols)) = Inked(line)
<1>1. PICK n \in Nat : n = Len(line) /\ n <= cols
  OBVIOUS
<1>2. \A c \in 0..cols - 1 : row[c] = IF c < n THEN line[c + 1] ELSE 0
  BY <1>1 DEF Blank
<1>3. \A c \in 0..cols - 1 : c < n => c + 1 \in 1..n
  BY <1>1
<1>4. row \in Rows(cols)
  <2>1. \A c \in 0..cols - 1 : row[c] \in Int
    BY <1>1, <1>2, <1>3
  <2>2. QED
    BY <2>1 DEF Rows
<1>5. PICK cells, rest : cells = Cells(row, cols) /\ rest = [i \in 1..cols - n |-> 0]
  OBVIOUS
<1>6. cells \in Seq(Int) /\ Len(cells) = cols /\ \A i \in 1..cols : cells[i] = row[i - 1]
  <2>1. cells \in Seq(Int) /\ Len(cells) = cols
    BY <1>4, <1>5, CellsType
  <2>2. \A i \in 1..cols : cells[i] = row[i - 1]
    BY <1>5 DEF Cells
  <2>3. QED
    BY <2>1, <2>2
<1>7. rest \in Seq(Int) /\ Len(rest) = cols - n /\ \A i \in 1..cols - n : rest[i] = 0
  <2>1. cols - n \in Nat
    BY <1>1
  <2>2. QED
    BY <1>5, <2>1
<1>8. /\ line \o rest \in Seq(Int) /\ Len(line \o rest) = Len(line) + Len(rest)
      /\ \A i \in 1..Len(line) + Len(rest) : (line \o rest)[i] = IF i <= Len(line) THEN line[i] ELSE rest[i - Len(line)]
  BY <1>7, ConcatProperties
<1>9. Len(line) + Len(rest) = cols
  BY <1>1, <1>7
<1>10. ASSUME NEW i \in 1..cols PROVE (line \o rest)[i] = cells[i]
  <2>1. i - 1 \in 0..cols - 1 /\ i - 1 + 1 = i
    OBVIOUS
  <2>2. CASE i <= n
    <3>1. i - 1 < n
      BY <2>2
    <3>2. cells[i] = line[i]
      BY <1>2, <1>6, <2>1, <3>1
    <3>3. QED
      BY <1>1, <1>8, <1>9, <2>2, <3>2
  <2>3. CASE i > n
    <3>1. ~(i - 1 < n) /\ i - n \in 1..cols - n /\ ~(i <= n)
      BY <1>1, <2>3
    <3>2. cells[i] = 0
      BY <1>2, <1>6, <2>1, <3>1
    <3>3. (line \o rest)[i] = rest[i - n]
      BY <1>1, <1>8, <1>9, <3>1
    <3>4. QED
      BY <1>7, <3>1, <3>2, <3>3
  <2>4. i <= n \/ i > n
    BY <1>1
  <2>5. QED
    BY <2>2, <2>3, <2>4
<1>11. line \o rest = cells
  BY <1>6, <1>8, <1>9, <1>10, SeqEqual
<1>12. Inked(rest) = <<>>
  <2>1. \A i \in 1..Len(rest) : ~(rest[i] > 0)
    BY <1>7
  <2>2. QED
    BY <1>7, <2>1, InkedNothing
<1>13. Inked(line \o rest) = Inked(line) \o Inked(rest) /\ Inked(line) \in Seq(Int)
  BY <1>7, InkedConcat, InkedType
<1>14. Inked(cells) = Inked(line)
  BY <1>11, <1>12, <1>13, ConcatEmptySeq
<1>15. QED
  BY <1>4, <1>5, <1>14

\* The lines that are left are on the screen, from the first row on.
LEMMA ResizedShows ==
  ASSUME NEW w, Sound(w), w.pendingRow = NoRow, NEW left \in Seq(Seq(Int)), Len(left) <= w.rows,
         \A r \in 0..w.rows - 1 : Inked(Cells(w.screen[r], w.cols)) = IF r < Len(left) THEN Inked(left[r + 1]) ELSE <<>>
  PROVE  Shown(w) = InkOf(w.log \o left)
<1>1. PICK n \in Nat, k \in Nat, z \in Nat : n = w.rows /\ k = Len(left) /\ k <= n /\ z = 0
  <2>1. w.rows \in Nat /\ Len(left) \in Nat
    BY ScreenType
  <2>2. QED
    BY <2>1
<1>2. PICK f : f = TextsOf(w)
  OBVIOUS
<1>3. f \in Texts(n) /\ w.log \in Seq(Seq(Int)) /\ Shown(w) = InkOf(w.log \o Body(f, z, n))
  BY <1>1, <1>2, ShownIs
<1>4. \A r \in 0..n - 1 : Inked(f[r]) = IF r < k THEN Inked(left[r + 1]) ELSE <<>>
  <2>1. ASSUME NEW r \in 0..n - 1 PROVE Inked(f[r]) = IF r < k THEN Inked(left[r + 1]) ELSE <<>>
    <3>1. r \in 0..w.rows - 1 /\ r # NoRow
      BY <1>1 DEF NoRow
    <3>2. f[r] = Line(w, r)
      BY <1>2, <3>1, TextOf
    <3>3. Inked(Line(w, r)) = Inked(Cells(w.screen[r], w.cols))
      BY <3>1, LineType
    <3>4. QED
      BY <1>1, <3>1, <3>2, <3>3
  <2>2. QED
    BY <2>1
<1>5. Span(f, n, z, k) /\ Span(f, n, k, n) /\ Span(f, n, z, n)
  BY <1>1, <1>3 DEF Span
<1>6. PICK top, b : top = Body(f, z, k) /\ b = Body(f, k, n)
  OBVIOUS
<1>7. InkOf(Body(f, z, n)) = InkOf(top) \o InkOf(b) /\ InkOf(top) \in Seq(Int)
  <2>1. /\ InkOf(Body(f, z, n)) = InkOf(Body(f, z, k)) \o InkOf(Body(f, k, n))
        /\ InkOf(Body(f, z, k)) \in Seq(Int) /\ InkOf(Body(f, k, n)) \in Seq(Int)
    BY <1>5, InkSplit
  <2>2. QED
    BY <1>6, <2>1
<1>8. InkOf(b) = <<>>
  <2>1. \A r \in k..n - 1 : Inked(f[r]) = <<>>
    <3>1. \A r \in k..n - 1 : r \in 0..n - 1 /\ ~(r < k)
      BY <1>1
    <3>2. QED
      BY <1>4, <3>1
  <2>2. Span(f, n, k, n)
    BY <1>5
  <2>3. InkOf(Body(f, k, n)) = <<>>
    BY <2>1, <2>2, InkBlank
  <2>4. QED
    BY <1>6, <2>3
<1>9. InkOf(Body(f, z, n)) = InkOf(top)
  BY <1>7, <1>8, ConcatEmptySeq
<1>10. /\ top \in Seq(Seq(Int)) /\ Len(top) = k
       /\ \A i \in 1..k : top[i] = f[i - 1]
  <2>1. Span(f, n, z, k)
    BY <1>5
  <2>2. /\ Body(f, z, k) \in Seq(Seq(Int)) /\ Len(Body(f, z, k)) = k - z
        /\ \A i \in 1..k - z : Body(f, z, k)[i] = f[z + i - 1]
    <3>1. PICK from, to, rows : from = z /\ to = k /\ rows = n
      OBVIOUS
    <3>2. Span(f, rows, from, to)
      BY <2>1, <3>1
    <3>3. /\ Body(f, from, to) \in Seq(Seq(Int)) /\ Len(Body(f, from, to)) = to - from
          /\ \A i \in 1..to - from : Body(f, from, to)[i] = f[from + i - 1]
      BY <3>2, BodyType
    <3>4. QED
      BY <3>1, <3>3
  <2>3. k - z = k /\ \A i \in 1..k : z + i - 1 = i - 1
    BY <1>1
  <2>4. QED
    BY <1>6, <2>2, <2>3
<1>11. \A i \in 1..k : Inked(top[i]) = Inked(left[i])
  <2>1. \A i \in 1..k : i - 1 \in 0..n - 1 /\ i - 1 < k /\ i - 1 + 1 = i
    BY <1>1
  <2>2. QED
    BY <1>4, <1>10, <2>1
<1>12. InkOf(top) = InkOf(left)
  <2>1. Len(top) = Len(left) /\ \A i \in 1..Len(top) : Inked(top[i]) = Inked(left[i])
    BY <1>1, <1>10, <1>11
  <2>2. top \in Seq(Seq(Int))
    BY <1>10
  <2>3. QED
    BY <2>1, <2>2, InkOfSame
<1>13. Body(f, z, n) \in Seq(Seq(Int))
  <2>1. Span(f, n, z, n)
    BY <1>5
  <2>2. QED
    BY <2>1, BodyType
<1>14. /\ InkOf(w.log \o Body(f, z, n)) = InkOf(w.log) \o InkOf(Body(f, z, n))
       /\ InkOf(w.log \o left) = InkOf(w.log) \o InkOf(left)
  BY <1>3, <1>13, InkOfConcat
<1>15. QED
  BY <1>3, <1>9, <1>12, <1>14

\* Lines that were cut in two are shown as before.
LEMMA CutInk ==
  ASSUME NEW old \in Seq(Seq(Int)), NEW off \in Seq(Seq(Int)), NEW left \in Seq(Seq(Int))
  PROVE  InkOf((old \o off) \o left) = InkOf(old \o (off \o left))
<1> DEFINE S == Seq(Int)
<1>1. old \in Seq(S) /\ off \in Seq(S) /\ left \in Seq(S)
  OBVIOUS
<1> HIDE DEF S
<1>2. (old \o off) \o left = old \o (off \o left)
  BY <1>1, ConcatAssociative, SMTT(60)
<1>3. QED
  BY <1>2

LEMMA Clamps ==
  ASSUME NEW n \in Nat \ {0}, NEW k \in Int
  PROVE  clamp(k, 0, n - 1) \in 0..n - 1
  BY DEF clamp

\* A resize takes nothing from what is shown and leaves the cursor on the screen (Resize).
LEMMA ResizeKeeps ==
  ASSUME TermInv, NEW cols \in Nat \ {0}, NEW rows \in Nat \ {0}, Resize(cols, rows)
  PROVE  TermInv'
<1>1. Good(vt)
  BY DEF TermInv
<1>2. PICK v, lines : v = resolvePending(vt) /\ lines = Reflowed(v, cols)
  OBVIOUS
<1>3. Good(v) /\ v.pendingRow = NoRow /\ Shown(v) = Shown(vt) /\ Seat(v) = Seat(vt)
  BY <1>1, <1>2, ResolvesGood
<1>4. Sound(v) /\ DOMAIN v = Fields
  BY <1>3, FlagsKept
<1>5. /\ lines \in Seq(Seq(Int)) /\ Shown(v) = InkOf(v.log \o lines)
      /\ \A i \in 1..Len(lines) : Len(lines[i]) <= cols
  BY <1>2, <1>3, <1>4, ReflowedInk
<1>6. PICK n \in Nat, excess \in Nat : /\ n = Len(lines) /\ excess = Max({0, Len(lines) - rows})
                                       /\ excess <= n /\ n - excess <= rows
  <2>1. PICK n \in Nat, z \in Int, b \in Int : n = Len(lines) /\ z = 0 /\ b = n - rows
    BY <1>5
  <2>2. Max({z, b}) = IF z >= b THEN z ELSE b
    BY MaxTwo
  <2>3. PICK e : e = Max({z, b})
    OBVIOUS
  <2>4. e \in Nat /\ e <= n /\ n - e <= rows
    BY <2>1, <2>2, <2>3
  <2>5. e = Max({0, Len(lines) - rows})
    BY <2>1, <2>3
  <2>6. QED
    BY <2>1, <2>4, <2>5
<1>7. PICK off, left : off = SubSeq(lines, 1, excess) /\ left = SubSeq(lines, excess + 1, Len(lines))
  OBVIOUS
<1>8. /\ off \in Seq(Seq(Int)) /\ left \in Seq(Seq(Int)) /\ Len(left) = n - excess
      /\ \A i \in 1..n - excess : left[i] = lines[excess + i]
      /\ off \o left = lines
  <2>1. excess \in Nat /\ excess <= Len(lines)
    BY <1>6
  <2>2. /\ SubSeq(lines, 1, excess) \in Seq(Seq(Int)) /\ SubSeq(lines, excess + 1, Len(lines)) \in Seq(Seq(Int))
        /\ Len(SubSeq(lines, 1, excess)) = excess /\ Len(SubSeq(lines, excess + 1, Len(lines))) = Len(lines) - excess
        /\ \A i \in 1..excess : SubSeq(lines, 1, excess)[i] = lines[i]
        /\ \A i \in 1..Len(lines) - excess : SubSeq(lines, excess + 1, Len(lines))[i] = lines[excess + i]
        /\ SubSeq(lines, 1, excess) \o SubSeq(lines, excess + 1, Len(lines)) = lines
    BY <1>5, <2>1, Cut
  <2>3. QED
    BY <1>6, <1>7, <2>2
<1>9. PICK u : u = appendHistoryLines(v, off)
  OBVIOUS
<1>10. /\ Sound(u) /\ Seat(u) = Seat(v) /\ u.log = v.log \o off
       /\ u.pendingRow = v.pendingRow /\ u.pendingText = v.pendingText /\ u.strayed = v.strayed
  <2>1. Sound(v) /\ off \in Seq(Seq(Int))
    BY <1>4, <1>8
  <2>2. /\ Sound(u) /\ Seat(u) = Seat(v) /\ u.log = v.log \o off
        /\ u.screen = v.screen /\ u.committedRows = v.committedRows /\ u.pendingRow = v.pendingRow
        /\ u.pendingText = v.pendingText /\ u.strayed = v.strayed
    BY <1>9, <2>1, Appended, SMTT(60)
  <2>3. QED
    BY <2>2
<1>11. u.ink = v.ink /\ u.lost = v.lost /\ DOMAIN u = Fields
  BY <1>4, <1>9 DEF appendHistoryLines, Fields
<1>12. PICK screen, x, y : /\ screen = [r \in 0..rows - 1 |-> [c \in 0..cols - 1 |-> Cell(lines, r + excess, c)]]
                           /\ x = clamp(v.x, 0, cols - 1) /\ y = clamp(v.y - v.committedRows, 0, rows - 1)
  OBVIOUS
<1>13. PICK w : w = [u EXCEPT !.cols = cols, !.rows = rows, !.wrapPending = FALSE, !.committedRows = 0,
                              !.screen = screen, !.x = x, !.y = y]
  OBVIOUS
<1>14. /\ DOMAIN w = Fields
       /\ w.cols = cols /\ w.rows = rows /\ w.x = x /\ w.y = y /\ w.savedX = u.savedX /\ w.savedY = u.savedY
       /\ w.history = u.history /\ w.head = u.head /\ w.dropped = u.dropped /\ w.log = u.log
       /\ w.pendingRow = u.pendingRow /\ w.pendingText = u.pendingText /\ w.committedRows = 0
       /\ w.ink = u.ink /\ w.lost = u.lost /\ w.strayed = u.strayed /\ w.screen = screen
  BY <1>11, <1>13 DEF Fields
<1>15. ASSUME NEW r \in 0..rows - 1
       PROVE  /\ screen[r] \in Rows(cols)
              /\ Inked(Cells(screen[r], cols)) = IF r < Len(left) THEN Inked(left[r + 1]) ELSE <<>>
  <2>1. PICK row : row = [c \in 0..cols - 1 |-> Cell(lines, r + excess, c)]
    OBVIOUS
  <2>2. screen[r] = row
    BY <1>12, <2>1
  <2>3. r + excess < n <=> r < n - excess
    BY <1>6
  <2>4. CASE r < n - excess
    <3>1. r + 1 \in 1..n - excess /\ excess + (r + 1) = r + excess + 1 /\ r + excess + 1 \in 1..n
      BY <1>6, <2>4
    <3>2. PICK line : line = left[r + 1] /\ line = lines[r + excess + 1]
      BY <1>8, <3>1
    <3>3. line \in Seq(Int) /\ Len(line) <= cols
      BY <1>5, <1>6, <3>1, <3>2
    <3>4. row = [c \in 0..cols - 1 |-> IF c < Len(line) THEN line[c + 1] ELSE Blank]
      BY <1>6, <2>1, <2>3, <2>4, <3>2 DEF Cell
    <3>5. row \in Rows(cols) /\ Inked(Cells(row, cols)) = Inked(line)
      BY <3>3, <3>4, LaidOut
    <3>6. QED
      BY <1>8, <2>2, <2>4, <3>2, <3>5
  <2>5. CASE ~(r < n - excess)
    <3>1. row = blankRow(cols)
      BY <1>6, <2>1, <2>3, <2>5 DEF Cell, blankRow
    <3>2. row \in Rows(cols) /\ Marks(row) = {}
      BY <3>1, BlankRow
    <3>3. Inked(Cells(row, cols)) = <<>>
      BY <3>2, BlankText
    <3>4. QED
      BY <1>8, <2>2, <2>5, <3>2, <3>3
  <2>6. QED
    BY <2>4, <2>5
<1>16. Shaped(w)
  <2>1. screen \in [0..rows - 1 -> Rows(cols)]
    <3>1. \A r \in 0..rows - 1 : screen[r] \in Rows(cols)
      BY <1>15
    <3>2. screen = [r \in 0..rows - 1 |-> screen[r]]
      BY <1>12
    <3>3. QED
      BY <3>1, <3>2
  <2>2. 0 \in 0..rows /\ \A r \in 0..0 - 1 : FALSE
    OBVIOUS
  <2>3. w.log \in Seq(Seq(Int))
    BY <1>10, <1>14 DEF Sound, Shaped
  <2>4. QED
    BY <1>14, <2>1, <2>2, <2>3 DEF Shaped
<1>17. w.pendingRow = NoRow
  BY <1>3, <1>10, <1>14
<1>18. Erasing(w)
  BY <1>10, <1>14, <1>17 DEF Sound, Erasing
<1>19. Kept(w)
  BY <1>10, <1>14 DEF Sound, Kept
<1>20. Sound(w)
  BY <1>16, <1>18, <1>19 DEF Sound
<1>21. Shown(w) = InkOf(w.log \o left)
  <2>1. left \in Seq(Seq(Int)) /\ Len(left) <= w.rows
    BY <1>6, <1>8, <1>14
  <2>2. \A r \in 0..w.rows - 1 : Inked(Cells(w.screen[r], w.cols)) = IF r < Len(left) THEN Inked(left[r + 1]) ELSE <<>>
    BY <1>14, <1>15
  <2>3. QED
    BY <1>17, <1>20, <2>1, <2>2, ResizedShows
<1>22. Shown(w) = Shown(v)
  <2>1. v.log \in Seq(Seq(Int))
    BY <1>4 DEF Sound, Shaped
  <2>2. InkOf((v.log \o off) \o left) = InkOf(v.log \o (off \o left))
    BY <1>8, <2>1, CutInk
  <2>3. QED
    BY <1>5, <1>8, <1>10, <1>14, <1>21, <2>2
<1>23. Placed(w)
  <2>1. v.x \in Int /\ v.y - v.committedRows \in Int /\ v.savedX \in Int /\ v.savedY \in Int
    <3>1. v.x \in Nat /\ v.y \in Nat /\ v.committedRows \in Nat
      BY <1>3, <1>4, Bounds, BlankAbove
    <3>2. v.x \in Int /\ v.y - v.committedRows \in Int
      BY <3>1
    <3>3. QED
      BY <1>3, <3>2, FlagsKept
  <2>2. x \in 0..cols - 1 /\ y \in 0..rows - 1
    BY <1>12, <2>1, Clamps
  <2>3. u.savedX = v.savedX /\ u.savedY = v.savedY
    BY <1>10 DEF Seat
  <2>4. v.ink \in Nat
    BY <1>3, FlagsKept
  <2>5. QED
    BY <1>11, <1>14, <2>1, <2>2, <2>3, <2>4 DEF Placed
<1>24. Steady(w)
  BY <1>3, <1>10, <1>14, <1>17 DEF Good, Steady
<1>25. Good(w)
  BY <1>3, <1>11, <1>14, <1>20, <1>23, <1>24 DEF Good
<1>26. Keeps(w)
  <2>1. u.x = v.x /\ u.y = v.y
    BY <1>10 DEF Seat
  <2>2. w = [u EXCEPT !.cols = cols, !.rows = rows, !.wrapPending = FALSE, !.committedRows = 0,
                      !.screen = [r \in 0..rows - 1 |-> [c \in 0..cols - 1 |-> Cell(lines, r + excess, c)]],
                      !.x = clamp(@, 0, cols - 1), !.y = clamp(@ - v.committedRows, 0, rows - 1)]
    BY <1>11, <1>12, <1>13, <2>1 DEF Fields
  <2>3. QED
    BY <1>2, <1>6, <1>7, <1>9, <2>2 DEF Resize
<1>27. QED
  BY <1>3, <1>22, <1>25, <1>26, KeepsGood

-----------------------------------------------------------------------------
(* The invariant and what follows from it.                                 *)

\* Every step keeps the invariant.
LEMMA TerminalStep ==
  ASSUME TermInv, TerminalNext
  PROVE  TermInv'
<1>1. \A n \in Numbers : n \in Int
  <2>1. -MaxInt - 1..MaxInt \subseteq Int
    BY MaxHistoryNat
  <2>2. QED
    BY <2>1, TerminalAssumption
<1>2. CASE \E w \in {1, 2} : print(w)
  BY <1>2, PrintKeeps
<1>3. CASE carriageReturn \/ backspace \/ lineFeed \/ saveCursor
  BY <1>3, ControlKeeps
<1>4. CASE tab
  BY <1>4, TabKeeps
<1>5. CASE restoreCursorEsc \/ restoreCursor
  BY <1>5, RestoreKeeps
<1>6. CASE reverseIndex
  BY <1>6, ReverseKeeps
<1>7. CASE resetToInitial
  BY <1>7, ResetKeeps
<1>8. CASE \E n \in Numbers : cursorVertical(n) \/ cursorHorizontal(n) \/ scroll(n) \/ edit(n)
  <2>1. PICK n \in Int : cursorVertical(n) \/ cursorHorizontal(n) \/ scroll(n) \/ edit(n)
    BY <1>1, <1>8
  <2>2. CASE cursorVertical(n)
    BY <2>2, VerticalKeeps
  <2>3. CASE cursorHorizontal(n)
    BY <2>3, HorizontalKeeps
  <2>4. CASE edit(n) \/ scroll(n)
    BY <2>4, EditKeeps
  <2>5. QED
    BY <2>1, <2>2, <2>3, <2>4
<1>9. CASE \E m, n \in Numbers : cursorPosition(m, n)
  <2>1. PICK m \in Int, n \in Int : cursorPosition(m, n)
    BY <1>1, <1>9
  <2>2. QED
    BY <2>1, PositionKeeps
<1>10. CASE \E mode \in 0..2 : eraseInDisplay(mode) \/ eraseInLine(mode)
  <2>1. PICK mode \in 0..2 : eraseInDisplay(mode) \/ eraseInLine(mode)
    BY <1>10
  <2>2. QED
    BY <2>1, EraseDisplayKeeps, EraseLineKeeps
<1>11. CASE Flush
  BY <1>11, FlushKeeps
<1>12. CASE \E s \in Sizes : Resize(s[1], s[2])
  <2>1. PICK s \in Sizes : Resize(s[1], s[2])
    BY <1>12
  <2>2. PICK cols \in Nat \ {0}, rows \in Nat \ {0} : cols = s[1] /\ rows = s[2]
    BY TerminalAssumption
  <2>3. Resize(cols, rows)
    BY <2>1, <2>2
  <2>4. QED
    BY <2>3, ResizeKeeps
<1>13. QED
  BY <1>2, <1>3, <1>4, <1>5, <1>6, <1>7, <1>8, <1>9, <1>10, <1>11, <1>12 DEF TerminalNext

\* What was omitted of the lines, and that nothing else is (HistoryIsWhole).
LEMMA HistoryKept ==
  ASSUME TermInv
  PROVE  HistoryIsWhole
<1>1. Sound(vt)
  BY FlagsKept DEF TermInv
<1>2. PICK log, m : log = vt.log /\ m = MaxHistory
  OBVIOUS
<1>3. /\ log \in Seq(Seq(Int)) /\ m \in Nat /\ m > 0
      /\ vt.head = FirstOf(log, m) /\ vt.history = LastOf(log, m)
      /\ vt.dropped = Len(log) - Len(vt.history)
  BY <1>1, <1>2, MaxHistoryNat DEF Sound, Shaped, Kept
<1>4. PICK head, hist : head = vt.head /\ hist = vt.history
  OBVIOUS
<1>5. /\ head \in Seq(Seq(Int)) /\ Len(head) = (IF m <= Len(log) THEN m ELSE Len(log))
      /\ \A i \in 1..Len(head) : head[i] = log[i]
  BY <1>3, <1>4, FirstOfIs
<1>6. /\ hist \in Seq(Seq(Int)) /\ Len(hist) = (IF m <= Len(log) THEN m ELSE Len(log))
      /\ \A i \in 1..Len(hist) : hist[i] = log[Len(log) - Len(hist) + i]
  <2>1. /\ LastOf(log, m) \in Seq(Seq(Int)) /\ Len(LastOf(log, m)) = (IF m <= Len(log) THEN m ELSE Len(log))
        /\ \A i \in 1..Len(LastOf(log, m)) : LastOf(log, m)[i] = log[Len(log) - Len(LastOf(log, m)) + i]
    BY <1>3, LastOfIs
  <2>2. hist = LastOf(log, m)
    BY <1>3, <1>4
  <2>3. QED
    BY <2>1, <2>2
<1>7. PICK n \in Nat, k \in Nat, b \in Nat :
        /\ n = Len(log) /\ b = m /\ b > 0 /\ k = (IF b <= n THEN b ELSE n)
        /\ Len(head) = k /\ Len(hist) = k
  <2>1. PICK n \in Nat, b \in Nat : n = Len(log) /\ b = m /\ b > 0
    BY <1>3
  <2>2. PICK k \in Nat : k = IF b <= n THEN b ELSE n
    OBVIOUS
  <2>3. Len(head) = k /\ Len(hist) = k
    BY <1>5, <1>6, <2>1, <2>2
  <2>4. QED
    BY <2>1, <2>2, <2>3
<1>8. vt.dropped = n - k /\ vt.head = head /\ vt.history = hist
  BY <1>3, <1>4, <1>7
<1>9. hist = SubSeq(log, n - k + 1, n) /\ head = SubSeq(log, 1, k)
  <2>1. Min({b, n}) = k
    BY <1>7, MinTwo
  <2>2. hist = SubSeq(log, n - Min({b, n}) + 1, n) /\ head = SubSeq(log, 1, Min({b, n}))
    BY <1>3, <1>4, <1>7 DEF FirstOf, LastOf
  <2>3. QED
    BY <2>1, <2>2
<1> DEFINE t == TranscriptHistory(vt)
<1>10. CASE n <= b
  <2>1. k = n /\ n - k = 0 /\ n - k + 1 = 1
    BY <1>7, <1>10
  <2>2. hist = log
    <3>1. hist = SubSeq(log, 1, Len(log))
      BY <1>7, <1>9, <2>1
    <3>2. QED
      BY <1>3, <3>1, SubSeqFull
  <2>3. t = log
    BY <1>8, <2>1, <2>2 DEF TranscriptHistory
  <2>4. OmittedLines(vt) = 0
    <3>1. OmittedLines(vt) = Max({0, (n - k) - k})
      BY <1>7, <1>8 DEF OmittedLines
    <3>a. (n - k) - k \in Int
      BY <1>7
    <3>b. PICK z, c : z = 0 /\ c = (n - k) - k
      OBVIOUS
    <3>2. z \in Int /\ c \in Int /\ z = 0 /\ c = (n - k) - k
      BY <3>a, <3>b
    <3>3. Max({z, c}) = IF z >= c THEN z ELSE c
      BY <3>2, MaxTwo
    <3>4. QED
      BY <1>7, <2>1, <3>1, <3>2, <3>3
  <2>5. n <= 2 * MaxHistory
    BY <1>2, <1>7, <1>10
  <2>6. QED
    BY <1>2, <1>7, <2>3, <2>4, <2>5 DEF HistoryIsWhole
<1>11. CASE n > b
  <2>1. k = b /\ n - k > 0
    BY <1>7, <1>11
  <2>2. PICK skip \in Nat : skip = Max({0, k - (n - k)}) /\ skip = (IF n <= 2 * b THEN b + b - n ELSE 0) /\ skip <= k
    <3>a. k - (n - k) \in Int
      BY <1>7
    <3>b. PICK z, c : z = 0 /\ c = k - (n - k)
      OBVIOUS
    <3>1. z \in Int /\ c \in Int /\ z = 0 /\ c = k - (n - k)
      BY <3>a, <3>b
    <3>2. Max({z, c}) = IF z >= c THEN z ELSE c
      BY <3>1, MaxTwo
    <3>3. PICK e : e = Max({z, c})
      OBVIOUS
    <3>4. e \in Nat /\ e = (IF n <= 2 * b THEN b + b - n ELSE 0) /\ e <= k
      BY <1>7, <1>11, <2>1, <3>1, <3>2, <3>3
    <3>5. e = Max({0, k - (n - k)})
      BY <3>1, <3>3
    <3>6. QED
      BY <3>4, <3>5
  <2>3. t = head \o SubSeq(hist, skip + 1, k)
    <3>1. vt.dropped # 0
      BY <1>8, <2>1
    <3>2. t = vt.head \o SubSeq(vt.history, Max({0, Len(vt.head) - vt.dropped}) + 1, Len(vt.history))
      BY <3>1 DEF TranscriptHistory
    <3>3. Len(vt.head) = k /\ Len(vt.history) = k /\ Max({0, Len(vt.head) - vt.dropped}) = skip
      BY <1>7, <1>8, <2>2
    <3>4. QED
      BY <1>8, <3>2, <3>3
  <2>4. /\ SubSeq(hist, skip + 1, k) \in Seq(Seq(Int)) /\ Len(SubSeq(hist, skip + 1, k)) = k - skip
        /\ \A i \in 1..k - skip : SubSeq(hist, skip + 1, k)[i] = hist[skip + i]
    <3> DEFINE S == Seq(Int)
    <3>1. PICK from \in Nat, to \in Nat : from = skip /\ to = k
      OBVIOUS
    <3>2. hist \in Seq(S) /\ from <= to /\ to <= Len(hist)
      BY <1>6, <1>7, <2>2, <3>1
    <3> HIDE DEF S
    <3>3. PICK part : part = SubSeq(hist, from + 1, to)
      OBVIOUS
    <3>4. /\ part \in Seq(S) /\ Len(part) = to - from
          /\ \A i \in 1..to - from : part[i] = hist[from + i]
      BY <3>2, <3>3, Slice
    <3>5. QED
      BY <3>1, <3>3, <3>4 DEF S
  <2>5. PICK tail : tail = SubSeq(hist, skip + 1, k)
    OBVIOUS
  <2>6. /\ t \in Seq(Seq(Int)) /\ Len(t) = k + (k - skip)
        /\ \A i \in 1..k + (k - skip) : t[i] = IF i <= k THEN head[i] ELSE tail[i - k]
    <3>1. Len(tail) = k - skip /\ tail \in Seq(Seq(Int))
      BY <2>4, <2>5
    <3>2. /\ head \o tail \in Seq(Seq(Int)) /\ Len(head \o tail) = Len(head) + Len(tail)
          /\ \A i \in 1..Len(head) + Len(tail) : (head \o tail)[i] = IF i <= Len(head) THEN head[i] ELSE tail[i - Len(head)]
      <4>1. PICK a, c : a = head /\ c = tail
        OBVIOUS
      <4>2. a \in Seq(Seq(Int)) /\ c \in Seq(Seq(Int))
        BY <1>5, <3>1, <4>1
      <4>3. /\ a \o c \in Seq(Seq(Int)) /\ Len(a \o c) = Len(a) + Len(c)
            /\ \A i \in 1..Len(a) + Len(c) : (a \o c)[i] = IF i <= Len(a) THEN a[i] ELSE c[i - Len(a)]
        BY <4>2, ConcatProperties
      <4>4. QED
        BY <4>1, <4>3
    <3>3. QED
      BY <1>7, <2>3, <2>5, <3>1, <3>2
  <2>7. OmittedLines(vt) = IF n <= 2 * b THEN 0 ELSE n - 2 * b
    <3>1. OmittedLines(vt) = Max({0, (n - k) - k})
      BY <1>7, <1>8 DEF OmittedLines
    <3>a. (n - k) - k \in Int
      BY <1>7
    <3>b. PICK z, c : z = 0 /\ c = (n - k) - k
      OBVIOUS
    <3>2. z \in Int /\ c \in Int /\ z = 0 /\ c = (n - k) - k
      BY <3>a, <3>b
    <3>3. Max({z, c}) = IF z >= c THEN z ELSE c
      BY <3>2, MaxTwo
    <3>4. QED
      BY <1>7, <2>1, <3>1, <3>2, <3>3
  <2> HIDE DEF t
  <2>8. n = Len(t) + OmittedLines(vt)
    <3>1. Len(t) = k + (k - skip) /\ k = b
      BY <2>1, <2>6
    <3>2. CASE n <= 2 * b
      <4>1. skip = b + b - n /\ OmittedLines(vt) = 0
        BY <2>2, <2>7, <3>2
      <4>2. QED
        BY <3>1, <4>1
    <3>3. CASE ~(n <= 2 * b)
      <4>1. skip = 0 /\ OmittedLines(vt) = n - 2 * b
        BY <2>2, <2>7, <3>3
      <4>2. QED
        BY <3>1, <4>1
    <3>4. QED
      BY <3>2, <3>3
  <2>9. CASE n <= 2 * b
    <3>1. Len(t) = n
      BY <1>7, <2>1, <2>2, <2>6, <2>9
    <3>2. ASSUME NEW i \in 1..n PROVE t[i] = log[i]
      <4>1. CASE i <= k
        <5>1. i \in 1..k /\ i \in 1..k + (k - skip)
          BY <2>2, <4>1
        <5>2. QED
          BY <1>5, <1>7, <2>6, <4>1, <5>1
      <4>2. CASE i > k
        <5>1. PICK j : j = i - k
          OBVIOUS
        <5>2. /\ j \in 1..k - skip /\ skip + j \in 1..k /\ n - k + (skip + j) = i /\ i \in 1..k + (k - skip) /\ ~(i <= k)
          <6>1. skip = b + b - n /\ k = b /\ n > b
            BY <1>11, <2>1, <2>2, <2>9
          <6>2. QED
            BY <4>2, <5>1, <6>1
        <5>3. t[i] = tail[j]
          BY <2>6, <5>1, <5>2
        <5>4. tail[j] = hist[skip + j]
          BY <2>4, <2>5, <5>2
        <5>5. hist[skip + j] = log[i]
          BY <1>6, <1>7, <5>2
        <5>6. QED
          BY <5>3, <5>4, <5>5
      <4>3. i <= k \/ i > k
        OBVIOUS
      <4>4. QED
        BY <4>1, <4>2, <4>3
    <3>3. t = log
      BY <1>3, <1>7, <2>6, <3>1, <3>2, SeqEqual
    <3>4. QED
      BY <1>2, <1>7, <2>8, <2>9, <3>3 DEF HistoryIsWhole, t
  <2>10. CASE ~(n <= 2 * b)
    <3>1. skip = 0 /\ skip + 1 = 1
      BY <2>2, <2>10
    <3>2. SubSeq(hist, 1, k) = hist
      BY <1>6, <1>7, SubSeqFull
    <3>3. t = SubSeq(log, 1, b) \o SubSeq(log, n - b + 1, n)
      BY <1>9, <2>1, <2>3, <3>1, <3>2 DEF t
    <3>4. QED
      BY <1>2, <1>7, <2>8, <2>10, <3>3 DEF HistoryIsWhole, t
  <2>11. QED
    BY <2>9, <2>10
<1>12. QED
  BY <1>7, <1>10, <1>11

\* The invariant implies what the run checks.
LEMMA TermInvHolds == ASSUME TermInv PROVE TerminalHolds
<1>1. Good(vt) /\ Sound(vt)
  BY FlagsKept DEF TermInv
<1>2. CursorOnScreen
  BY <1>1, FlagsKept DEF CursorOnScreen
<1>3. LoggedIsBlank
  <2>1. vt.committedRows \in 0..vt.rows /\ \A r \in 0..vt.committedRows - 1 : Marks(vt.screen[r]) = {}
    BY <1>1 DEF Sound, Shaped
  <2>2. \A r \in 0..vt.committedRows - 1 : r \in 0..vt.rows - 1
    <3>1. PICK n \in Nat, k \in Nat : n = vt.rows /\ k = vt.committedRows /\ k <= n
      BY <1>1, BlankAbove
    <3>2. QED
      BY <3>1
  <2>3. \A r \in 0..vt.committedRows - 1 : Line(vt, r) = <<>>
    BY <1>1, <2>1, <2>2, LineType
  <2>4. vt.pendingRow # NoRow => Line(vt, vt.pendingRow) = <<>> /\ vt.pendingText # <<>>
    <3>1. SUFFICES ASSUME vt.pendingRow # NoRow PROVE Line(vt, vt.pendingRow) = <<>> /\ vt.pendingText # <<>>
      OBVIOUS
    <3>2. vt.pendingRow \in 0..vt.rows - 1 /\ Marks(vt.screen[vt.pendingRow]) = {} /\ vt.pendingText # <<>>
      BY <1>1, <3>1 DEF Sound, Erasing
    <3>3. QED
      BY <1>1, <3>2, LineType
  <2>5. QED
    BY <2>1, <2>3, <2>4 DEF LoggedIsBlank
<1>4. HistoryIsWhole
  BY HistoryKept
<1>5. ClearsKeep
  BY <1>1, FlagsKept DEF ClearsKeep
<1>6. QED
  BY <1>2, <1>3, <1>4, <1>5 DEF TerminalHolds

\* For any size, tab stop, limit of history and parameter the cursor stays on the screen,
\* committed and erased rows are blank, the transcript has every line once or says how many
\* it omits, and no clear, scroll, resize or move takes anything from it or changes its
\* order (vt.go).
THEOREM TerminalTruth == TerminalSpec => []TerminalHolds
<1>1. TerminalInit => TermInv
  BY InitGood
<1>2. TermInv /\ [TerminalNext]_vt => TermInv'
  <2>1. SUFFICES ASSUME TermInv, TerminalNext \/ UNCHANGED vt PROVE TermInv'
    OBVIOUS
  <2>2. CASE TerminalNext
    BY <2>1, <2>2, TerminalStep
  <2>3. CASE UNCHANGED vt
    BY <2>1, <2>3 DEF TermInv
  <2>4. QED
    BY <2>1, <2>2, <2>3
<1>3. TermInv => TerminalHolds
  BY TermInvHolds
<1>4. QED
  BY <1>1, <1>2, <1>3, PTL DEF TerminalSpec

-----------------------------------------------------------------------------
(* The stop of a gateway (Drain).                                          *)

\* Every setup on its way is counted.
SetupsCounted == \A c \in Conns : pc[c] \in {"setup", "parked", "denying", "opened"} => c \in counting

\* From the flag on, a stop that drains stays a drain.
DrainFlagged == stop \in {"flagged", "telling", "waiting", "polling", "drained"} => draining

\* Behind the wait for the setups there are none, and behind an empty poll no
\* session either.
SetupsBehind ==
  /\ stop \in {"polling", "drained"} => counting = {}
  /\ emptied => draining /\ counting = {} /\ live = {} /\ stop \in {"drained", "closing", "cutting", "returned"}

\* A Serve that accepts has registered its listener, which Close closes.
ListenerKnown ==
  /\ serve = "accepting" => ln
  /\ stop \in {"cutting", "returned"} /\ ln => ~lnOpen

DrainInv ==
  /\ TypeOK
  /\ SetupsCounted /\ DrainFlagged /\ SetupsBehind
  /\ ListenerKnown
  /\ EveryoneIsTold /\ NothingAfterClose

\* The invariant holds before Serve has run.
LEMMA DrainInit == Init => DrainInv
  BY DEF Init, DrainInv, TypeOK, SetupsCounted, DrainFlagged, SetupsBehind, ListenerKnown,
       EveryoneIsTold, NothingAfterClose

\* What a connection's handler does keeps the invariant.
LEMMA HandlerKeeps == ASSUME DrainInv, NEW c \in Conns, Handler(c) PROVE DrainInv'
<1> USE DEF DrainInv, Goes, closed, listener, drain
<1>1. CASE Accept(c)
  <2>1. TypeOK'
    BY <1>1 DEF Accept, TypeOK
  <2>2. (SetupsCounted /\ DrainFlagged /\ SetupsBehind)'
    BY <1>1 DEF Accept, TypeOK, SetupsCounted, DrainFlagged, SetupsBehind
  <2>3. (ListenerKnown /\ EveryoneIsTold /\ NothingAfterClose)'
    BY <1>1 DEF Accept, TypeOK, ListenerKnown, EveryoneIsTold, NothingAfterClose
  <2> QED
    BY <2>1, <2>2, <2>3
<1>2. CASE handleConn(c)
  <2>1. TypeOK'
    BY <1>2 DEF handleConn, TypeOK
  <2>2. (SetupsCounted /\ DrainFlagged /\ SetupsBehind)'
    BY <1>2 DEF handleConn, TypeOK, SetupsCounted, DrainFlagged, SetupsBehind
  <2>3. (ListenerKnown /\ EveryoneIsTold /\ NothingAfterClose)'
    BY <1>2 DEF handleConn, TypeOK, ListenerKnown, EveryoneIsTold, NothingAfterClose
  <2> QED
    BY <2>1, <2>2, <2>3
<1>3. CASE forgetConn(c)
  <2>1. TypeOK'
    BY <1>3 DEF forgetConn, TypeOK
  <2>2. (SetupsCounted /\ DrainFlagged /\ SetupsBehind)'
    BY <1>3 DEF forgetConn, TypeOK, SetupsCounted, DrainFlagged, SetupsBehind
  <2>3. (ListenerKnown /\ EveryoneIsTold /\ NothingAfterClose)'
    BY <1>3 DEF forgetConn, TypeOK, ListenerKnown, EveryoneIsTold, NothingAfterClose
  <2> QED
    BY <2>1, <2>2, <2>3
<1>4. CASE serveHumanSession(c)
  <2>1. TypeOK'
    BY <1>4 DEF serveHumanSession, TypeOK
  <2>2. (SetupsCounted /\ DrainFlagged /\ SetupsBehind)'
    BY <1>4 DEF serveHumanSession, TypeOK, SetupsCounted, DrainFlagged, SetupsBehind
  <2>3. (ListenerKnown /\ EveryoneIsTold /\ NothingAfterClose)'
    BY <1>4 DEF serveHumanSession, TypeOK, ListenerKnown, EveryoneIsTold, NothingAfterClose
  <2> QED
    BY <2>1, <2>2, <2>3
<1>5. CASE denyHuman(c)
  <2>1. TypeOK'
    BY <1>5 DEF denyHuman, TypeOK
  <2>2. (SetupsCounted /\ DrainFlagged /\ SetupsBehind)'
    BY <1>5 DEF denyHuman, TypeOK, SetupsCounted, DrainFlagged, SetupsBehind
  <2>3. (ListenerKnown /\ EveryoneIsTold /\ NothingAfterClose)'
    BY <1>5 DEF denyHuman, TypeOK, ListenerKnown, EveryoneIsTold, NothingAfterClose
  <2> QED
    BY <2>1, <2>2, <2>3
<1>6. CASE writeAndClose(c)
  <2>1. TypeOK'
    BY <1>6 DEF writeAndClose, TypeOK
  <2>2. (SetupsCounted /\ DrainFlagged /\ SetupsBehind)'
    BY <1>6 DEF writeAndClose, TypeOK, SetupsCounted, DrainFlagged, SetupsBehind
  <2>3. (ListenerKnown /\ EveryoneIsTold /\ NothingAfterClose)'
    BY <1>6 DEF writeAndClose, TypeOK, ListenerKnown, EveryoneIsTold, NothingAfterClose
  <2> QED
    BY <2>1, <2>2, <2>3
<1>7. CASE OpenSession(c)
  <2>1. TypeOK'
    BY <1>7 DEF OpenSession, TypeOK
  <2>2. (SetupsCounted /\ DrainFlagged /\ SetupsBehind)'
    BY <1>7 DEF OpenSession, TypeOK, SetupsCounted, DrainFlagged, SetupsBehind
  <2>3. (ListenerKnown /\ EveryoneIsTold /\ NothingAfterClose)'
    BY <1>7 DEF OpenSession, TypeOK, ListenerKnown, EveryoneIsTold, NothingAfterClose
  <2> QED
    BY <2>1, <2>2, <2>3
<1>8. CASE setupDone(c)
  <2>1. TypeOK'
    BY <1>8 DEF setupDone, TypeOK
  <2>2. (SetupsCounted /\ DrainFlagged /\ SetupsBehind)'
    BY <1>8 DEF setupDone, TypeOK, SetupsCounted, DrainFlagged, SetupsBehind
  <2>3. (ListenerKnown /\ EveryoneIsTold /\ NothingAfterClose)'
    BY <1>8 DEF setupDone, TypeOK, ListenerKnown, EveryoneIsTold, NothingAfterClose
  <2> QED
    BY <2>1, <2>2, <2>3
<1>9. CASE watchDrain(c)
  <2>1. TypeOK'
    BY <1>9 DEF watchDrain, TypeOK
  <2>2. (SetupsCounted /\ DrainFlagged /\ SetupsBehind)'
    BY <1>9 DEF watchDrain, TypeOK, SetupsCounted, DrainFlagged, SetupsBehind
  <2>3. (ListenerKnown /\ EveryoneIsTold /\ NothingAfterClose)'
    BY <1>9 DEF watchDrain, TypeOK, ListenerKnown, EveryoneIsTold, NothingAfterClose
  <2> QED
    BY <2>1, <2>2, <2>3
<1>10. CASE endSession(c)
  <2>1. TypeOK'
    BY <1>10 DEF endSession, TypeOK
  <2>2. (SetupsCounted /\ DrainFlagged /\ SetupsBehind)'
    BY <1>10 DEF endSession, TypeOK, SetupsCounted, DrainFlagged, SetupsBehind
  <2>3. (ListenerKnown /\ EveryoneIsTold /\ NothingAfterClose)'
    BY <1>10 DEF endSession, TypeOK, ListenerKnown, EveryoneIsTold, NothingAfterClose
  <2> QED
    BY <2>1, <2>2, <2>3
<1>11. CASE awaitsDriveMu(c)
  <2>1. TypeOK'
    BY <1>11 DEF awaitsDriveMu, TypeOK
  <2>2. (SetupsCounted /\ DrainFlagged /\ SetupsBehind)'
    BY <1>11 DEF awaitsDriveMu, TypeOK, SetupsCounted, DrainFlagged, SetupsBehind
  <2>3. (ListenerKnown /\ EveryoneIsTold /\ NothingAfterClose)'
    BY <1>11 DEF awaitsDriveMu, TypeOK, ListenerKnown, EveryoneIsTold, NothingAfterClose
  <2> QED
    BY <2>1, <2>2, <2>3
<1>12. CASE takesDriveMu(c)
  <2>1. TypeOK'
    BY <1>12 DEF takesDriveMu, TypeOK
  <2>2. (SetupsCounted /\ DrainFlagged /\ SetupsBehind)'
    BY <1>12 DEF takesDriveMu, TypeOK, SetupsCounted, DrainFlagged, SetupsBehind
  <2>3. (ListenerKnown /\ EveryoneIsTold /\ NothingAfterClose)'
    BY <1>12 DEF takesDriveMu, TypeOK, ListenerKnown, EveryoneIsTold, NothingAfterClose
  <2> QED
    BY <2>1, <2>2, <2>3
<1> QED
  BY <1>1, <1>2, <1>3, <1>4, <1>5, <1>6, <1>7, <1>8, <1>9, <1>10, <1>11, <1>12 DEF Handler

\* What the run loop does keeps the invariant.
LEMMA StopKeeps == ASSUME DrainInv, Stop PROVE DrainInv'
<1> USE DEF DrainInv, listener, drain, people
<1>1. CASE Drain
  <2>1. TypeOK'
    BY <1>1 DEF Drain, TypeOK
  <2>2. (SetupsCounted /\ DrainFlagged /\ SetupsBehind)'
    BY <1>1 DEF Drain, TypeOK, SetupsCounted, DrainFlagged, SetupsBehind
  <2>3. (ListenerKnown /\ EveryoneIsTold /\ NothingAfterClose)'
    BY <1>1 DEF Drain, TypeOK, ListenerKnown, EveryoneIsTold, NothingAfterClose
  <2> QED
    BY <2>1, <2>2, <2>3
<1>2. CASE closeListener
  <2>1. TypeOK'
    BY <1>2 DEF closeListener, TypeOK
  <2>2. (SetupsCounted /\ DrainFlagged /\ SetupsBehind)'
    BY <1>2 DEF closeListener, TypeOK, SetupsCounted, DrainFlagged, SetupsBehind
  <2>3. (ListenerKnown /\ EveryoneIsTold /\ NothingAfterClose)'
    BY <1>2 DEF closeListener, TypeOK, ListenerKnown, EveryoneIsTold, NothingAfterClose
  <2> QED
    BY <2>1, <2>2, <2>3
<1>3. CASE sendDrainNotice
  <2>1. TypeOK'
    BY <1>3 DEF sendDrainNotice, TypeOK
  <2>2. (SetupsCounted /\ DrainFlagged /\ SetupsBehind)'
    BY <1>3 DEF sendDrainNotice, TypeOK, SetupsCounted, DrainFlagged, SetupsBehind
  <2>3. (ListenerKnown /\ EveryoneIsTold /\ NothingAfterClose)'
    BY <1>3 DEF sendDrainNotice, TypeOK, ListenerKnown, EveryoneIsTold, NothingAfterClose
  <2> QED
    BY <2>1, <2>2, <2>3
<1>4. CASE setupsSettled
  <2>1. TypeOK'
    BY <1>4 DEF setupsSettled, TypeOK
  <2>2. (SetupsCounted /\ DrainFlagged /\ SetupsBehind)'
    BY <1>4 DEF setupsSettled, TypeOK, SetupsCounted, DrainFlagged, SetupsBehind
  <2>3. (ListenerKnown /\ EveryoneIsTold /\ NothingAfterClose)'
    BY <1>4 DEF setupsSettled, TypeOK, ListenerKnown, EveryoneIsTold, NothingAfterClose
  <2> QED
    BY <2>1, <2>2, <2>3
<1>5. CASE pollEnds
  <2>1. TypeOK'
    BY <1>5 DEF pollEnds, TypeOK
  <2>2. (SetupsCounted /\ DrainFlagged /\ SetupsBehind)'
    BY <1>5 DEF pollEnds, TypeOK, SetupsCounted, DrainFlagged, SetupsBehind
  <2>3. (ListenerKnown /\ EveryoneIsTold /\ NothingAfterClose)'
    BY <1>5 DEF pollEnds, TypeOK, ListenerKnown, EveryoneIsTold, NothingAfterClose
  <2> QED
    BY <2>1, <2>2, <2>3
<1>6. CASE Close
  <2>1. TypeOK'
    BY <1>6 DEF Close, TypeOK
  <2>2. (SetupsCounted /\ DrainFlagged /\ SetupsBehind)'
    BY <1>6 DEF Close, TypeOK, SetupsCounted, DrainFlagged, SetupsBehind
  <2>3. (ListenerKnown /\ EveryoneIsTold /\ NothingAfterClose)'
    BY <1>6 DEF Close, TypeOK, ListenerKnown, EveryoneIsTold, NothingAfterClose
  <2> QED
    BY <2>1, <2>2, <2>3
<1>7. CASE cutTransports
  <2>1. TypeOK'
    BY <1>7 DEF cutTransports, TypeOK
  <2>2. (SetupsCounted /\ DrainFlagged /\ SetupsBehind)'
    BY <1>7 DEF cutTransports, TypeOK, SetupsCounted, DrainFlagged, SetupsBehind
  <2>3. (ListenerKnown /\ EveryoneIsTold /\ NothingAfterClose)'
    BY <1>7 DEF cutTransports, TypeOK, ListenerKnown, EveryoneIsTold, NothingAfterClose
  <2> QED
    BY <2>1, <2>2, <2>3
<1>8. CASE CloseReturns
  <2>1. TypeOK'
    BY <1>8 DEF CloseReturns, TypeOK
  <2>2. (SetupsCounted /\ DrainFlagged /\ SetupsBehind)'
    BY <1>8 DEF CloseReturns, TypeOK, SetupsCounted, DrainFlagged, SetupsBehind
  <2>3. (ListenerKnown /\ EveryoneIsTold /\ NothingAfterClose)'
    BY <1>8 DEF CloseReturns, TypeOK, ListenerKnown, EveryoneIsTold, NothingAfterClose
  <2> QED
    BY <2>1, <2>2, <2>3
<1> QED
  BY <1>1, <1>2, <1>3, <1>4, <1>5, <1>6, <1>7, <1>8 DEF Stop

\* What Serve does keeps the invariant.
LEMMA ServeKeeps == ASSUME DrainInv, Serve \/ AcceptFails PROVE DrainInv'
<1> USE DEF DrainInv, closed, drain, people
<1>1. CASE Serve
  <2>1. TypeOK'
    BY <1>1 DEF Serve, TypeOK
  <2>2. (SetupsCounted /\ DrainFlagged /\ SetupsBehind)'
    BY <1>1 DEF Serve, TypeOK, SetupsCounted, DrainFlagged, SetupsBehind
  <2>3. (ListenerKnown /\ EveryoneIsTold /\ NothingAfterClose)'
    BY <1>1 DEF Serve, TypeOK, ListenerKnown, EveryoneIsTold, NothingAfterClose
  <2> QED
    BY <2>1, <2>2, <2>3
<1>2. CASE AcceptFails
  <2>1. TypeOK'
    BY <1>2 DEF AcceptFails, TypeOK
  <2>2. (SetupsCounted /\ DrainFlagged /\ SetupsBehind)'
    BY <1>2 DEF AcceptFails, TypeOK, SetupsCounted, DrainFlagged, SetupsBehind
  <2>3. (ListenerKnown /\ EveryoneIsTold /\ NothingAfterClose)'
    BY <1>2 DEF AcceptFails, TypeOK, ListenerKnown, EveryoneIsTold, NothingAfterClose
  <2> QED
    BY <2>1, <2>2, <2>3
<1> QED
  BY <1>1, <1>2

\* The invariant is inductive.
LEMMA DrainNext == DrainInv /\ [Next]_vars => DrainInv'
<1> SUFFICES ASSUME DrainInv, [Next]_vars PROVE DrainInv'
  OBVIOUS
<1>1. CASE UNCHANGED vars
  BY <1>1 DEF vars, listener, drain, people, DrainInv, TypeOK, SetupsCounted, DrainFlagged,
       SetupsBehind, ListenerKnown, EveryoneIsTold, NothingAfterClose
<1>2. CASE Next
  BY <1>2, HandlerKeeps, StopKeeps, ServeKeeps DEF Next
<1> QED
  BY <1>1, <1>2

\* Setups are counted from flag check to registration, and the rest of what
\* the stop relies on, in every reachable state.
THEOREM DrainInvariant == Spec => []DrainInv
  BY DrainInit, DrainNext, PTL DEF Spec

\* A drain that reports everybody gone has overlooked no session and no setup
\* (setupMu and setupWG in drain.go), however many connections there are.
THEOREM NobodyMissed == Spec => []DrainMissesNobody
<1>1. DrainInv => DrainMissesNobody
  BY DEF DrainInv, SetupsCounted, SetupsBehind, DrainMissesNobody
<1> QED
  BY <1>1, DrainInvariant, PTL

\* Every registered session is told of the stop (watchDrain and Drain under
\* noticeMu).
THEOREM AllTold == Spec => []EveryoneIsTold
<1>1. DrainInv => EveryoneIsTold
  BY DEF DrainInv
<1> QED
  BY <1>1, DrainInvariant, PTL

\* After Close no handler is at work and no session is listed (handleConn and
\* Close under g.mu).
THEOREM CloseIsFinal == Spec => []NothingAfterClose
<1>1. DrainInv => NothingAfterClose
  BY DEF DrainInv
<1> QED
  BY <1>1, DrainInvariant, PTL

\* After Close no Accept waits on an open listener (Serve and Close under
\* g.mu).
THEOREM AcceptIsOver == Spec => []NoAcceptAfterClose
<1>1. DrainInv => NoAcceptAfterClose
  BY DEF DrainInv, ListenerKnown, NoAcceptAfterClose, TypeOK
<1> QED
  BY <1>1, DrainInvariant, PTL

\* Nothing of the gateway is left once Close has returned, whichever of Serve,
\* Drain and a new connection it met.
THEOREM CloseEndsAll == Spec => []CloseIsTheEnd
  BY CloseIsFinal, AcceptIsOver, PTL DEF CloseIsTheEnd

=============================================================================
