------------------------------ MODULE DataLemmas ------------------------------
(***************************************************************************)
(* Facts about numbers and sequences that the proofs of several components  *)
(* need: least numbers, pushes and pops element by element, and the list    *)
(* operations of Lists.                                                     *)
(***************************************************************************)
EXTENDS Lists, FiniteSetsExt, SequenceTheorems, WellFoundedInduction, TLAPS

-----------------------------------------------------------------------------
(* Numbers. *)

\* A set of natural numbers has a least element.
LEMMA LeastNumber ==
  ASSUME NEW T, T \subseteq Nat, T # {}
  PROVE  \E m \in T : \A n \in T : m <= n
<1>1. PICK R : R = OpToRel(<, Nat)
  OBVIOUS
<1>2. R = {ss \in Nat \X Nat : ss[1] < ss[2]}
  BY <1>1 DEF OpToRel
<1>3. IsWellFoundedOn(R, Nat)
  BY <1>1, NatLessThanWellFounded
<1>4. PICK m \in T : \A n \in T : ~ (<<n, m>> \in R)
  BY <1>3, WFMin
<1>5. ASSUME NEW n \in T
      PROVE  m <= n
  <2>1. m \in Nat /\ n \in Nat
    OBVIOUS
  <2>2. <<n, m>> \in Nat \X Nat /\ <<n, m>>[1] = n /\ <<n, m>>[2] = m
    BY <2>1
  <2>3. ~(n < m)
    BY <1>2, <1>4, <2>2
  <2> QED BY <2>1, <2>3
<1> QED BY <1>5

\* And one that is bounded has a greatest.
LEMMA GreatestNumber ==
  ASSUME NEW n \in Nat, NEW T, T \subseteq 1..n, T # {}
  PROVE  \E m \in T : \A i \in T : i <= m
<1> DEFINE U == {n - i : i \in T}
<1>0. \A i \in T : i \in Nat /\ i <= n
  OBVIOUS
<1>1. U \subseteq Nat /\ U # {}
  <2>1. \A i \in T : n - i \in Nat
    BY <1>0
  <2> QED BY <2>1
<1>2. PICK d \in U : \A u \in U : d <= u
  BY <1>1, LeastNumber
<1>3. PICK m \in T : d = n - m
  OBVIOUS
<1>4. ASSUME NEW i \in T
      PROVE  i <= m
  <2>1. d <= n - i
    BY <1>2
  <2>2. i \in Nat /\ m \in Nat
    BY <1>0
  <2> HIDE DEF U
  <2> QED BY <1>3, <2>1, <2>2
<1> QED BY <1>4

\* Min is the least element.
LEMMA MinIsLeast ==
  ASSUME NEW T, T \subseteq Nat, T # {}
  PROVE  /\ Min(T) \in T /\ \A n \in T : Min(T) <= n
         /\ \A m \in T : (\A n \in T : m <= n) => Min(T) = m
<1>1. PICK m \in T : \A n \in T : m <= n
  BY LeastNumber
<1>2. Min(T) \in T /\ \A n \in T : Min(T) <= n
  BY <1>1, Zenon DEF Min
<1>3. ASSUME NEW k \in T, \A n \in T : k <= n
      PROVE  Min(T) = k
  <2>1. PICK x \in Nat : x = Min(T)
    BY <1>2
  <2>2. k \in Nat /\ x <= k /\ k <= x
    BY <1>2, <1>3, <2>1
  <2> QED BY <2>1, <2>2
<1> QED BY <1>2, <1>3

-----------------------------------------------------------------------------
(* Sequences: a push and a pop. *)

\* Element by element, what Append does.
LEMMA AppendElements ==
  ASSUME NEW S, NEW s \in Seq(S), NEW x \in S
  PROVE  /\ Append(s, x) \in Seq(S)
         /\ Len(s) \in Nat /\ Len(Append(s, x)) = Len(s) + 1
         /\ DOMAIN Append(s, x) = 1..(Len(s) + 1)
         /\ \A i \in 1..Len(s) : Append(s, x)[i] = s[i] /\ s[i] \in S
         /\ Append(s, x)[Len(s) + 1] = x
BY AppendProperties, LenProperties, ElementOfSeq

\* Element by element, what Head and Tail do.
LEMMA TailElements ==
  ASSUME NEW S, NEW s \in Seq(S), s # <<>>
  PROVE  /\ Head(s) \in S /\ Head(s) = s[1] /\ Len(s) \in Nat \ {0}
         /\ Tail(s) \in Seq(S) /\ Len(Tail(s)) = Len(s) - 1
         /\ \A i \in 1..(Len(s) - 1) : Tail(s)[i] = s[i + 1]
         /\ \A i \in 1..Len(s) : s[i] \in S
BY HeadTailProperties, LenProperties, ElementOfSeq, EmptySeq

-----------------------------------------------------------------------------
(* Keeping some elements of a list. *)

\* What Retained builds up, as a function of how far it has come.
IsKeeping(kept, s, I, m) ==
  kept = [n \in 0..m |->
            IF n = 0 THEN <<>>
            ELSE IF n \in I THEN Append(kept[n - 1], s[n]) ELSE kept[n - 1]]

\* The definition of Retained has a solution up to every length.
LEMMA KeepingExists ==
  ASSUME NEW s, NEW I, NEW k \in Nat
  PROVE  \E kept : IsKeeping(kept, s, I, k)
<1> DEFINE T == {m \in Nat : ~ \E kept : IsKeeping(kept, s, I, m)}
<1>1. SUFFICES ASSUME T # {}
               PROVE  FALSE
  OBVIOUS
<1>2. PICK m \in T : \A n \in T : m <= n
  BY <1>1, LeastNumber
<1>3. m \in Nat /\ ~ \E kept : IsKeeping(kept, s, I, m)
  OBVIOUS
<1>4. CASE m = 0
  <2> DEFINE g == [n \in 0..0 |-> <<>>]
  <2>1. \A n \in 0..0 : n = 0
    OBVIOUS
  <2>2. IsKeeping(g, s, I, 0)
    BY <2>1 DEF IsKeeping
  <2> QED BY <1>3, <1>4, <2>2
<1>5. CASE m # 0
  <2>1. m - 1 \in Nat /\ m - 1 \notin T
    BY <1>2, <1>3, <1>5
  <2>2. PICK g : IsKeeping(g, s, I, m - 1)
    BY <2>1
  <2> DEFINE h == [n \in 0..m |->
                     IF n = m THEN IF m \in I THEN Append(g[m - 1], s[m]) ELSE g[m - 1]
                     ELSE g[n]]
  <2>3. \A n \in 0..(m - 1) :
          g[n] = IF n = 0 THEN <<>>
                 ELSE IF n \in I THEN Append(g[n - 1], s[n]) ELSE g[n - 1]
    BY <2>2 DEF IsKeeping
  <2>4. ASSUME NEW n \in 0..m
        PROVE  h[n] = IF n = 0 THEN <<>>
                      ELSE IF n \in I THEN Append(h[n - 1], s[n]) ELSE h[n - 1]
    <3>1. CASE n = m
      <4>1. m - 1 \in 0..m /\ m - 1 # m
        BY <1>3, <2>1
      <4>2. h[m - 1] = g[m - 1]
        BY <4>1
      <4> QED BY <1>3, <1>5, <3>1, <4>2
    <3>2. CASE n # m
      <4>1. n \in 0..(m - 1) /\ h[n] = g[n]
        BY <1>3, <3>2
      <4>2. CASE n = 0
        BY <2>3, <4>1, <4>2
      <4>3. CASE n # 0
        <5>1. n - 1 \in 0..m /\ n - 1 # m
          BY <1>3, <4>1, <4>3
        <5>2. h[n - 1] = g[n - 1]
          BY <5>1
        <5> QED BY <2>3, <4>1, <4>3, <5>2
      <4> QED BY <4>2, <4>3
    <3> QED BY <3>1, <3>2
  <2>5. h = [n \in 0..m |->
               IF n = 0 THEN <<>>
               ELSE IF n \in I THEN Append(h[n - 1], s[n]) ELSE h[n - 1]]
    <3>1. PICK f : f = h
      OBVIOUS
    <3>2. f = [n \in 0..m |-> f[n]]
      BY <3>1
    <3>3. \A n \in 0..m :
            f[n] = IF n = 0 THEN <<>>
                   ELSE IF n \in I THEN Append(f[n - 1], s[n]) ELSE f[n - 1]
      BY <2>4, <3>1
    <3> HIDE DEF h
    <3>4. f = [n \in 0..m |->
               IF n = 0 THEN <<>>
               ELSE IF n \in I THEN Append(f[n - 1], s[n]) ELSE f[n - 1]]
      BY <3>2, <3>3
    <3> QED BY <3>1, <3>4
  <2> QED BY <1>3, <2>5 DEF IsKeeping
<1> QED BY <1>4, <1>5

LEMMA RetainedUnfolds ==
  ASSUME NEW s, NEW I, Len(s) \in Nat
  PROVE  \E kept : IsKeeping(kept, s, I, Len(s)) /\ Retained(s, I) = kept[Len(s)]
<1> DEFINE kept == CHOOSE g : IsKeeping(g, s, I, Len(s))
<1>1. IsKeeping(kept, s, I, Len(s))
  BY KeepingExists
<1>2. Retained(s, I) = kept[Len(s)]
  BY DEF Retained, IsKeeping
<1> QED BY <1>1, <1>2

\* t is the list of the elements of the first n of s whose positions are in I:
\* f takes the positions of t to those of s.
Keeps(t, s, I, n, f) ==
  /\ f \in [1..Len(t) -> I \cap (1..n)]
  /\ \A i, j \in 1..Len(t) : i < j => f[i] < f[j]
  /\ \A i \in 1..Len(t) : t[i] = s[f[i]]
  /\ \A j \in I \cap (1..n) : \E i \in 1..Len(t) : f[i] = j

\* One more position is looked at and its element is kept.
LEMMA KeepOne ==
  ASSUME NEW S, NEW t \in Seq(S), NEW s, NEW I, NEW n \in Nat, NEW f, NEW x \in S,
         Keeps(t, s, I, n, f), n + 1 \in I, x = s[n + 1]
  PROVE  \E g : Keeps(Append(t, x), s, I, n + 1, g)
<1>1. PICK k \in Nat : k = Len(t)
  BY LenProperties
<1>2. PICK u : u = Append(t, x)
  OBVIOUS
<1>3. Len(u) = k + 1 /\ u[k + 1] = x /\ \A i \in 1..k : u[i] = t[i]
  BY <1>1, <1>2, AppendElements
<1>4. /\ f \in [1..k -> I \cap (1..n)]
      /\ \A i, j \in 1..k : i < j => f[i] < f[j]
      /\ \A i \in 1..k : t[i] = s[f[i]]
      /\ \A j \in I \cap (1..n) : \E i \in 1..k : f[i] = j
  BY <1>1 DEF Keeps
<1> DEFINE g == [i \in 1..(k + 1) |-> IF i = k + 1 THEN n + 1 ELSE f[i]]
<1>5. g[k + 1] = n + 1 /\ \A i \in 1..k : g[i] = f[i] /\ f[i] \in I /\ f[i] \in 1..n
  <2>1. g[k + 1] = n + 1
    OBVIOUS
  <2>2. \A i \in 1..k : i \in 1..(k + 1) /\ i # k + 1
    OBVIOUS
  <2>3. \A i \in 1..k : g[i] = f[i]
    BY <2>2
  <2>4. \A i \in 1..k : f[i] \in I \cap (1..n)
    BY <1>4
  <2> QED BY <2>1, <2>3, <2>4
<1> HIDE DEF g
<1>6. \A i \in 1..(k + 1) : i \in 1..k \/ i = k + 1
  OBVIOUS
<1>7. g \in [1..(k + 1) -> I \cap (1..(n + 1))]
  <2>1. \A i \in 1..k : g[i] \in I /\ g[i] \in 1..(n + 1)
    BY <1>5
  <2>2. g[k + 1] \in I /\ g[k + 1] \in 1..(n + 1)
    BY <1>5
  <2>3. \A i \in 1..(k + 1) : g[i] \in I \cap (1..(n + 1))
    BY <1>6, <2>1, <2>2
  <2>4. PICK h : h = g /\ h = [i \in 1..(k + 1) |-> h[i]]
    BY <1>5 DEF g
  <2> QED BY <2>3, <2>4
<1>8. ASSUME NEW i \in 1..(k + 1), NEW j \in 1..(k + 1), i < j
      PROVE  g[i] < g[j]
  <2>1. i \in 1..k
    BY <1>8
  <2>2. CASE j = k + 1
    BY <1>5, <2>1, <2>2
  <2>3. CASE j \in 1..k
    BY <1>4, <1>5, <1>8, <2>1, <2>3
  <2> QED BY <1>6, <2>2, <2>3
<1>9. \A i \in 1..(k + 1) : u[i] = s[g[i]]
  <2>1. \A i \in 1..k : u[i] = s[g[i]]
    BY <1>3, <1>4, <1>5
  <2>2. u[k + 1] = s[g[k + 1]]
    BY <1>3, <1>5
  <2> QED BY <1>6, <2>1, <2>2
<1>10. ASSUME NEW j \in I \cap (1..(n + 1))
       PROVE  \E i \in 1..(k + 1) : g[i] = j
  <2>1. CASE j = n + 1
    BY <1>5, <2>1
  <2>2. CASE j # n + 1
    <3>1. j \in I \cap (1..n)
      BY <2>2
    <3>2. PICK i \in 1..k : f[i] = j
      BY <1>4, <3>1
    <3> QED BY <1>5, <3>2
  <2> QED BY <2>1, <2>2
<1>11. Keeps(u, s, I, n + 1, g)
  BY <1>3, <1>7, <1>8, <1>9, <1>10 DEF Keeps
<1> QED BY <1>2, <1>11

\* One more position is looked at and its element is left out.
LEMMA SkipOne ==
  ASSUME NEW t, NEW s, NEW I, NEW n \in Nat, NEW f,
         Keeps(t, s, I, n, f), n + 1 \notin I
  PROVE  Keeps(t, s, I, n + 1, f)
<1>1. I \cap (1..(n + 1)) = I \cap (1..n)
  <2>1. \A j \in 1..(n + 1) : j \in 1..n \/ j = n + 1
    OBVIOUS
  <2> QED BY <2>1
<1> QED BY <1>1 DEF Keeps

\* Retained keeps what is at the positions in I, in order and nothing else, and
\* is shorter than the list if it leaves anything out.
LEMMA RetainedElements ==
  ASSUME NEW S, NEW s \in Seq(S), NEW I
  PROVE  /\ Retained(s, I) \in Seq(S)
         /\ Len(Retained(s, I)) \in Nat /\ Len(Retained(s, I)) <= Len(s)
         /\ \A m \in 1..Len(s) : m \notin I => Len(Retained(s, I)) < Len(s)
         /\ \E f : Keeps(Retained(s, I), s, I, Len(s), f)
<1>1. PICK k \in Nat : k = Len(s)
  BY LenProperties
<1>2. PICK kept : IsKeeping(kept, s, I, k) /\ Retained(s, I) = kept[k]
  BY <1>1, RetainedUnfolds
<1>3. kept[0] = <<>>
  BY <1>1, <1>2 DEF IsKeeping
<1>4. \A n \in 0..(k - 1) :
        kept[n + 1] = IF n + 1 \in I THEN Append(kept[n], s[n + 1]) ELSE kept[n]
  <2>1. \A n \in 0..(k - 1) : n + 1 \in 0..k /\ n + 1 # 0 /\ n + 1 - 1 = n
    BY <1>1
  <2>2. \A m \in 0..k :
          kept[m] = IF m = 0 THEN <<>>
                    ELSE IF m \in I THEN Append(kept[m - 1], s[m]) ELSE kept[m - 1]
    BY <1>2 DEF IsKeeping
  <2>3. ASSUME NEW n \in 0..(k - 1)
        PROVE  kept[n + 1] = IF n + 1 \in I THEN Append(kept[n], s[n + 1]) ELSE kept[n]
    <3>1. PICK m \in 0..k : m = n + 1 /\ m # 0 /\ m - 1 = n
      BY <2>1
    <3> QED BY <2>2, <3>1
  <2> QED BY <2>3
<1>5. \A n \in 1..k : s[n] \in S
  BY <1>1, ElementOfSeq
<1> DEFINE P(n) == /\ kept[n] \in Seq(S) /\ Len(kept[n]) <= n
                   /\ \A m \in 1..n : m \notin I => Len(kept[n]) < n
                   /\ \E f : Keeps(kept[n], s, I, n, f)
<1>6. P(0)
  <2>1. kept[0] = <<>> /\ Len(kept[0]) = 0 /\ kept[0] \in Seq(S)
    BY <1>3, EmptySeq
  <2>2. Keeps(kept[0], s, I, 0, [i \in 1..0 |-> 1])
    BY <2>1 DEF Keeps
  <2> QED BY <2>1, <2>2
<1>7. ASSUME NEW n \in 0..(k - 1), P(n)
      PROVE  P(n + 1)
  <2>1. n \in Nat /\ n + 1 \in 1..k /\ Len(kept[n]) \in Nat
    BY <1>1, <1>7, LenProperties
  <2>2. PICK f : Keeps(kept[n], s, I, n, f)
    BY <1>7
  <2>3. CASE n + 1 \in I
    <3>1. PICK x \in S : x = s[n + 1]
      BY <1>5, <2>1
    <3>2. kept[n + 1] = Append(kept[n], x)
      BY <1>4, <2>3, <3>1
    <3>3. kept[n + 1] \in Seq(S) /\ Len(kept[n + 1]) = Len(kept[n]) + 1
      BY <1>7, <3>2, AppendElements
    <3>4. \E g : Keeps(kept[n + 1], s, I, n + 1, g)
      <4>1. PICK t \in Seq(S) : t = kept[n]
        BY <1>7
      <4>2. \E g : Keeps(Append(t, x), s, I, n + 1, g)
        BY <2>1, <2>2, <2>3, <3>1, <4>1, KeepOne
      <4> QED BY <3>2, <4>1, <4>2
    <3>5. \A m \in 1..(n + 1) : m \notin I => m \in 1..n
      BY <2>1, <2>3
    <3> QED BY <1>7, <2>1, <3>3, <3>4, <3>5
  <2>4. CASE n + 1 \notin I
    <3>1. kept[n + 1] = kept[n]
      BY <1>4, <2>4
    <3>2. Keeps(kept[n + 1], s, I, n + 1, f)
      BY <2>1, <2>2, <2>4, <3>1, SkipOne
    <3> QED BY <1>7, <2>1, <3>1, <3>2
  <2> QED BY <2>3, <2>4
<1> HIDE DEF P
<1>8. P(k)
  <2> DEFINE T == {n \in 0..k : ~P(n)}
  <2>1. SUFFICES ASSUME T # {}
                 PROVE  FALSE
    BY <1>1
  <2>2. T \subseteq Nat
    BY <1>1
  <2>3. PICK m \in T : \A n \in T : m <= n
    BY <2>1, <2>2, LeastNumber
  <2>4. m \in 0..k /\ ~P(m) /\ m # 0
    BY <1>6
  <2>5. m - 1 \in 0..(k - 1) /\ m - 1 \in 0..k /\ m - 1 + 1 = m /\ ~(m <= m - 1)
    BY <1>1, <2>4
  <2>6. P(m - 1)
    BY <2>3, <2>5
  <2> QED BY <1>7, <2>4, <2>5, <2>6
<1>9. Len(kept[k]) \in Nat
  BY <1>8, LenProperties DEF P
<1> QED BY <1>1, <1>2, <1>8, <1>9 DEF P
=============================================================================
