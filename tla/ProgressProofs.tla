--------------------------- MODULE ProgressProofs ---------------------------
(***************************************************************************)
(* Theorems about Progress: for any answers, rubric, badges and budgets, any *)
(* number of requests, and requests cut short at any of their calls.        *)
(*                                                                          *)
(* First what the rubric's and the XP's operators come to for any rows;     *)
(* then three invariants, each preserved by every step: of the streak and   *)
(* the date, of the XP, and of the rubric that is stored.                   *)
(***************************************************************************)
EXTENDS Progress, FiniteSetTheorems, SequenceTheorems, WellFoundedInduction, TLAPS

----------------------------------------------------------------------------
(* Induction and recursion                                                  *)

\* Induction, as the absence of a least counterexample.
LEMMA Induction ==
  ASSUME NEW G, 0 \in G, \A n \in Nat : n \in G => n + 1 \in G
  PROVE  \A n \in Nat : n \in G
PROOF
<1> SUFFICES ASSUME NEW x \in Nat, x \notin G PROVE FALSE
  OBVIOUS
<1> DEFINE Rest == {n \in Nat : n \notin G}
<1>1. PICK n \in Rest : \A m \in Rest : ~ (<<m, n>> \in OpToRel(<, Nat))
  <2>1. Rest # {} /\ Rest \subseteq Nat
    OBVIOUS
  <2> HIDE DEF Rest
  <2>. QED BY <2>1, NatLessThanWellFounded, WFMin
<1>2. n \in Nat /\ n # 0 /\ n - 1 \in Nat /\ n - 1 < n
  OBVIOUS
<1>3. n - 1 \notin Rest
  BY <1>1, <1>2 DEF OpToRel
<1>. QED BY <1>2, <1>3

\* Induction over sequences that grow at their end.
LEMMA RowsInduction ==
  ASSUME NEW S, NEW G, <<>> \in G,
         \A t \in Seq(S), c \in S : t \in G => Append(t, c) \in G
  PROVE  \A t \in Seq(S) : t \in G
PROOF
<1> DEFINE H == {n \in Nat : \A t \in Seq(S) : Len(t) = n => t \in G}
<1>1. 0 \in H
  BY EmptySeq
<1>2. ASSUME NEW n \in Nat, n \in H PROVE n + 1 \in H
  <2> SUFFICES ASSUME NEW t \in Seq(S), Len(t) = n + 1 PROVE t \in G
    OBVIOUS
  <2>1. t # <<>>
    OBVIOUS
  <2>2. PICK s \in Seq(S), c \in S : t = Append(s, c)
    BY <2>1, SequenceEmptyOrAppend
  <2>3. Len(s) = n
    BY <2>2, AppendProperties, LenProperties
  <2>. QED BY <1>2, <2>2, <2>3
<1> HIDE DEF H
<1>3. \A n \in Nat : n \in H
  BY <1>1, <1>2, Induction
<1> USE DEF H
<1>. QED BY <1>3, LenProperties

\* f[0], ..., f[n] are the values of S that step goes through from a on.
Iterates(f, n, S, a, step) ==
  /\ f \in [0..n -> S]
  /\ f[0] = a
  /\ \A i \in 1..n : f[i] = step[<<i, f[i - 1]>>]

\* A function of the naturals that starts from a and takes a step each time exists.
LEMMA Recursion ==
  ASSUME NEW S, NEW a \in S, NEW step \in [Nat \X S -> S], NEW n \in Nat
  PROVE  \E f : Iterates(f, n, S, a, step)
PROOF
<1> DEFINE Good(k) == \E f \in [0..k -> S] :
                        f[0] = a /\ \A i \in 1..k : f[i] = step[<<i, f[i - 1]>>]
           G == {k \in Nat : Good(k)}
<1>1. 0 \in G
  <2> DEFINE g == [i \in 0..0 |-> a]
  <2>1. g \in [0..0 -> S] /\ g[0] = a /\ 1..0 = {}
    OBVIOUS
  <2>2. Good(0)
    <3> HIDE DEF g
    <3>. QED BY <2>1
  <2>. QED BY <2>2
<1>2. ASSUME NEW k \in Nat, k \in G PROVE k + 1 \in G
  <2>1. PICK f \in [0..k -> S] : f[0] = a /\ \A i \in 1..k : f[i] = step[<<i, f[i - 1]>>]
    BY <1>2
  <2> DEFINE g == [i \in 0..(k + 1) |-> IF i = k + 1 THEN step[<<k + 1, f[k]>>] ELSE f[i]]
  <2>2. g \in [0..(k + 1) -> S]
    BY <2>1
  <2>3. g[0] = a
    BY <2>1
  <2>4. \A i \in 1..(k + 1) : g[i] = step[<<i, g[i - 1]>>]
    <3> TAKE i \in 1..(k + 1)
    <3>1. CASE i = k + 1
      <4>1. i - 1 = k /\ k # k + 1 /\ k \in 0..(k + 1) /\ k + 1 \in 0..(k + 1)
        BY <3>1
      <4>2. g[k] = f[k] /\ g[k + 1] = step[<<k + 1, f[k]>>]
        BY <4>1
      <4>. QED BY <3>1, <4>1, <4>2
    <3>2. CASE i # k + 1
      <4>1. i \in 1..k /\ i - 1 \in 0..k /\ i \in 0..k
        BY <3>2
      <4>2. g[i] = f[i] /\ g[i - 1] = f[i - 1]
        BY <3>2, <4>1
      <4>. QED BY <2>1, <4>1, <4>2
    <3>. QED BY <3>1, <3>2
  <2>5. Good(k + 1)
    <3> HIDE DEF g
    <3>. QED BY <2>2, <2>3, <2>4
  <2>. QED BY <2>5
<1> HIDE DEF G
<1>3. n \in G
  BY <1>1, <1>2, Induction
<1>. QED BY <1>3 DEF G, Iterates

----------------------------------------------------------------------------
(* The rows that are kept                                                   *)

\* f[n] is what filter keeps of the first n rows of s.
Keeps(f, s, wanted, S) ==
  /\ f \in [0..Len(s) -> Seq(S)]
  /\ f[0] = <<>>
  /\ \A i \in 1..Len(s) :
       f[i] = IF s[i] \in wanted THEN Append(f[i - 1], s[i]) ELSE f[i - 1]

\* There is such an f, and filter is its last value.
LEMMA KeepsExists ==
  ASSUME NEW S, NEW wanted, NEW s \in Seq(S)
  PROVE  \E f : Keeps(f, s, wanted, S)
PROOF
<1> DEFINE A == Seq(S)
           n == Len(s)
           e == CHOOSE x : x \in A
           next(i, t) == IF i \in 1..n
                         THEN IF s[i] \in wanted THEN Append(t, s[i]) ELSE t ELSE e
           step == [p \in Nat \X A |-> next(p[1], p[2])]
<1>1. n \in Nat /\ \A i \in 1..n : s[i] \in S
  BY ElementOfSeq, LenProperties
<1>2. <<>> \in A
  OBVIOUS
<1>3. e \in A
  <2> HIDE DEF A
  <2>. QED BY <1>2
<1>4. \A i \in Nat, t \in A : next(i, t) \in A
  <2> SUFFICES ASSUME NEW i \in Nat, NEW t \in A PROVE next(i, t) \in A
    OBVIOUS
  <2>1. i \in 1..n => Append(t, s[i]) \in A
    BY <1>1, AppendProperties
  <2> HIDE DEF A, e, n
  <2>. QED BY <1>3, <2>1
<1> HIDE DEF A, n, next
<1>5. step \in [Nat \X A -> A]
  BY <1>4
<1>6. \A i \in Nat, t \in A : step[<<i, t>>] = next(i, t)
  OBVIOUS
<1> HIDE DEF step
<1>7. PICK f : Iterates(f, n, A, <<>>, step)
  BY <1>1, <1>2, <1>5, Recursion
<1>8. f \in [0..n -> A] /\ f[0] = <<>> /\ \A i \in 1..n : f[i] = step[<<i, f[i - 1]>>]
  BY <1>7 DEF Iterates
<1>9. ASSUME NEW i \in 1..n
      PROVE  f[i] = IF s[i] \in wanted THEN Append(f[i - 1], s[i]) ELSE f[i - 1]
  <2>1. i \in Nat /\ i - 1 \in 0..n
    BY <1>1
  <2>2. f[i - 1] \in A
    BY <1>8, <2>1
  <2>3. f[i] = next(i, f[i - 1])
    BY <1>6, <1>8, <2>1, <2>2
  <2>. QED BY <2>3 DEF next
<1>. QED BY <1>8, <1>9 DEF Keeps, A, n

\* ... and filter is its last value.
LEMMA FilterIs ==
  ASSUME NEW S, NEW wanted, NEW s \in Seq(S)
  PROVE  \E f : Keeps(f, s, wanted, S) /\ filter(s, wanted) = f[Len(s)]
PROOF
<1> DEFINE n == Len(s)
           Is(x) == x = [i \in 0..n |->
                          IF i = 0 THEN <<>>
                          ELSE IF s[i] \in wanted THEN Append(x[i - 1], s[i]) ELSE x[i - 1]]
           c == CHOOSE x : Is(x)
<1>1. PICK f : Keeps(f, s, wanted, S)
  BY KeepsExists
<1>2. n \in Nat
  BY LenProperties
<1>3. Is(f)
  <2>1. ASSUME NEW i \in 0..n
        PROVE  f[i] = IF i = 0 THEN <<>>
                      ELSE IF s[i] \in wanted THEN Append(f[i - 1], s[i]) ELSE f[i - 1]
    <3>1. i # 0 => i \in 1..n
      BY <1>2
    <3>. QED BY <1>1, <3>1 DEF Keeps
  <2>2. f = [i \in 0..n |-> f[i]]
    BY <1>1 DEF Keeps
  <2>. QED BY <2>1, <2>2
<1>4. Is(c)
  <2> SUFFICES \E x : Is(x)
    BY Zenon
  <2>. QED BY <1>3
<1>5. filter(s, wanted) = c[n]
  BY DEF filter
<1> HIDE DEF c
<1> DEFINE G == {k \in Nat : k <= n => c[k] = f[k]}
<1>6. 0 \in G
  BY <1>1, <1>2, <1>4 DEF Keeps
<1>7. ASSUME NEW k \in Nat, k \in G PROVE k + 1 \in G
  <2> SUFFICES ASSUME k + 1 <= n PROVE c[k + 1] = f[k + 1]
    OBVIOUS
  <2>1. k + 1 \in 0..n /\ k + 1 \in 1..n /\ k + 1 # 0 /\ (k + 1) - 1 = k /\ k <= n
    BY <1>2
  <2>2. c[k + 1] = IF s[k + 1] \in wanted THEN Append(c[k], s[k + 1]) ELSE c[k]
    BY <1>4, <2>1
  <2>3. f[k + 1] = IF s[k + 1] \in wanted THEN Append(f[k], s[k + 1]) ELSE f[k]
    BY <1>1, <2>1 DEF Keeps
  <2>. QED BY <1>7, <2>1, <2>2, <2>3
<1> HIDE DEF G
<1>8. \A k \in Nat : k \in G
  BY <1>6, <1>7, Induction
<1>9. c[n] = f[n]
  BY <1>2, <1>8 DEF G
<1>. QED BY <1>1, <1>5, <1>9

\* filter takes one row after the other.
LEMMA FilterEmpty ==
  ASSUME NEW wanted
  PROVE  filter(<<>>, wanted) = <<>>
PROOF
<1>1. <<>> \in Seq({1}) /\ Len(<<>>) = 0
  OBVIOUS
<1>2. PICK f : Keeps(f, <<>>, wanted, {1}) /\ filter(<<>>, wanted) = f[Len(<<>>)]
  BY <1>1, FilterIs
<1>. QED BY <1>1, <1>2 DEF Keeps

\* A row is kept, behind those kept before it, if it is wanted.
LEMMA FilterAppend ==
  ASSUME NEW S, NEW wanted, NEW s \in Seq(S), NEW x \in S
  PROVE  /\ filter(s, wanted) \in Seq(S)
         /\ filter(Append(s, x), wanted)
              = IF x \in wanted THEN Append(filter(s, wanted), x) ELSE filter(s, wanted)
PROOF
<1> DEFINE t == Append(s, x)
           n == Len(s)
<1>1. /\ t \in Seq(S) /\ Len(t) = n + 1 /\ n \in Nat /\ t[n + 1] = x
      /\ \A i \in 1..n : t[i] = s[i]
  BY AppendProperties, LenProperties
<1> HIDE DEF t
<1>2. PICK f : Keeps(f, s, wanted, S) /\ filter(s, wanted) = f[n]
  BY FilterIs
<1>3. PICK g : Keeps(g, t, wanted, S) /\ filter(t, wanted) = g[Len(t)]
  BY <1>1, FilterIs
<1> HIDE DEF n
<1> DEFINE G == {k \in Nat : k <= n => f[k] = g[k]}
<1>4. 0 \in G
  BY <1>2, <1>3 DEF Keeps
<1>5. ASSUME NEW k \in Nat, k \in G PROVE k + 1 \in G
  <2> SUFFICES ASSUME k + 1 <= n PROVE f[k + 1] = g[k + 1]
    OBVIOUS
  <2>1. k + 1 \in 1..n /\ k + 1 \in 1..(n + 1) /\ (k + 1) - 1 = k /\ k <= n
    BY <1>1
  <2>2. f[k + 1] = IF s[k + 1] \in wanted THEN Append(f[k], s[k + 1]) ELSE f[k]
    BY <1>2, <2>1 DEF Keeps, n
  <2>3. g[k + 1] = IF t[k + 1] \in wanted THEN Append(g[k], t[k + 1]) ELSE g[k]
    BY <1>1, <1>3, <2>1 DEF Keeps
  <2>. QED BY <1>1, <1>5, <2>1, <2>2, <2>3
<1> HIDE DEF G
<1>6. \A k \in Nat : k \in G
  BY <1>4, <1>5, Induction
<1>7. f[n] = g[n]
  BY <1>1, <1>6 DEF G
<1>8. g[n + 1] = IF t[n + 1] \in wanted THEN Append(g[n], t[n + 1]) ELSE g[n]
  <2>1. n + 1 \in 1..Len(t) /\ (n + 1) - 1 = n
    BY <1>1
  <2>. QED BY <1>3, <2>1 DEF Keeps
<1>9. f[n] \in Seq(S)
  <2>1. n \in 0..Len(s)
    BY <1>1 DEF n
  <2>. QED BY <1>2, <2>1 DEF Keeps
<1>. QED BY <1>1, <1>2, <1>3, <1>7, <1>8, <1>9 DEF t, n

----------------------------------------------------------------------------
(* The rubric                                                               *)

\* The rounded share is at least t as the rubric says it without rounding.
LEMMA PercentAtLeast ==
  ASSUME NEW c \in Nat, NEW n \in Nat \ {0}, NEW t \in Nat
  PROVE  percent(c, n) >= t <=> 200 * c >= (2 * t - 1) * n
PROOF
<1> DEFINE a == 200 * c + n
           b == 2 * n
<1>1. a \in Nat /\ b \in Nat \ {0} /\ n # 0
  OBVIOUS
<1>2. percent(c, n) = a \div b
  BY <1>1 DEF percent
<1>3. t * b = 2 * (t * n) /\ (2 * t - 1) * n = 2 * (t * n) - n
  OBVIOUS
<1>4. t * n \in Nat
  OBVIOUS
<1>5. a >= t * b <=> 200 * c >= (2 * t - 1) * n
  BY <1>3, <1>4
<1> HIDE DEF a, b
<1>6. a \div b >= t <=> a >= t * b
  BY <1>1
<1>. QED BY <1>2, <1>5, <1>6

\* A share is a percentage.
LEMMA PercentBound ==
  ASSUME NEW c \in Nat, NEW n \in Nat, c <= n
  PROVE  percent(c, n) \in Nat /\ percent(c, n) <= 100
PROOF
<1>1. CASE n = 0
  BY <1>1 DEF percent
<1>2. CASE n # 0
  <2> DEFINE a == 200 * c + n
             b == 2 * n
  <2>1. a \in Nat /\ b \in Nat \ {0} /\ a < 101 * b
    BY <1>2
  <2>2. percent(c, n) = a \div b
    BY <1>2 DEF percent
  <2> HIDE DEF a, b
  <2>3. a \div b \in Nat /\ a \div b <= 100
    BY <2>1
  <2>. QED BY <2>2, <2>3
<1>. QED BY <1>1, <1>2

\* The last 0 rows of a sequence are none.
LEMMA LastOfNone ==
  ASSUME NEW S, NEW t \in Seq(S)
  PROVE  lastOf(t, 0) = <<>>
PROOF
<1> DEFINE n == Len(t)
           j == IF n > 0 THEN n - 0 + 1 ELSE 1
<1>1. n \in Nat
  BY LenProperties
<1>2. j \in Int /\ n < j
  BY <1>1
<1>3. lastOf(t, 0) = SubSeq(t, j, n)
  BY DEF lastOf
<1> HIDE DEF j, n
<1>. QED BY <1>1, <1>2, <1>3, SubSeqEmpty

\* The last rows of a sequence that grows.
LEMMA LastOfAppend ==
  ASSUME NEW S, NEW t \in Seq(S), NEW k \in Nat, NEW x \in S
  PROVE  /\ lastOf(t, k) \in Seq(S)
         /\ lastOf(Append(t, x), k + 1) = Append(lastOf(t, k), x)
PROOF
<1> DEFINE n == Len(t)
           m == IF n > k THEN n - k + 1 ELSE 1
<1>1. n \in Nat /\ m \in 1..(n + 1) /\ \A i \in 1..n : t[i] \in S
  BY ElementOfSeq, LenProperties
<1>2. lastOf(t, k) = SubSeq(t, m, n)
  BY DEF lastOf
<1>3. \A i \in m..n : t[i] \in S
  BY <1>1
<1>4. lastOf(Append(t, x), k + 1) = Append(lastOf(t, k), x)
  <2> DEFINE u == Append(t, x)
             v == SubSeq(t, m, n)
             w == SubSeq(u, m, n + 1)
  <2>1. /\ u \in Seq(S) /\ Len(u) = n + 1 /\ u[n + 1] = x
        /\ \A i \in 1..n : u[i] = t[i]
    BY AppendProperties
  <2> HIDE DEF u
  <2>2. lastOf(u, k + 1) = w
    <3>1. (IF n + 1 > k + 1 THEN (n + 1) - (k + 1) + 1 ELSE 1) = m
      BY <1>1
    <3> HIDE DEF m, n
    <3>. QED BY <2>1, <3>1 DEF lastOf
  <2> HIDE DEF m, n
  <2>3. /\ v \in Seq(S) /\ Len(v) = IF m <= n THEN n - m + 1 ELSE 0
        /\ \A i \in 1..(n - m + 1) : v[i] = t[m + i - 1]
    BY <1>1, <1>3, SubSeqProperties
  <2>4. \A i \in m..(n + 1) : u[i] \in S
    BY <1>1, <2>1
  <2>5. /\ w \in Seq(S) /\ Len(w) = IF m <= n + 1 THEN (n + 1) - m + 1 ELSE 0
        /\ \A i \in 1..((n + 1) - m + 1) : w[i] = u[m + i - 1]
    BY <1>1, <2>4, SubSeqProperties
  <2> HIDE DEF v, w
  <2> DEFINE l == Len(v)
             y == Append(v, x)
  <2>6. /\ y \in Seq(S) /\ Len(y) = l + 1 /\ y[l + 1] = x /\ \A i \in 1..l : y[i] = v[i]
    BY <2>3, AppendProperties
  <2> HIDE DEF y
  <2>7. l = n + 1 - m /\ Len(w) = l + 1 /\ l \in Nat
    BY <1>1, <2>3, <2>5
  <2>8. \A i \in 1..(l + 1) : w[i] = y[i]
    <3> SUFFICES ASSUME NEW i \in 1..(l + 1) PROVE w[i] = y[i]
      OBVIOUS
    <3>1. w[i] = u[m + i - 1]
      BY <1>1, <2>5, <2>7
    <3>2. CASE i = l + 1
      <4>1. m + i - 1 = n + 1
        BY <1>1, <2>7, <3>2
      <4>. QED BY <2>1, <2>6, <3>1, <3>2, <4>1
    <3>3. CASE i # l + 1
      <4>1. i \in 1..l /\ m + i - 1 \in 1..n /\ i \in 1..(n - m + 1)
        BY <1>1, <2>7, <3>3
      <4>. QED BY <2>1, <2>3, <2>6, <3>1, <4>1
    <3>. QED BY <3>2, <3>3
  <2>9. w = y
    <3>1. w = [i \in 1..(l + 1) |-> w[i]]
      BY <2>5, <2>7, LenProperties
    <3>2. y = [i \in 1..(l + 1) |-> y[i]]
      BY <2>6, LenProperties
    <3> HIDE DEF l
    <3>. QED BY <2>8, <3>1, <3>2
  <2>. QED BY <1>2, <2>2, <2>9 DEF u, y, v
<1>5. lastOf(t, k) \in Seq(S)
  BY <1>1, <1>2, <1>3, SubSeqProperties
<1>. QED BY <1>4, <1>5

\* How many of the rows of t are right.
RightIn(t) == CountIn(t, LAMBDA row : row.correct)

\* A right row more is one right row more.
LEMMA RightInAppend ==
  ASSUME NEW t \in Seq(Answers)
  PROVE  /\ RightIn(t) \in Nat /\ RightIn(t) <= Len(t)
         /\ \A x \in Answers :
              RightIn(Append(t, x)) = IF x.correct THEN RightIn(t) + 1 ELSE RightIn(t)
PROOF
<1> DEFINE n == Len(t)
           R(u) == {i \in DOMAIN u : u[i].correct}
<1>1. n \in Nat /\ DOMAIN t = 1..n
  BY LenProperties
<1>2. IsFiniteSet(R(t)) /\ RightIn(t) = Cardinality(R(t)) /\ RightIn(t) <= n
  <2>1. IsFiniteSet(1..n) /\ Cardinality(1..n) = n
    BY <1>1, FS_Interval
  <2>2. R(t) \in SUBSET (1..n)
    BY <1>1
  <2>3. RightIn(t) = Cardinality(R(t))
    BY DEF RightIn, CountIn
  <2> DEFINE Q == R(t)
  <2> HIDE DEF R
  <2>4. Q \in SUBSET (1..n)
    BY <2>2
  <2> HIDE DEF Q, n
  <2>5. IsFiniteSet(Q) /\ Cardinality(Q) <= Cardinality(1..n)
    BY <2>1, <2>4, FS_Subset
  <2> USE DEF Q
  <2>. QED BY <2>1, <2>3, <2>5
<1>3. RightIn(t) \in Nat
  <2> HIDE DEF R
  <2>. QED BY <1>2, FS_CardinalityType
<1>4. ASSUME NEW x \in Answers
      PROVE  RightIn(Append(t, x)) = IF x.correct THEN RightIn(t) + 1 ELSE RightIn(t)
  <2> DEFINE u == Append(t, x)
  <2>1. /\ u \in Seq(Answers) /\ Len(u) = n + 1 /\ u[n + 1] = x
        /\ \A i \in 1..n : u[i] = t[i]
    BY AppendProperties
  <2>2. DOMAIN u = 1..(n + 1)
    BY <2>1, LenProperties
  <2>3. RightIn(u) = Cardinality(R(u))
    BY DEF RightIn, CountIn
  <2> HIDE DEF u
  <2>4. R(u) = IF x.correct THEN R(t) \cup {n + 1} ELSE R(t)
    BY <1>1, <2>1, <2>2
  <2>5. n + 1 \notin R(t)
    BY <1>1
  <2> HIDE DEF R
  <2>6. Cardinality(R(t) \cup {n + 1}) = Cardinality(R(t)) + 1
    BY <1>2, <2>5, FS_AddElement
  <2>. QED BY <1>2, <2>3, <2>4, <2>6 DEF u
<1>. QED BY <1>2, <1>3, <1>4

FirstOf(s) == {i \in 1..Len(s) : isFirstAttempt(s[i])}

\* The places of the last k first attempts of s.
LastFirst(s, k) == {i \in FirstOf(s) : Cardinality({j \in FirstOf(s) : j > i}) < k}

RightOf(s, I) == {i \in I : s[i].correct}

\* First attempts are finitely many.
LEMMA FirstOfFinite ==
  ASSUME NEW s \in Seq(Answers), NEW k
  PROVE  /\ IsFiniteSet(FirstOf(s)) /\ FirstOf(s) \subseteq 1..Len(s)
         /\ \A i : IsFiniteSet({j \in FirstOf(s) : j > i})
         /\ IsFiniteSet(LastFirst(s, k))
         /\ IsFiniteSet(RightOf(s, LastFirst(s, k)))
PROOF
<1>1. IsFiniteSet(1..Len(s))
  BY LenProperties, FS_Interval
<1>2. FirstOf(s) \subseteq 1..Len(s)
  BY DEF FirstOf
<1>3. IsFiniteSet(FirstOf(s))
  BY <1>1, <1>2, FS_Subset
<1>4. \A i : {j \in FirstOf(s) : j > i} \in SUBSET FirstOf(s)
  OBVIOUS
<1>5. LastFirst(s, k) \in SUBSET FirstOf(s)
  BY DEF LastFirst
<1>6. RightOf(s, LastFirst(s, k)) \in SUBSET LastFirst(s, k)
  BY DEF RightOf
<1>7. \A i : IsFiniteSet({j \in FirstOf(s) : j > i})
  BY <1>3, <1>4, FS_Subset
<1>8. IsFiniteSet(LastFirst(s, k))
  BY <1>3, <1>5, FS_Subset
<1>9. IsFiniteSet(RightOf(s, LastFirst(s, k)))
  BY <1>6, <1>8, FS_Subset
<1>. QED BY <1>2, <1>3, <1>7, <1>8, <1>9

\* A first attempt more is one of the last, and one fewer of those before is.
LEMMA LastFirstAppend ==
  ASSUME NEW s \in Seq(Answers), NEW x \in Answers, NEW k \in Nat
  PROVE  /\ LastFirst(s, 0) = {}
         /\ ~ isFirstAttempt(x) => LastFirst(Append(s, x), k) = LastFirst(s, k)
         /\ isFirstAttempt(x) =>
              LastFirst(Append(s, x), k + 1) = LastFirst(s, k) \cup {Len(s) + 1}
PROOF
<1> DEFINE n == Len(s)
           u == Append(s, x)
           F == FirstOf(s)
           After(i) == {j \in F : j > i}
<1>1. /\ n \in Nat /\ Len(u) = n + 1 /\ u[n + 1] = x /\ \A i \in 1..n : u[i] = s[i]
  BY AppendProperties, LenProperties
<1>2. F \subseteq 1..n /\ \A i : IsFiniteSet(After(i))
  BY FirstOfFinite
<1>3. \A i : Cardinality(After(i)) \in Nat
  <2> HIDE DEF After
  <2>. QED BY <1>2, FS_CardinalityType
<1>4. LastFirst(s, 0) = {}
  <2>1. \A i \in F : ~ (Cardinality(After(i)) < 0)
    <3> HIDE DEF After, F
    <3>. QED BY <1>3
  <2>. QED BY <2>1 DEF LastFirst
<1>5. ASSUME ~ isFirstAttempt(x) PROVE LastFirst(u, k) = LastFirst(s, k)
  <2>1. FirstOf(u) = F
    <3> HIDE DEF u
    <3>. QED BY <1>1, <1>5 DEF FirstOf
  <2> HIDE DEF u
  <2>. QED BY <2>1 DEF LastFirst
<1>6. ASSUME isFirstAttempt(x) PROVE LastFirst(u, k + 1) = LastFirst(s, k) \cup {n + 1}
  <2>1. FirstOf(u) = F \cup {n + 1}
    <3> HIDE DEF u
    <3>. QED BY <1>1, <1>6 DEF FirstOf
  <2> HIDE DEF u
  <2>2. ASSUME NEW i \in F
        PROVE  Cardinality({j \in F \cup {n + 1} : j > i}) = Cardinality(After(i)) + 1
    <3>1. {j \in F \cup {n + 1} : j > i} = After(i) \cup {n + 1}
      BY <1>1, <1>2
    <3>2. n + 1 \notin After(i)
      BY <1>1, <1>2
    <3>3. IsFiniteSet(After(i))
      BY <1>2
    <3> HIDE DEF After, F
    <3>. QED BY <3>1, <3>2, <3>3, FS_AddElement
  <2>3. Cardinality({j \in F \cup {n + 1} : j > n + 1}) = 0
    <3>1. {j \in F \cup {n + 1} : j > n + 1} = {}
      BY <1>1, <1>2
    <3>. QED BY <3>1, FS_EmptySet
  <2>4. LastFirst(u, k + 1)
          = {i \in F \cup {n + 1} : Cardinality({j \in F \cup {n + 1} : j > i}) < k + 1}
    BY <2>1 DEF LastFirst
  <2>5. LastFirst(s, k) = {i \in F : Cardinality(After(i)) < k}
    BY DEF LastFirst
  <2> DEFINE C(i) == Cardinality({j \in F \cup {n + 1} : j > i})
             D(i) == Cardinality(After(i))
  <2>6. /\ \A i \in F : C(i) = D(i) + 1 /\ D(i) \in Nat
        /\ C(n + 1) = 0
    BY <1>3, <2>2, <2>3
  <2>7. /\ LastFirst(u, k + 1) = {i \in F \cup {n + 1} : C(i) < k + 1}
        /\ LastFirst(s, k) = {i \in F : D(i) < k}
    BY <2>4, <2>5
  <2> HIDE DEF C, D, F, n, After
  <2>8. \A i \in F : C(i) < k + 1 <=> D(i) < k
    BY <2>6
  <2>9. C(n + 1) < k + 1
    BY <2>6
  <2>. QED BY <2>7, <2>8, <2>9
<1>. QED BY <1>4, <1>5, <1>6

FirstKept(s) == filter(s, {row \in Answers : isFirstAttempt(row)})

\* What the code cuts off the rows it has kept is what the rubric counts.
LEMMA LastFirstIs ==
  ASSUME NEW s \in Seq(Answers), NEW k \in Nat
  PROVE  /\ Len(lastOf(FirstKept(s), k)) = Cardinality(LastFirst(s, k))
         /\ RightIn(lastOf(FirstKept(s), k)) = Cardinality(RightOf(s, LastFirst(s, k)))
         /\ FirstKept(s) \in Seq(Answers)
PROOF
<1> DEFINE Agrees(t, m) ==
             /\ Len(lastOf(FirstKept(t), m)) = Cardinality(LastFirst(t, m))
             /\ RightIn(lastOf(FirstKept(t), m)) = Cardinality(RightOf(t, LastFirst(t, m)))
           G == {t \in Seq(Answers) : FirstKept(t) \in Seq(Answers) /\ \A m \in Nat : Agrees(t, m)}
<1>1. <<>> \in Seq(Answers) /\ Len(<<>>) = 0
  OBVIOUS
<1>2. RightIn(<<>>) = 0
  <2>1. RightIn(<<>>) \in Nat /\ RightIn(<<>>) <= Len(<<>>)
    BY <1>1, RightInAppend
  <2>. QED BY <1>1, <2>1
<1>3. ASSUME NEW t \in Seq(Answers), FirstKept(t) \in Seq(Answers) PROVE Agrees(t, 0)
  <2>1. lastOf(FirstKept(t), 0) = <<>>
    BY <1>3, LastOfNone
  <2>2. LastFirst(t, 0) = {}
    <3>1. CASE Answers = {}
      <4>1. Len(t) = 0
        <5>1. Len(t) # 0 => 1 \in 1..Len(t)
          BY LenProperties
        <5>. QED BY <3>1, <5>1, ElementOfSeq
      <4>2. 1..Len(t) = {}
        BY <4>1
      <4>. QED BY <4>2 DEF LastFirst, FirstOf
    <3>2. CASE Answers # {}
      <4>1. PICK x \in Answers : TRUE
        BY <3>2
      <4>. QED BY LastFirstAppend
    <3>. QED BY <3>1, <3>2
  <2>3. RightOf(t, {}) = {}
    BY DEF RightOf
  <2>. QED BY <1>1, <1>2, <2>1, <2>2, <2>3, FS_EmptySet
<1>4. <<>> \in G
  <2>1. FirstKept(<<>>) = <<>>
    BY FilterEmpty DEF FirstKept
  <2>2. ASSUME NEW m \in Nat PROVE Agrees(<<>>, m)
    <3>1. LastFirst(<<>>, m) = {}
      <4>1. 1..Len(<<>>) = {}
        BY <1>1
      <4>. QED BY <4>1 DEF LastFirst, FirstOf
    <3>2. lastOf(<<>>, m) = <<>>
      BY <1>1, SubSeqEmpty DEF lastOf
    <3>3. RightOf(<<>>, {}) = {}
      BY DEF RightOf
    <3>. QED BY <1>1, <1>2, <2>1, <3>1, <3>2, <3>3, FS_EmptySet
  <2> HIDE DEF Agrees
  <2>. QED BY <1>1, <2>1, <2>2
<1>5. ASSUME NEW t \in Seq(Answers), NEW x \in Answers, t \in G PROVE Append(t, x) \in G
  <2> DEFINE u == Append(t, x)
             n == Len(t)
  <2>1. /\ u \in Seq(Answers) /\ n \in Nat /\ u[n + 1] = x
        /\ \A i \in 1..n : u[i] = t[i]
    BY AppendProperties, LenProperties
  <2>2. FirstKept(t) \in Seq(Answers) /\ \A m \in Nat : Agrees(t, m)
    BY <1>5
  <2>3. FirstKept(u) = IF isFirstAttempt(x) THEN Append(FirstKept(t), x) ELSE FirstKept(t)
    <3> DEFINE wanted == {row \in Answers : isFirstAttempt(row)}
    <3>1. filter(u, wanted) = IF x \in wanted THEN Append(filter(t, wanted), x)
                              ELSE filter(t, wanted)
      BY FilterAppend
    <3>2. x \in wanted <=> isFirstAttempt(x)
      OBVIOUS
    <3> HIDE DEF u, wanted
    <3>3. filter(u, wanted) = FirstKept(u) /\ filter(t, wanted) = FirstKept(t)
      BY DEF FirstKept, wanted
    <3>. QED BY <3>1, <3>2, <3>3
  <2>4. FirstKept(u) \in Seq(Answers)
    BY <2>2, <2>3, AppendProperties
  <2>5. \A m : LastFirst(t, m) \subseteq 1..n
    BY FirstOfFinite DEF LastFirst
  <2> HIDE DEF G
  <2>6. ASSUME NEW m \in Nat PROVE Agrees(u, m)
    <3>1. CASE ~ isFirstAttempt(x)
      <4>1. LastFirst(u, m) = LastFirst(t, m)
        BY <3>1, LastFirstAppend
      <4>2. RightOf(u, LastFirst(t, m)) = RightOf(t, LastFirst(t, m))
        <5> HIDE DEF u
        <5>. QED BY <2>1, <2>5 DEF RightOf
      <4>. QED BY <2>2, <2>3, <3>1, <4>1, <4>2
    <3>2. CASE isFirstAttempt(x) /\ m # 0
      <4> DEFINE j == m - 1
                 I == LastFirst(t, j)
                 v == lastOf(FirstKept(t), j)
      <4>1. j \in Nat /\ m = j + 1
        BY <3>2
      <4>2. LastFirst(u, m) = I \cup {n + 1}
        BY <3>2, <4>1, LastFirstAppend
      <4>3. lastOf(FirstKept(u), m) = Append(v, x) /\ v \in Seq(Answers)
        <5>1. FirstKept(u) = Append(FirstKept(t), x)
          BY <2>3, <3>2
        <5> DEFINE w == FirstKept(t)
        <5>2. w \in Seq(Answers)
          BY <2>2
        <5> HIDE DEF u, j, w
        <5>3. /\ lastOf(w, j) \in Seq(Answers)
              /\ lastOf(Append(w, x), j + 1) = Append(lastOf(w, j), x)
          BY <4>1, <5>2, LastOfAppend
        <5>. QED BY <4>1, <5>1, <5>3 DEF w
      <4>4. Agrees(t, j)
        BY <2>2, <4>1
      <4>5. IsFiniteSet(I) /\ n + 1 \notin I /\ IsFiniteSet(RightOf(t, I))
        <5>1. n + 1 \notin 1..n
          BY <2>1
        <5>. QED BY <2>5, <5>1, FirstOfFinite
      <4>6. RightOf(u, I \cup {n + 1})
              = IF x.correct THEN RightOf(t, I) \cup {n + 1} ELSE RightOf(t, I)
        <5>1. I \subseteq 1..n
          BY <2>5
        <5> HIDE DEF u, I
        <5>. QED BY <2>1, <5>1 DEF RightOf
      <4>7. n + 1 \notin RightOf(t, I)
        BY <4>5 DEF RightOf
      <4>8. Len(Append(v, x)) = Len(v) + 1
        BY <4>3, AppendProperties
      <4>9. RightIn(Append(v, x)) = IF x.correct THEN RightIn(v) + 1 ELSE RightIn(v)
        BY <4>3, RightInAppend
      <4>10. Cardinality(I \cup {n + 1}) = Cardinality(I) + 1
        BY <4>5, FS_AddElement
      <4>11. Cardinality(RightOf(t, I) \cup {n + 1}) = Cardinality(RightOf(t, I)) + 1
        BY <4>5, <4>7, FS_AddElement
      <4>12. Len(v) = Cardinality(I) /\ RightIn(v) = Cardinality(RightOf(t, I))
        BY <4>4
      <4> HIDE DEF u, v, I, j, n
      <4>. QED BY <4>2, <4>3, <4>6, <4>8, <4>9, <4>10, <4>11, <4>12
    <3>3. CASE m = 0
      BY <1>3, <2>1, <2>4, <3>3
    <3>. QED BY <3>1, <3>2, <3>3
  <2> HIDE DEF Agrees
  <2>. QED BY <2>1, <2>4, <2>6 DEF G
<1>6. s \in G
  <2> HIDE DEF G
  <2>. QED BY <1>4, <1>5, RowsInduction
<1>. QED BY <1>6

\* The first attempts the rubric counts, and the right ones of them.
LEMMA RecentIs ==
  ASSUME NEW s
  PROVE  /\ Recent(s) = LastFirst(s, accuracyWindow)
         /\ {i \in Recent(s) : s[i].correct} = RightOf(s, LastFirst(s, accuracyWindow))
PROOF
<1>1. Recent(s) = LastFirst(s, accuracyWindow)
  BY DEF Recent, LastFirst, FirstOf
<1>. QED BY <1>1 DEF RightOf

\* The code finds accuracy met when the rubric does.
LEMMA AccuracyIs ==
  ASSUME NEW s \in Seq(Answers)
  PROVE  accuracyMet(s) <=> Meets(s, "ACCURACY")
PROOF
<1> DEFINE I == LastFirst(s, accuracyWindow)
           w == lastOf(FirstKept(s), accuracyWindow)
           n == Cardinality(I)
           c == Cardinality(RightOf(s, I))
<1>1. /\ accuracyWindow \in Nat /\ accuracyThreshold \in Nat
      /\ accuracyMinAttempts \in Nat /\ accuracyMinAttempts # 0
  BY ProgressAssumption
<1>2. Len(w) = n /\ RightIn(w) = c
  BY <1>1, LastFirstIs
<1>3. n \in Nat /\ c \in Nat
  BY FirstOfFinite, FS_CardinalityType
<1>4. accuracyMet(s) <=> Len(w) >= accuracyMinAttempts
                         /\ percent(RightIn(w), Len(w)) >= accuracyThreshold
  BY DEF accuracyMet, firstAttempts, FirstKept, RightIn
<1>5. Meets(s, "ACCURACY") <=> n >= accuracyMinAttempts
                               /\ 200 * c >= (2 * accuracyThreshold - 1) * n
  BY RecentIs DEF Meets
<1> HIDE DEF w, n, c
<1>6. CASE n = 0
  BY <1>1, <1>2, <1>3, <1>4, <1>5, <1>6
<1>7. CASE n # 0
  <2>1. percent(c, n) >= accuracyThreshold <=> 200 * c >= (2 * accuracyThreshold - 1) * n
    <3>1. n \in Nat \ {0}
      BY <1>3, <1>7
    <3>. QED BY <1>1, <1>3, <3>1, PercentAtLeast
  <2>. QED BY <1>2, <1>4, <1>5, <2>1
<1>. QED BY <1>6, <1>7

\* Of a finite set with b members or more, b may be enumerated.
LEMMA Enumerated ==
  ASSUME NEW T, IsFiniteSet(T), NEW b \in Nat, b <= Cardinality(T)
  PROVE  \E f : f \in Injection(1..b, T)
PROOF
<1> DEFINE n == Cardinality(T)
<1>1. n \in Nat /\ ExistsBijection(1..n, T)
  BY FS_CardinalityType
<1>2. PICK g : g \in Bijection(1..n, T)
  BY <1>1 DEF ExistsBijection
<1> HIDE DEF n
<1>3. g \in [1..n -> T] /\ \A i, j \in 1..n : g[i] = g[j] => i = j
  BY <1>2 DEF Bijection, Injection, IsInjective
<1> DEFINE f == [i \in 1..b |-> g[i]]
<1>4. 1..b \subseteq 1..n
  BY <1>1 DEF n
<1>5. f \in [1..b -> T] /\ \A i, j \in 1..b : f[i] = f[j] => i = j
  BY <1>3, <1>4
<1> HIDE DEF f
<1>6. f \in Injection(1..b, T)
  BY <1>5 DEF Injection, IsInjective
<1>. QED BY <1>6

\* The set an injection leads to has as many members as the one it starts from.
LEMMA SameSize ==
  ASSUME NEW A, NEW B, NEW f \in Injection(A, B), IsFiniteSet(A)
  PROVE  LET R == {f[x] : x \in A} IN IsFiniteSet(R) /\ Cardinality(R) = Cardinality(A)
PROOF
<1> DEFINE R == {f[x] : x \in A}
<1>1. f \in [A -> B] /\ \A x, y \in A : f[x] = f[y] => x = y
  BY DEF Injection, IsInjective
<1>2. f \in [A -> R]
  BY <1>1
<1>3. f \in Surjection(A, R)
  BY <1>2 DEF Surjection
<1>4. f \in Injection(A, R)
  BY <1>1, <1>2 DEF Injection, IsInjective
<1>5. f \in Bijection(A, R)
  BY <1>3, <1>4 DEF Bijection
<1>6. ExistsBijection(A, R)
  BY <1>5 DEF ExistsBijection
<1> HIDE DEF R
<1>7. IsFiniteSet(R) /\ Cardinality(R) = Cardinality(A)
  BY <1>6, FS_Bijection
<1>. QED BY <1>7 DEF R

\* The code finds breadth met when the rubric does.
LEMMA BreadthIs ==
  ASSUME NEW s \in Seq(Answers)
  PROVE  breadthMet(s) <=> Meets(s, "BREADTH")
PROOF
<1> DEFINE J == {i \in 1..Len(s) : isScored(s[i])}
           in == [i \in J |-> s[i].input]
           T == {s[i].input : i \in J} \ {None}
           b == breadthThreshold
           Apart(S) == \A i, j \in S : in[i] # None /\ (i # j => in[i] # in[j])
<1>1. b \in Nat
  BY ProgressAssumption
<1>2. IsFiniteSet(J)
  <2>1. IsFiniteSet(1..Len(s))
    BY LenProperties, FS_Interval
  <2>2. J \in SUBSET (1..Len(s))
    OBVIOUS
  <2> HIDE DEF J
  <2>. QED BY <2>1, <2>2, FS_Subset
<1>3. breadthMet(s) <=> Cardinality(T) >= b
  <2>1. DOMAIN s = 1..Len(s)
    BY LenProperties
  <2>. QED BY <2>1 DEF breadthMet
<1>4. Meets(s, "BREADTH") <=> \E S \in SUBSET J : Cardinality(S) = b /\ Apart(S)
  <2>1. ASSUME NEW S \in SUBSET J
        PROVE  Apart(S) <=> \A i, j \in S : s[i].input # None
                                         /\ (i # j => s[i].input # s[j].input)
    <3>1. \A i \in S : in[i] = s[i].input
      OBVIOUS
    <3> HIDE DEF in
    <3>. QED BY <3>1
  <2> HIDE DEF Apart
  <2>. QED BY <2>1 DEF Meets
<1>5. T = {in[i] : i \in J} \ {None}
  OBVIOUS
<1> HIDE DEF in, J, T, b
<1>6. IsFiniteSet(T)
  <2> DEFINE D == {in[i] : i \in J}
  <2>1. in \in [J -> D]
    BY DEF in
  <2>2. in \in Surjection(J, D)
    BY <2>1 DEF Surjection
  <2>3. IsFiniteSet(D)
    BY <1>2, <2>2, FS_Surjection
  <2>. QED BY <1>5, <2>3, FS_Difference
<1>7. ASSUME Cardinality(T) >= b PROVE \E S \in SUBSET J : Cardinality(S) = b /\ Apart(S)
  <2>0. b <= Cardinality(T)
    BY <1>1, <1>6, <1>7, FS_CardinalityType
  <2>1. PICK f : f \in Injection(1..b, T)
    BY <1>1, <1>6, <2>0, Enumerated
  <2>2. f \in [1..b -> T] /\ \A k, l \in 1..b : f[k] = f[l] => k = l
    BY <2>1 DEF Injection, IsInjective
  <2> DEFINE Place(v) == CHOOSE i \in J : in[i] = v
             g == [k \in 1..b |-> Place(f[k])]
             S == {g[k] : k \in 1..b}
  <2>3. \A v \in T : Place(v) \in J /\ in[Place(v)] = v /\ v # None
    BY <1>5
  <2> HIDE DEF Place
  <2>4. \A k \in 1..b : g[k] \in J /\ in[g[k]] = f[k] /\ f[k] # None
    BY <2>2, <2>3
  <2>5. g \in Injection(1..b, J)
    <3>1. g \in [1..b -> J]
      BY <2>4
    <3> HIDE DEF g
    <3>2. \A k, l \in 1..b : g[k] = g[l] => k = l
      BY <2>2, <2>4
    <3>. QED BY <3>1, <3>2 DEF Injection, IsInjective
  <2> HIDE DEF g
  <2>6. Cardinality(S) = b
    <3>1. IsFiniteSet(1..b) /\ Cardinality(1..b) = b
      BY <1>1, FS_Interval
    <3>. QED BY <2>5, <3>1, SameSize
  <2>7. S \in SUBSET J
    <3>1. \A k \in 1..b : g[k] \in J
      BY <2>4
    <3>. QED BY <3>1
  <2>8. Apart(S)
    <3> SUFFICES ASSUME NEW k \in 1..b, NEW l \in 1..b
                 PROVE  in[g[k]] # None /\ (g[k] # g[l] => in[g[k]] # in[g[l]])
      OBVIOUS
    <3>. QED BY <2>2, <2>4
  <2> HIDE DEF S, Apart
  <2>. QED BY <2>6, <2>7, <2>8
<1>8. ASSUME NEW S \in SUBSET J, Cardinality(S) = b, Apart(S) PROVE Cardinality(T) >= b
  <2> DEFINE h == [i \in S |-> in[i]]
  <2>1. h \in [S -> T]
    BY <1>5, <1>8
  <2>2. \A i, j \in S : h[i] = h[j] => i = j
    BY <1>8
  <2> HIDE DEF h
  <2>3. h \in Injection(S, T)
    BY <2>1, <2>2 DEF Injection, IsInjective
  <2>4. Cardinality(S) <= Cardinality(T)
    BY <1>6, <2>3, FS_Injection
  <2>5. Cardinality(T) \in Nat
    BY <1>6, FS_CardinalityType
  <2>. QED BY <1>1, <1>8, <2>4, <2>5
<1>. QED BY <1>3, <1>4, <1>7, <1>8

\* What computeMastery finds met are the criteria the rubric says are.
LEMMA MasteryIs ==
  ASSUME NEW s \in Seq(Answers)
  PROVE  computeMastery(s) = {c \in CriterionId : Meets(s, c)}
PROOF
<1>1. accuracyMet(s) <=> Meets(s, "ACCURACY")
  BY AccuracyIs
<1>2. breadthMet(s) <=> Meets(s, "BREADTH")
  BY BreadthIs
<1>3. DOMAIN s = 1..Len(s)
  BY LenProperties
<1>4. feynmanMet(s) <=> Meets(s, "FEYNMAN")
  BY <1>3 DEF feynmanMet, Meets
<1>5. challengeMet(s) <=> Meets(s, "CHALLENGE")
  BY <1>3 DEF challengeMet, CountIn, Meets
<1> DEFINE Met(c) == \/ c = "ACCURACY" /\ accuracyMet(s)
                     \/ c = "BREADTH" /\ breadthMet(s)
                     \/ c = "FEYNMAN" /\ feynmanMet(s)
                     \/ c = "CHALLENGE" /\ challengeMet(s)
<1>6. \A c \in CriterionId : Met(c) <=> Meets(s, c)
  BY <1>1, <1>2, <1>4, <1>5 DEF CriterionId
<1>7. computeMastery(s) = {c \in CriterionId : Met(c)}
  BY DEF computeMastery
<1> HIDE DEF Met
<1>. QED BY <1>6, <1>7

\* Without a row nothing is met.
LEMMA NothingMet ==
  ASSUME NEW c \in CriterionId
  PROVE  ~ Meets(<<>>, c)
PROOF
<1>1. 1..Len(<<>>) = {}
  OBVIOUS
<1>2. \A n \in {accuracyMinAttempts, breadthThreshold, challengeThreshold} : n \in Nat \ {0}
  BY ProgressAssumption
<1>3. Cardinality({}) = 0
  BY FS_EmptySet
<1>4. \A S \in SUBSET {} : S = {}
  OBVIOUS
<1>5. CASE c = "ACCURACY"
  <2>1. Recent(<<>>) = {}
    BY <1>1 DEF Recent
  <2>2. Meets(<<>>, "ACCURACY") => Cardinality(Recent(<<>>)) >= accuracyMinAttempts
    BY DEF Meets
  <2>. QED BY <1>2, <1>3, <1>5, <2>1, <2>2
<1>6. CASE c = "BREADTH"
  <2>1. {i \in 1..Len(<<>>) : isScored(<<>>[i])} = {}
    BY <1>1
  <2>2. Meets(<<>>, "BREADTH") =>
          \E S \in SUBSET {i \in 1..Len(<<>>) : isScored(<<>>[i])} :
            Cardinality(S) = breadthThreshold
    BY DEF Meets
  <2>. QED BY <1>2, <1>3, <1>4, <1>6, <2>1, <2>2
<1>7. CASE c = "FEYNMAN"
  BY <1>1, <1>7 DEF Meets
<1>8. CASE c = "CHALLENGE"
  <2>1. {i \in 1..Len(<<>>) : <<>>[i].type = "CHALLENGE_RESULT" /\ <<>>[i].correct} = {}
    BY <1>1
  <2>2. Meets(<<>>, "CHALLENGE") <=>
          Cardinality({i \in 1..Len(<<>>) : <<>>[i].type = "CHALLENGE_RESULT" /\ <<>>[i].correct})
            >= challengeThreshold
    BY DEF Meets
  <2>. QED BY <1>2, <1>3, <1>8, <2>1, <2>2
<1>. QED BY <1>5, <1>6, <1>7, <1>8 DEF CriterionId

\* A row the rubric does not read changes nothing of it.
LEMMA OtherRow ==
  ASSUME NEW s \in Seq(Answers), NEW x \in Answers, ~ feedsMastery(x), NEW c \in CriterionId
  PROVE  Meets(Append(s, x), c) <=> Meets(s, c)
PROOF
<1> DEFINE n == Len(s)
           u == Append(s, x)
<1>1. /\ n \in Nat /\ Len(u) = n + 1 /\ u[n + 1] = x /\ \A i \in 1..n : u[i] = s[i]
      /\ u \in Seq(Answers)
  BY AppendProperties, LenProperties
<1>2. ~ isScored(x) /\ x.type # "FEYNMAN" /\ x.type # "CHALLENGE_RESULT"
  BY DEF feedsMastery, isScored
<1>3. /\ 1..Len(u) = (1..n) \cup {n + 1} /\ n + 1 \notin 1..n
  BY <1>1
<1> HIDE DEF u
<1>4. CASE c = "ACCURACY"
  <2>1. ~ isFirstAttempt(x)
    BY <1>2 DEF isFirstAttempt
  <2>2. Recent(u) = Recent(s)
    <3>1. {i \in 1..Len(u) : isFirstAttempt(u[i])} = {i \in 1..n : isFirstAttempt(s[i])}
      BY <1>1, <1>3, <2>1
    <3>. QED BY <3>1 DEF Recent
  <2>3. Recent(s) \subseteq 1..n
    BY DEF Recent
  <2>4. {i \in Recent(u) : u[i].correct} = {i \in Recent(s) : s[i].correct}
    BY <1>1, <2>2, <2>3
  <2>. QED BY <1>4, <2>2, <2>4 DEF Meets, u
<1>5. CASE c = "BREADTH"
  <2> DEFINE J == {i \in 1..n : isScored(s[i])}
             b == breadthThreshold
             Apart(v, S) == \A i, j \in S : v[i].input # None
                                         /\ (i # j => v[i].input # v[j].input)
  <2>1. {i \in 1..Len(u) : isScored(u[i])} = J
    BY <1>1, <1>2, <1>3
  <2>2. \A S \in SUBSET J : Apart(u, S) <=> Apart(s, S)
    BY <1>1
  <2>3. Meets(u, "BREADTH") <=> \E S \in SUBSET {i \in 1..Len(u) : isScored(u[i])} :
                                  Cardinality(S) = b /\ Apart(u, S)
    BY DEF Meets
  <2>4. Meets(s, "BREADTH") <=> \E S \in SUBSET J : Cardinality(S) = b /\ Apart(s, S)
    BY DEF Meets
  <2> HIDE DEF J, Apart, b
  <2>. QED BY <1>5, <2>1, <2>2, <2>3, <2>4 DEF u
<1>6. CASE c = "FEYNMAN"
  <2> DEFINE Told(v, i) == /\ v[i].type = "FEYNMAN" /\ v[i].score # None
                           /\ v[i].score >= feynmanThreshold
  <2>1. (\E i \in 1..Len(u) : Told(u, i)) <=> (\E i \in 1..n : Told(s, i))
    BY <1>1, <1>2, <1>3
  <2>. QED BY <1>6, <2>1 DEF Meets, u
<1>7. CASE c = "CHALLENGE"
  <2>1. {i \in 1..Len(u) : u[i].type = "CHALLENGE_RESULT" /\ u[i].correct}
          = {i \in 1..n : s[i].type = "CHALLENGE_RESULT" /\ s[i].correct}
    BY <1>1, <1>2, <1>3
  <2>. QED BY <1>7, <2>1 DEF Meets, u
<1>. QED BY <1>4, <1>5, <1>6, <1>7 DEF CriterionId

----------------------------------------------------------------------------
(* XP                                                                       *)

\* XP is never negative.
LEMMA XpIsNat ==
  ASSUME NEW a
  PROVE  xpForInteraction(a) \in Nat
BY DEF xpForInteraction

\* f[n] is what the first n rows of s are worth.
Sums(f, s) ==
  /\ f \in [0..Len(s) -> Nat]
  /\ f[0] = 0
  /\ \A i \in 1..Len(s) : f[i] = f[i - 1] + xpForInteraction(s[i])

\* There is such an f ...
LEMMA SumsExists ==
  ASSUME NEW s \in Seq(Answers)
  PROVE  \E f : Sums(f, s)
PROOF
<1> DEFINE n == Len(s)
           step == [p \in Nat \X Nat |-> p[2] + xpForInteraction(s[p[1]])]
<1>1. n \in Nat
  BY LenProperties
<1>2. step \in [Nat \X Nat -> Nat]
  BY XpIsNat
<1>3. \A i \in Nat, t \in Nat : step[<<i, t>>] = t + xpForInteraction(s[i])
  OBVIOUS
<1> HIDE DEF step, n
<1>4. PICK f : Iterates(f, n, Nat, 0, step)
  BY <1>1, <1>2, Recursion
<1>5. f \in [0..n -> Nat] /\ f[0] = 0 /\ \A i \in 1..n : f[i] = step[<<i, f[i - 1]>>]
  BY <1>4 DEF Iterates
<1>6. ASSUME NEW i \in 1..n PROVE f[i] = f[i - 1] + xpForInteraction(s[i])
  <2>1. i \in Nat /\ i - 1 \in 0..n
    BY <1>1
  <2>. QED BY <1>3, <1>5, <2>1
<1>. QED BY <1>5, <1>6 DEF Sums, n

\* ... and earned is its last value.
LEMMA EarnedIs ==
  ASSUME NEW s \in Seq(Answers)
  PROVE  \E f : Sums(f, s) /\ earned(s) = f[Len(s)]
PROOF
<1> DEFINE n == Len(s)
           Is(x) == x = [i \in 0..n |-> IF i = 0 THEN 0
                                        ELSE x[i - 1] + xpForInteraction(s[i])]
           c == CHOOSE x : Is(x)
<1>1. PICK f : Sums(f, s)
  BY SumsExists
<1>2. n \in Nat
  BY LenProperties
<1>3. Is(f)
  <2>1. ASSUME NEW i \in 0..n
        PROVE  f[i] = IF i = 0 THEN 0 ELSE f[i - 1] + xpForInteraction(s[i])
    <3>1. i # 0 => i \in 1..n
      BY <1>2
    <3>. QED BY <1>1, <3>1 DEF Sums
  <2>2. f = [i \in 0..n |-> f[i]]
    BY <1>1 DEF Sums
  <2>. QED BY <2>1, <2>2
<1>4. Is(c)
  <2> SUFFICES \E x : Is(x)
    BY Zenon
  <2>. QED BY <1>3
<1>5. earned(s) = c[n]
  BY DEF earned
<1> HIDE DEF c
<1> DEFINE G == {k \in Nat : k <= n => c[k] = f[k]}
<1>6. 0 \in G
  BY <1>1, <1>2, <1>4 DEF Sums
<1>7. ASSUME NEW k \in Nat, k \in G PROVE k + 1 \in G
  <2> SUFFICES ASSUME k + 1 <= n PROVE c[k + 1] = f[k + 1]
    OBVIOUS
  <2>1. k + 1 \in 0..n /\ k + 1 \in 1..n /\ k + 1 # 0 /\ (k + 1) - 1 = k /\ k <= n
    BY <1>2
  <2>2. c[k + 1] = c[k] + xpForInteraction(s[k + 1])
    BY <1>4, <2>1
  <2>3. f[k + 1] = f[k] + xpForInteraction(s[k + 1])
    BY <1>1, <2>1 DEF Sums
  <2>. QED BY <1>7, <2>1, <2>2, <2>3
<1> HIDE DEF G
<1>8. \A k \in Nat : k \in G
  BY <1>6, <1>7, Induction
<1>9. c[n] = f[n]
  BY <1>2, <1>8 DEF G
<1>. QED BY <1>1, <1>5, <1>9

\* Every row adds its own XP to what the rows have earned.
LEMMA EarnedEmpty == earned(<<>>) = 0
PROOF
<1>1. <<>> \in Seq(Answers) /\ Len(<<>>) = 0
  OBVIOUS
<1>2. PICK f : Sums(f, <<>>) /\ earned(<<>>) = f[Len(<<>>)]
  BY <1>1, EarnedIs
<1>. QED BY <1>1, <1>2 DEF Sums

\* The XP of one row more.
LEMMA EarnedAppend ==
  ASSUME NEW s \in Seq(Answers), NEW x \in Answers
  PROVE  /\ earned(s) \in Nat
         /\ earned(Append(s, x)) = earned(s) + xpForInteraction(x)
PROOF
<1> DEFINE t == Append(s, x)
           n == Len(s)
<1>1. /\ t \in Seq(Answers) /\ Len(t) = n + 1 /\ n \in Nat /\ t[n + 1] = x
      /\ \A i \in 1..n : t[i] = s[i]
  BY AppendProperties, LenProperties
<1> HIDE DEF t
<1>2. PICK f : Sums(f, s) /\ earned(s) = f[n]
  BY EarnedIs
<1>3. PICK g : Sums(g, t) /\ earned(t) = g[Len(t)]
  BY <1>1, EarnedIs
<1> HIDE DEF n
<1> DEFINE G == {k \in Nat : k <= n => f[k] = g[k]}
<1>4. 0 \in G
  BY <1>2, <1>3 DEF Sums
<1>5. ASSUME NEW k \in Nat, k \in G PROVE k + 1 \in G
  <2> SUFFICES ASSUME k + 1 <= n PROVE f[k + 1] = g[k + 1]
    OBVIOUS
  <2>1. k + 1 \in 1..n /\ k + 1 \in 1..(n + 1) /\ (k + 1) - 1 = k /\ k <= n
    BY <1>1
  <2>2. f[k + 1] = f[k] + xpForInteraction(s[k + 1])
    BY <1>2, <2>1 DEF Sums, n
  <2>3. g[k + 1] = g[k] + xpForInteraction(t[k + 1])
    BY <1>1, <1>3, <2>1 DEF Sums
  <2>. QED BY <1>1, <1>5, <2>1, <2>2, <2>3
<1> HIDE DEF G
<1>6. \A k \in Nat : k \in G
  BY <1>4, <1>5, Induction
<1>7. f[n] = g[n]
  BY <1>1, <1>6 DEF G
<1>8. g[n + 1] = g[n] + xpForInteraction(t[n + 1])
  <2>1. n + 1 \in 1..Len(t) /\ (n + 1) - 1 = n
    BY <1>1
  <2>. QED BY <1>3, <2>1 DEF Sums
<1>9. f[n] \in Nat
  <2>1. n \in 0..Len(s)
    BY <1>1 DEF n
  <2>. QED BY <1>2, <2>1 DEF Sums
<1>. QED BY <1>1, <1>2, <1>3, <1>7, <1>8, <1>9 DEF t, n

\* The member of R that owed takes first.
First(R) == CHOOSE x \in R : TRUE

\* f[R] is what the requests of R still have to add.
Owes(f, P, q) ==
  /\ f \in [SUBSET P -> Nat]
  /\ f[{}] = 0
  /\ \A R \in SUBSET P :
       R # {} => f[R] = xpForInteraction(q[First(R)].answer) + f[R \ {First(R)}]

\* A set that is not empty has a first member, and one member fewer without it.
LEMMA WithoutFirst ==
  ASSUME NEW R, IsFiniteSet(R), R # {}
  PROVE  /\ First(R) \in R /\ IsFiniteSet(R \ {First(R)})
         /\ Cardinality(R) \in Nat /\ Cardinality(R) # 0
         /\ Cardinality(R \ {First(R)}) = Cardinality(R) - 1
PROOF
<1>1. First(R) \in R
  BY DEF First
<1>2. Cardinality(R) \in Nat /\ Cardinality(R) # 0
  BY FS_CardinalityType, FS_EmptySet
<1>3. /\ IsFiniteSet(R \ {First(R)})
      /\ Cardinality(R \ {First(R)}) = Cardinality(R) - 1
  BY <1>1, FS_RemoveElement
<1>. QED BY <1>1, <1>2, <1>3

\* There is such an f ...
LEMMA OwesExists ==
  ASSUME NEW P, IsFiniteSet(P), NEW q
  PROVE  \E f : Owes(f, P, q)
PROOF
<1> DEFINE w(r) == xpForInteraction(q[r].answer)
           Upto(n) == {R \in SUBSET P : Cardinality(R) <= n}
           Good(n) == \E f \in [Upto(n) -> Nat] :
                        /\ f[{}] = 0
                        /\ \A R \in Upto(n) : R # {} => f[R] = w(First(R)) + f[R \ {First(R)}]
           G == {n \in Nat : Good(n)}
<1>1. \A r : w(r) \in Nat
  BY XpIsNat
<1> HIDE DEF w
<1>2. ASSUME NEW R \in SUBSET P
      PROVE  /\ IsFiniteSet(R) /\ Cardinality(R) \in Nat
             /\ R # {} => /\ First(R) \in R /\ R \ {First(R)} \in SUBSET P
                          /\ Cardinality(R) # 0
                          /\ Cardinality(R \ {First(R)}) = Cardinality(R) - 1
  <2>1. IsFiniteSet(R)
    BY FS_Subset
  <2>. QED BY <2>1, FS_CardinalityType, WithoutFirst
<1>3. {} \in SUBSET P /\ Cardinality({}) = 0
  BY FS_EmptySet
<1>4. 0 \in G
  <2> DEFINE f == [R \in Upto(0) |-> 0]
  <2>1. ASSUME NEW R \in Upto(0) PROVE R = {}
    <3>1. R \in SUBSET P /\ Cardinality(R) <= 0
      OBVIOUS
    <3>2. Cardinality(R) \in Nat /\ (R # {} => Cardinality(R) # 0)
      BY <1>2, <3>1
    <3>. QED BY <3>1, <3>2
  <2>2. f \in [Upto(0) -> Nat] /\ f[{}] = 0
    BY <1>3
  <2>3. Good(0)
    <3> HIDE DEF f, Upto
    <3>. QED BY <2>1, <2>2
  <2>. QED BY <2>3
<1>5. ASSUME NEW n \in Nat, n \in G PROVE n + 1 \in G
  <2>1. PICK f \in [Upto(n) -> Nat] :
          /\ f[{}] = 0
          /\ \A R \in Upto(n) : R # {} => f[R] = w(First(R)) + f[R \ {First(R)}]
    BY <1>5
  <2> DEFINE g == [R \in Upto(n + 1) |-> IF Cardinality(R) <= n THEN f[R]
                                         ELSE w(First(R)) + f[R \ {First(R)}]]
  <2>2. ASSUME NEW R \in Upto(n + 1), R # {}
        PROVE  R \ {First(R)} \in Upto(n) /\ R \ {First(R)} \in Upto(n + 1)
    BY <1>2, <2>2
  <2>3. \A R \in Upto(n + 1) : Cardinality(R) <= n => R \in Upto(n)
    OBVIOUS
  <2>4. {} \in Upto(n) /\ {} \in Upto(n + 1) /\ Cardinality({}) <= n
    BY <1>3
  <2>5. \A R \in Upto(n + 1) : ~ (Cardinality(R) <= n) => R # {}
    BY <1>3
  <2>6. \A R \in Upto(n) : Cardinality(R) <= n
    OBVIOUS
  <2> HIDE DEF Upto
  <2>7. g \in [Upto(n + 1) -> Nat]
    <3>1. ASSUME NEW R \in Upto(n + 1) PROVE g[R] \in Nat
      <4>1. CASE Cardinality(R) <= n
        BY <2>1, <2>3, <4>1
      <4>2. CASE ~ (Cardinality(R) <= n)
        <5>1. f[R \ {First(R)}] \in Nat
          BY <2>1, <2>2, <2>5, <4>2
        <5>. QED BY <1>1, <4>2, <5>1
      <4>. QED BY <4>1, <4>2
    <3>2. g = [R \in Upto(n + 1) |-> g[R]]
      OBVIOUS
    <3> HIDE DEF g
    <3>. QED BY <3>1, <3>2
  <2>8. g[{}] = 0
    BY <2>1, <2>4
  <2>9. ASSUME NEW R \in Upto(n + 1), R # {}
        PROVE  g[R] = w(First(R)) + g[R \ {First(R)}]
    <3>1. g[R \ {First(R)}] = f[R \ {First(R)}]
      BY <2>2, <2>6, <2>9
    <3>2. CASE Cardinality(R) <= n
      <4>1. g[R] = f[R] /\ R \in Upto(n)
        BY <2>3, <3>2
      <4> HIDE DEF g
      <4>. QED BY <2>1, <2>9, <3>1, <4>1
    <3>3. CASE ~ (Cardinality(R) <= n)
      <4>1. g[R] = w(First(R)) + f[R \ {First(R)}]
        BY <3>3
      <4> HIDE DEF g
      <4>. QED BY <3>1, <4>1
    <3>. QED BY <3>2, <3>3
  <2>10. Good(n + 1)
    <3> HIDE DEF g
    <3>. QED BY <2>7, <2>8, <2>9
  <2>. QED BY <2>10
<1> DEFINE m == Cardinality(P)
<1>6. m \in Nat /\ \A R \in SUBSET P : Cardinality(R) <= m
  BY FS_CardinalityType, FS_Subset
<1>7. Upto(m) = SUBSET P
  BY <1>6
<1> HIDE DEF G, m, Upto
<1>8. m \in G
  BY <1>4, <1>5, <1>6, Induction
<1>9. Good(m)
  BY <1>8 DEF G
<1>10. PICK f \in [SUBSET P -> Nat] :
         /\ f[{}] = 0
         /\ \A R \in SUBSET P : R # {} => f[R] = w(First(R)) + f[R \ {First(R)}]
  BY <1>7, <1>9
<1>11. Owes(f, P, q)
  BY <1>10 DEF Owes, w
<1>. QED BY <1>11

\* ... and owed is its value for all of them.
LEMMA OwedIs ==
  ASSUME NEW P, IsFiniteSet(P), NEW q
  PROVE  \E f : Owes(f, P, q) /\ owed(P, q) = f[P]
PROOF
<1> DEFINE Is(x) == x = [R \in SUBSET P |->
                           IF R = {} THEN 0
                           ELSE xpForInteraction(q[First(R)].answer) + x[R \ {First(R)}]]
           c == CHOOSE x : Is(x)
<1>1. owed(P, q) = c[P]
  BY DEF owed, First
<1>2. PICK f : Owes(f, P, q)
  BY OwesExists
<1>3. Is(f)
  <2>1. \A R \in SUBSET P :
          f[R] = IF R = {} THEN 0
                 ELSE xpForInteraction(q[First(R)].answer) + f[R \ {First(R)}]
    BY <1>2 DEF Owes
  <2>2. f = [R \in SUBSET P |-> f[R]]
    BY <1>2 DEF Owes
  <2>. QED BY <2>1, <2>2
<1>4. Is(c)
  <2> SUFFICES \E x : Is(x)
    BY Zenon
  <2>. QED BY <1>3
<1> HIDE DEF c
<1> DEFINE G == {n \in Nat : \A R \in SUBSET P : Cardinality(R) = n => c[R] = f[R]}
<1>5. ASSUME NEW R \in SUBSET P
      PROVE  /\ IsFiniteSet(R) /\ Cardinality(R) \in Nat
             /\ Cardinality(R) = 0 <=> R = {}
             /\ R # {} => /\ R \ {First(R)} \in SUBSET P
                          /\ Cardinality(R \ {First(R)}) = Cardinality(R) - 1
  <2>1. IsFiniteSet(R)
    BY FS_Subset
  <2>. QED BY <2>1, FS_CardinalityType, FS_EmptySet, WithoutFirst
<1>6. /\ c[{}] = 0
      /\ \A R \in SUBSET P :
           R # {} => c[R] = xpForInteraction(q[First(R)].answer) + c[R \ {First(R)}]
  <2>1. {} \in SUBSET P
    OBVIOUS
  <2>. QED BY <1>4, <2>1
<1> HIDE DEF Is
<1>7. 0 \in G
  BY <1>2, <1>5, <1>6 DEF Owes
<1>8. ASSUME NEW n \in Nat, n \in G PROVE n + 1 \in G
  <2> SUFFICES ASSUME NEW R \in SUBSET P, Cardinality(R) = n + 1 PROVE c[R] = f[R]
    OBVIOUS
  <2>1. /\ R # {} /\ R \ {First(R)} \in SUBSET P
        /\ Cardinality(R \ {First(R)}) = n
    BY <1>5
  <2>2. c[R \ {First(R)}] = f[R \ {First(R)}]
    BY <1>8, <2>1
  <2>. QED BY <1>2, <1>6, <2>1, <2>2 DEF Owes
<1> HIDE DEF G
<1>9. \A n \in Nat : n \in G
  BY <1>7, <1>8, Induction
<1>10. c[P] = f[P]
  <2>1. P \in SUBSET P
    OBVIOUS
  <2>. QED BY <1>5, <1>9, <2>1 DEF G
<1>. QED BY <1>1, <1>2, <1>10

\* A request more owes its own XP more, whichever of them comes first.
LEMMA OwesOneMore ==
  ASSUME NEW P, IsFiniteSet(P), NEW q, NEW f, Owes(f, P, q)
  PROVE  \A R \in SUBSET P, x \in P :
           x \notin R => f[R \cup {x}] = f[R] + xpForInteraction(q[x].answer)
PROOF
<1> DEFINE w(r) == xpForInteraction(q[r].answer)
           Adds(R) == \A x \in P : x \notin R => f[R \cup {x}] = f[R] + w(x)
           G == {n \in Nat : \A R \in SUBSET P : Cardinality(R) = n => Adds(R)}
<1>1. \A r : w(r) \in Nat
  BY XpIsNat
<1>2. /\ f \in [SUBSET P -> Nat] /\ f[{}] = 0
      /\ \A R \in SUBSET P : R # {} => f[R] = w(First(R)) + f[R \ {First(R)}]
  BY DEF Owes
<1> HIDE DEF w
<1>3. ASSUME NEW R \in SUBSET P
      PROVE  IsFiniteSet(R) /\ Cardinality(R) \in Nat /\ (Cardinality(R) = 0 <=> R = {})
  <2>1. IsFiniteSet(R)
    BY FS_Subset
  <2>. QED BY <2>1, FS_CardinalityType, FS_EmptySet
\* The case in which the new one is the first of all.
<1>4. ASSUME NEW R \in SUBSET P, NEW x \in P, x \notin R, First(R \cup {x}) = x
      PROVE  f[R \cup {x}] = f[R] + w(x)
  <2>1. R \cup {x} \in SUBSET P /\ R \cup {x} # {} /\ (R \cup {x}) \ {x} = R
    BY <1>4
  <2>2. f[R \cup {x}] = w(x) + f[R]
    BY <1>2, <1>4, <2>1
  <2>3. f[R] \in Nat
    BY <1>2
  <2>. QED BY <1>1, <2>2, <2>3
<1>5. 0 \in G
  <2> SUFFICES ASSUME NEW R \in SUBSET P, Cardinality(R) = 0, NEW x \in P, x \notin R
               PROVE  f[R \cup {x}] = f[R] + w(x)
    OBVIOUS
  <2>1. First(R \cup {x}) = x
    <3>1. R \cup {x} = {x}
      BY <1>3
    <3>. QED BY <3>1 DEF First
  <2>. QED BY <1>4, <2>1
<1>6. ASSUME NEW n \in Nat, n \in G PROVE n + 1 \in G
  <2> SUFFICES ASSUME NEW R \in SUBSET P, Cardinality(R) = n + 1, NEW x \in P, x \notin R
               PROVE  f[R \cup {x}] = f[R] + w(x)
    OBVIOUS
  <2> DEFINE c == First(R \cup {x})
             Q == R \ {c}
  <2>1. c \in R \cup {x}
    BY DEF First
  <2>2. CASE c = x
    BY <1>4, <2>2
  <2>3. CASE c # x
    <3>1. /\ c \in R /\ c \in P /\ Q \in SUBSET P /\ x \notin Q /\ c \notin Q
          /\ (R \cup {x}) \ {c} = Q \cup {x} /\ Q \cup {c} = R
          /\ R \cup {x} \in SUBSET P /\ R \cup {x} # {} /\ Q \cup {x} \in SUBSET P
      BY <2>1, <2>3
    <3>2. Cardinality(Q) = n
      <4>1. IsFiniteSet(R)
        BY <1>3
      <4>2. Cardinality(R \ {c}) = Cardinality(R) - 1
        BY <3>1, <4>1, FS_RemoveElement
      <4>. QED BY <4>2
    <3> HIDE DEF Q
    <3>3. Adds(Q)
      BY <1>6, <3>1, <3>2
    <3>4. f[Q \cup {x}] = f[Q] + w(x) /\ f[Q \cup {c}] = f[Q] + w(c)
      BY <3>1, <3>3
    <3>5. f[R \cup {x}] = w(c) + f[Q \cup {x}]
      BY <1>2, <3>1
    <3>6. f[Q] \in Nat
      BY <1>2, <3>1
    <3>7. f[R] = f[Q] + w(c)
      BY <3>1, <3>4
    <3>8. w(c) \in Nat /\ w(x) \in Nat
      BY <1>1
    <3> HIDE DEF c
    <3>. QED BY <3>4, <3>5, <3>6, <3>7, <3>8
  <2>. QED BY <2>2, <2>3
<1> HIDE DEF G
<1>7. \A n \in Nat : n \in G
  BY <1>5, <1>6, Induction
<1>8. \A R \in SUBSET P : Adds(R)
  <2> HIDE DEF Adds
  <2>. QED BY <1>3, <1>7 DEF G
<1>. QED BY <1>8 DEF w

\* What is owed depends on the requests that owe it, and on no other.
LEMMA OwesSame ==
  ASSUME NEW P, IsFiniteSet(P), NEW q, NEW f, Owes(f, P, q),
         NEW O, IsFiniteSet(O), NEW p, NEW g, Owes(g, O, p),
         NEW Q, Q \subseteq P, Q \subseteq O, \A r \in Q : q[r] = p[r]
  PROVE  f[Q] = g[Q]
PROOF
<1> DEFINE G == {n \in Nat : \A R \in SUBSET Q : Cardinality(R) = n => f[R] = g[R]}
<1>1. ASSUME NEW R \in SUBSET Q
      PROVE  /\ Cardinality(R) \in Nat /\ (Cardinality(R) = 0 <=> R = {})
             /\ R # {} => /\ First(R) \in Q /\ R \ {First(R)} \in SUBSET Q
                          /\ Cardinality(R \ {First(R)}) = Cardinality(R) - 1
  <2>1. IsFiniteSet(R)
    BY FS_Subset
  <2>. QED BY <2>1, FS_CardinalityType, FS_EmptySet, WithoutFirst
<1>2. 0 \in G
  BY <1>1 DEF Owes
<1>3. ASSUME NEW n \in Nat, n \in G PROVE n + 1 \in G
  <2> SUFFICES ASSUME NEW R \in SUBSET Q, Cardinality(R) = n + 1 PROVE f[R] = g[R]
    OBVIOUS
  <2>1. /\ R # {} /\ First(R) \in Q /\ R \ {First(R)} \in SUBSET Q
        /\ Cardinality(R \ {First(R)}) = n
    <3>1. Cardinality(R) = 0 <=> R = {}
      BY <1>1
    <3>2. n + 1 # 0 /\ (n + 1) - 1 = n
      OBVIOUS
    <3>3. R # {}
      BY <3>1, <3>2
    <3>4. /\ First(R) \in Q /\ R \ {First(R)} \in SUBSET Q
          /\ Cardinality(R \ {First(R)}) = Cardinality(R) - 1
      BY <1>1, <3>3
    <3>. QED BY <3>2, <3>3, <3>4
  <2>2. f[R \ {First(R)}] = g[R \ {First(R)}]
    BY <1>3, <2>1
  <2>3. R \in SUBSET P /\ R \in SUBSET O /\ q[First(R)] = p[First(R)]
    BY <2>1
  <2>. QED BY <2>1, <2>2, <2>3 DEF Owes
<1> HIDE DEF G
<1>4. \A n \in Nat : n \in G
  BY <1>2, <1>3, Induction
<1>5. Q \in SUBSET Q
  OBVIOUS
<1>. QED BY <1>1, <1>4, <1>5 DEF G

\* The same of owed: a request that begins or ends changes it by its own XP.
LEMMA OwedNone ==
  ASSUME NEW q
  PROVE  owed({}, q) = 0
PROOF
<1>1. IsFiniteSet({})
  BY FS_EmptySet
<1>2. PICK f : Owes(f, {}, q) /\ owed({}, q) = f[{}]
  BY <1>1, OwedIs
<1>. QED BY <1>2 DEF Owes

\* What the requests owe depends on what is left of each.
LEMMA OwedSame ==
  ASSUME NEW P, IsFiniteSet(P), NEW q, NEW p, \A r \in P : q[r] = p[r]
  PROVE  owed(P, q) = owed(P, p) /\ owed(P, q) \in Nat
PROOF
<1>1. PICK f : Owes(f, P, q) /\ owed(P, q) = f[P]
  BY OwedIs
<1>2. PICK g : Owes(g, P, p) /\ owed(P, p) = g[P]
  BY OwedIs
<1>3. f[P] = g[P]
  BY <1>1, <1>2, OwesSame
<1>4. f[P] \in Nat
  BY <1>1 DEF Owes
<1>. QED BY <1>1, <1>2, <1>3, <1>4

\* One request more that owes.
LEMMA OwedOneMore ==
  ASSUME NEW P, IsFiniteSet(P), NEW x, x \notin P, NEW q, NEW p,
         \A r \in P : q[r] = p[r]
  PROVE  /\ owed(P \cup {x}, q) = owed(P, p) + xpForInteraction(q[x].answer)
         /\ owed(P, p) \in Nat
PROOF
<1> DEFINE O == P \cup {x}
<1>1. IsFiniteSet(O) /\ P \in SUBSET O /\ x \in O /\ P \subseteq P
  BY FS_AddElement
<1>2. PICK f : Owes(f, O, q) /\ owed(O, q) = f[O]
  BY <1>1, OwedIs
<1>3. PICK g : Owes(g, P, p) /\ owed(P, p) = g[P]
  BY OwedIs
<1>4. f[P] = g[P]
  BY <1>1, <1>2, <1>3, OwesSame
<1>5. f[P \cup {x}] = f[P] + xpForInteraction(q[x].answer)
  <2> HIDE DEF O
  <2>. QED BY <1>1, <1>2, OwesOneMore
<1>6. g[P] \in Nat
  BY <1>3 DEF Owes
<1>. QED BY <1>2, <1>3, <1>4, <1>5, <1>6

----------------------------------------------------------------------------
(* Requests                                                                 *)

\* While requests have not overlapped, at most one is in progress.
Alone == ~ history.overlapped =>
           \A r, q \in Requests : req[r].step # "idle" /\ req[q].step # "idle" => r = q

Record == [step : {"idle", "xp", "read", "award", "streak"},
           answer : Answers \cup {None}, rows : Nat \cup {Never},
           existing : Nat \cup {Never, None}, badge : Badges \cup {None},
           consecutive : BOOLEAN]

History == [overlapped : BOOLEAN, failed : BOOLEAN, crossed : BOOLEAN, stale : BOOLEAN,
            lostXp : Nat, activeDays : SUBSET Nat]

\* Shapes, as far as the proofs need them: of the score only that there is one.
Shaped ==
  /\ mastery \in [exists : BOOLEAN, criteriaMet : SUBSET CriterionId,
                  masteredAt : Nat \cup {Never}, score : {mastery.score}]
  /\ rows \in Seq(Answers)
  /\ streak \in [count : Nat, lastActive : Nat \cup {Never}]
  /\ day \in Nat \ {0}
  /\ left \in Budget
  /\ req \in [Requests -> Record]
  /\ history \in History

\* What a refresh has read of the date is the date it will keep.
DateRead ==
  ~ history.overlapped =>
    \A r \in Requests : req[r].step = "read" /\ req[r].existing # None
                         => req[r].existing = mastery.masteredAt

DateInv == Shaped /\ Alone /\ DateRead

\* A step of one request changes what that one has still to do, and no other.
LEMMA OneMoves ==
  ASSUME Shaped, NEW r \in Requests, NEW q \in Record, Local(r, q)
  PROVE  /\ req' \in [Requests -> Record] /\ req'[r] = q
         /\ \A p \in Requests : p # r => req'[p] = req[p]
BY DEF Shaped, Local

\* The records a request moves to.
LEMMA Records ==
  /\ Idle \in Record /\ Idle.step = "idle" /\ Idle.existing = None
  /\ \A answer \in Answers :
       \A q \in {afterXp(answer), afterRow(answer)} :
         q \in Record /\ q.step \in {"idle", "xp", "read"} /\ q.existing = None
  /\ \A badge \in Badges :
       LET q == [Idle EXCEPT !.step = "award", !.badge = badge]
       IN q \in Record /\ q.step = "award"
  /\ \A c \in BOOLEAN :
       LET q == [Idle EXCEPT !.step = "streak", !.consecutive = c]
       IN q \in Record /\ q.step = "streak" /\ q.consecutive = c
PROOF
<1>1. Idle \in Record /\ Idle.step = "idle" /\ Idle.existing = None
  BY DEF Idle, Record
<1>2. ASSUME NEW answer \in Answers, NEW step \in {"xp", "read"}
      PROVE  LET q == [Idle EXCEPT !.step = step, !.answer = answer]
             IN q \in Record /\ q.step = step /\ q.existing = None
  BY DEF Idle, Record
<1>3. ASSUME NEW answer \in Answers
      PROVE  \A q \in {afterXp(answer), afterRow(answer)} :
               q \in Record /\ q.step \in {"idle", "xp", "read"} /\ q.existing = None
  BY <1>1, <1>2 DEF afterXp, afterRow
<1>4. ASSUME NEW badge \in Badges
      PROVE  LET q == [Idle EXCEPT !.step = "award", !.badge = badge]
             IN q \in Record /\ q.step = "award"
  BY DEF Idle, Record
<1>5. ASSUME NEW c \in BOOLEAN
      PROVE  LET q == [Idle EXCEPT !.step = "streak", !.consecutive = c]
             IN q \in Record /\ q.step = "streak" /\ q.consecutive = c
  BY DEF Idle, Record
<1>. QED BY <1>1, <1>3, <1>4, <1>5

\* A request that arrives while another is in progress is noticed as such.
LEMMA Arrives ==
  ASSUME DateInv, NEW r \in Requests, NEW q \in Record, Local(r, q),
         req[r].step = "idle", history'.overlapped = Arriving(history).overlapped,
         q.step = "read" => q.existing = None, mastery' = mastery
  PROVE  Alone' /\ DateRead'
PROOF
<1>1. /\ req'[r] = q /\ \A p \in Requests : p # r => req'[p] = req[p]
  BY OneMoves DEF DateInv
<1>2. history'.overlapped = (history.overlapped \/ InProgress)
  BY DEF Arriving, DateInv, Shaped, History
<1>3. ASSUME ~ history'.overlapped
      PROVE  ~ history.overlapped /\ \A p \in Requests : p # r => req'[p].step = "idle"
  BY <1>1, <1>2, <1>3 DEF InProgress
<1>4. Alone'
  BY <1>1, <1>3 DEF Alone
<1>5. DateRead'
  BY <1>1, <1>3 DEF DateRead
<1>. QED BY <1>4, <1>5

\* A step of a request in progress starts no other.
LEMMA Continues ==
  ASSUME DateInv, NEW r \in Requests, NEW q \in Record, Local(r, q),
         req[r].step # "idle", history'.overlapped = history.overlapped
  PROVE  Alone'
PROOF
<1>1. /\ req'[r] = q /\ \A p \in Requests : p # r => req'[p] = req[p]
  BY OneMoves DEF DateInv
<1>. QED BY <1>1 DEF DateInv, Alone

\* It holds at the start.
LEMMA DateInit == Init => DateInv
PROOF
<1> SUFFICES ASSUME Init PROVE DateInv
  OBVIOUS
<1>1. Shaped
  <2>1. mastery \in [exists : BOOLEAN, criteriaMet : SUBSET CriterionId,
                    masteredAt : Nat \cup {Never}, score : {mastery.score}]
    BY DEF Init, NoMastery
  <2>2. streak \in [count : Nat, lastActive : Nat \cup {Never}]
    BY DEF Init
  <2>3. history \in History
    BY DEF Init, History
  <2>4. left \in Budget
    BY ProgressAssumption DEF Init
  <2>5. rows \in Seq(Answers) /\ day \in Nat \ {0}
    BY DEF Init
  <2>6. req \in [Requests -> Record]
    BY Records DEF Init
  <2>. QED BY <2>1, <2>2, <2>3, <2>4, <2>5, <2>6 DEF Shaped
<1>2. Alone /\ DateRead
  BY Records DEF Init, Alone, DateRead
<1>. QED BY <1>1, <1>2 DEF DateInv

----------------------------------------------------------------------------
(* The streak and the days of activity                                      *)

Run(days, d) == Cardinality({k \in 1 .. d : k .. d \subseteq days})

Pending(r) == req[r].step = "streak"

\* The days counted are days of activity up to the last one counted; a request
\* about to count has found a later one.
CountsDays ==
  /\ history.activeDays \subseteq 1 .. day
  /\ streak.lastActive # Never => streak.lastActive \in 1 .. day
  /\ streak.count <= Cardinality({d \in history.activeDays : d <= streak.lastActive})
  /\ \A r \in Requests : Pending(r) => \E d \in history.activeDays : streak.lastActive < d

\* Every day of activity is counted, or about to be.
CountsEveryDay ==
  /\ streak.lastActive # Never =>
       /\ streak.count = Run(history.activeDays, streak.lastActive)
       /\ streak.lastActive \in history.activeDays
  /\ \A d \in history.activeDays :
       d <= streak.lastActive \/ (d = day /\ \E r \in Requests : Pending(r))
  /\ \A r \in Requests : Pending(r) =>
       /\ streak.lastActive < day /\ day \in history.activeDays
       /\ req[r].consecutive <=> streak.lastActive = day - 1

StreakInv ==
  ~ history.overlapped =>
    /\ CountsDays
    /\ ~ history.failed /\ ~ history.crossed => CountsEveryDay

\* A day after the run does not change it.
LEMMA LaterDay ==
  ASSUME NEW days, NEW d \in Int, NEW e \in Int, d < e
  PROVE  Run(days \cup {e}, d) = Run(days, d)
PROOF
<1>1. ASSUME NEW k \in 1 .. d
      PROVE  k .. d \subseteq days \cup {e} <=> k .. d \subseteq days
  <2>1. e \notin k .. d
    OBVIOUS
  <2>. QED BY <2>1
<1>2. {k \in 1 .. d : k .. d \subseteq days \cup {e}} = {k \in 1 .. d : k .. d \subseteq days}
  BY <1>1
<1>. QED BY <1>2 DEF Run

\* The run starts anew after a day without activity ...
LEMMA FirstDay ==
  ASSUME NEW days, NEW d \in Nat \ {0}, d \in days, d - 1 \notin days
  PROVE  Run(days, d) = 1
PROOF
<1>1. ASSUME NEW k \in 1 .. d, k .. d \subseteq days PROVE k = d
  <2>1. k # d => d - 1 \in k .. d
    OBVIOUS
  <2>. QED BY <1>1, <2>1
<1>2. d \in 1 .. d /\ d .. d \subseteq days
  OBVIOUS
<1>3. {k \in 1 .. d : k .. d \subseteq days} = {d}
  BY <1>1, <1>2
<1>. QED BY <1>3, FS_Singleton DEF Run

\* ... and goes on after a day with activity.
LEMMA NextDayOfRun ==
  ASSUME NEW days, NEW d \in Nat \ {0}, d \in days
  PROVE  Run(days, d) = Run(days, d - 1) + 1
PROOF
<1> DEFINE S == {k \in 1 .. d - 1 : k .. d - 1 \subseteq days}
           T == {k \in 1 .. d : k .. d \subseteq days}
<1>1. IsFiniteSet(S)
  <2>1. IsFiniteSet(1 .. d - 1)
    BY FS_Interval
  <2>. QED BY <2>1, FS_Subset
<1>2. d \notin S
  OBVIOUS
<1>3. T = S \cup {d}
  <2>1. ASSUME NEW k \in T PROVE k \in S \cup {d}
    <3>1. k # d => k \in 1 .. d - 1 /\ k .. d - 1 \subseteq k .. d
      OBVIOUS
    <3>. QED BY <3>1
  <2>2. ASSUME NEW k \in S PROVE k \in T
    <3>1. k \in 1 .. d /\ k .. d \subseteq (k .. d - 1) \cup {d}
      OBVIOUS
    <3>. QED BY <3>1
  <2>3. d \in T
    OBVIOUS
  <2>. QED BY <2>1, <2>2, <2>3
<1> HIDE DEF S, T
<1>4. Cardinality(T) = Cardinality(S) + 1
  BY <1>1, <1>2, <1>3, FS_AddElement
<1>. QED BY <1>4 DEF Run, S, T

\* What the counted days may be at most grows with the last one counted.
LEMMA MoreDays ==
  ASSUME NEW n \in Nat, NEW days, days \subseteq 1 .. n, NEW c \in Nat,
         NEW last \in Int, NEW d \in days, last < d,
         c <= Cardinality({x \in days : x <= last})
  PROVE  c + 1 <= Cardinality({x \in days : x <= n}) /\ 1 <= Cardinality({x \in days : x <= n})
PROOF
<1> DEFINE S == {x \in days : x <= last}
           T == {x \in days : x <= n}
<1>1. IsFiniteSet(days)
  <2>1. IsFiniteSet(1 .. n)
    BY FS_Interval
  <2>. QED BY <2>1, FS_Subset
<1>2. IsFiniteSet(S) /\ IsFiniteSet(T)
  BY <1>1, FS_Subset
<1>3. d \notin S /\ S \cup {d} \subseteq T
  <2>1. \A x \in days : x \in Int /\ x <= n
    OBVIOUS
  <2>2. d \notin S
    BY <2>1
  <2>3. T = days /\ S \subseteq days
    BY <2>1
  <2>. QED BY <2>2, <2>3
<1> HIDE DEF S, T
<1>4. IsFiniteSet(S \cup {d}) /\ Cardinality(S \cup {d}) = Cardinality(S) + 1
  BY <1>2, <1>3, FS_AddElement
<1>5. Cardinality(S \cup {d}) <= Cardinality(T)
  BY <1>2, <1>3, FS_Subset
<1>6. Cardinality(S) \in Nat /\ Cardinality(T) \in Nat
  BY <1>2, FS_CardinalityType
<1>7. c <= Cardinality(S)
  BY DEF S
<1>8. c + 1 <= Cardinality(T) /\ 1 <= Cardinality(T)
  BY <1>4, <1>5, <1>6, <1>7
<1>. QED BY <1>8 DEF T

ProgressInv == DateInv /\ StreakInv

\* A step that leaves the streak, the day and the days of activity alone, and
\* starts or ends no count unless it fails.
LEMMA StreakKept ==
  ASSUME ProgressInv, streak' = streak, day' = day,
         history'.activeDays = history.activeDays, history'.crossed = history.crossed,
         history.overlapped => history'.overlapped, history.failed => history'.failed,
         ~ history'.overlapped =>
           \A r \in Requests :
             /\ Pending(r)' => Pending(r) /\ req'[r].consecutive = req[r].consecutive
             /\ Pending(r) => Pending(r)' \/ history'.failed
  PROVE  StreakInv'
PROOF
<1> SUFFICES ASSUME ~ history'.overlapped
             PROVE  CountsDays' /\ (~ history'.failed /\ ~ history'.crossed => CountsEveryDay')
  BY DEF StreakInv
<1>1. /\ ~ history.overlapped /\ CountsDays
      /\ ~ history.failed /\ ~ history.crossed => CountsEveryDay
  BY DEF ProgressInv, StreakInv
<1>2. CountsDays'
  BY <1>1 DEF CountsDays
<1>3. ASSUME ~ history'.failed, ~ history'.crossed PROVE CountsEveryDay'
  <2>1. CountsEveryDay
    BY <1>1, <1>3
  <2>. QED BY <1>3, <2>1 DEF CountsEveryDay
<1>. QED BY <1>2, <1>3

\* The same for a request that arrives or continues with something else.
LEMMA OtherWork ==
  ASSUME ProgressInv, NEW r \in Requests, NEW q \in Record, Local(r, q),
         q.step # "streak", ~ Pending(r) \/ history'.failed,
         streak' = streak, day' = day,
         history'.activeDays = history.activeDays, history'.crossed = history.crossed,
         history.overlapped => history'.overlapped, history.failed => history'.failed
  PROVE  StreakInv'
PROOF
<1>1. /\ req'[r] = q /\ \A p \in Requests : p # r => req'[p] = req[p]
  BY OneMoves DEF ProgressInv, DateInv
<1>2. \A p \in Requests :
        /\ Pending(p)' => Pending(p) /\ req'[p].consecutive = req[p].consecutive
        /\ Pending(p) => Pending(p)' \/ history'.failed
  BY <1>1 DEF Pending
<1>. QED BY <1>2, StreakKept

\* Creating a session, and counting its day or finding it counted.
LEMMA StreakReads ==
  ASSUME ProgressInv, NEW r \in Requests, StreakRead(r), Alone', Shaped'
  PROVE  StreakInv'
PROOF
<1> SUFFICES ASSUME ~ history'.overlapped
             PROVE  CountsDays' /\ (~ history'.failed /\ ~ history'.crossed => CountsEveryDay')
  BY DEF StreakInv
<1> DEFINE days == history.activeDays
           last == streak.lastActive
<1>1. /\ history \in History /\ day \in Nat \ {0} /\ streak.count \in Nat
      /\ last \in Nat \cup {Never} /\ last \in Int
  BY DEF ProgressInv, DateInv, Shaped, Never
<1>2. /\ history'.overlapped = (history.overlapped \/ InProgress)
      /\ history'.failed = history.failed /\ history'.crossed = history.crossed
      /\ history'.activeDays = days \cup {day}
      /\ streak' = streak /\ day' = day
  BY <1>1 DEF StreakRead, Arriving, History
<1>3. ~ history.overlapped /\ \A p \in Requests : ~ Pending(p)
  BY <1>2 DEF InProgress, Pending
<1>4. /\ CountsDays
      /\ ~ history.failed /\ ~ history.crossed => CountsEveryDay
  BY <1>3 DEF ProgressInv, StreakInv
<1>5. /\ days \subseteq 1 .. day
      /\ last # Never => last \in 1 .. day
      /\ streak.count <= Cardinality({d \in days : d <= last})
  BY <1>4 DEF CountsDays
<1>6. /\ \A p \in Requests : Pending(p)' => p = r
      /\ Pending(r)' => /\ last # day
                        /\ req'[r].consecutive <=> last = day - 1
      /\ ~ Pending(r)' => last = day
  <2> DEFINE c == (streak.lastActive = day - 1)
             q == [Idle EXCEPT !.step = "streak", !.consecutive = c]
  <2>1. /\ Idle \in Record /\ Idle.step = "idle"
        /\ c \in BOOLEAN /\ q \in Record /\ q.step = "streak" /\ q.consecutive = c
    BY Records
  <2>2. CASE last = day
    <3>1. Local(r, Idle)
      BY <2>2 DEF StreakRead, countedToday, Finish
    <3>. QED BY <1>3, <2>1, <2>2, <3>1, OneMoves DEF Pending, ProgressInv, DateInv
  <2>3. CASE last # day
    <3>1. Local(r, q)
      BY <2>3 DEF StreakRead, countedToday
    <3> HIDE DEF q
    <3>2. req'[r] = q /\ \A p \in Requests : p # r => req'[p] = req[p]
      BY <2>1, <3>1, OneMoves DEF ProgressInv, DateInv
    <3>. QED BY <1>3, <2>1, <2>3, <3>2 DEF Pending
  <2>. QED BY <2>2, <2>3
<1> HIDE DEF days, last
<1>7. last <= day
  BY <1>1, <1>5 DEF Never
<1>8. CountsDays'
  <2>1. streak.count <= Cardinality({d \in days \cup {day} : d <= last})
    <3>1. CASE last < day
      <4>1. {d \in days \cup {day} : d <= last} = {d \in days : d <= last}
        BY <1>1, <3>1
      <4>. QED BY <1>5, <4>1
    <3>2. CASE last = day
      <4>1. /\ IsFiniteSet(1 .. day) /\ days \cup {day} \subseteq 1 .. day
        <5>1. day \in Int /\ day \in 1 .. day
          BY <1>1
        <5>. QED BY <1>5, <5>1, FS_Interval
      <4>2. IsFiniteSet({d \in days \cup {day} : d <= last})
        BY <4>1, FS_Subset
      <4>3. {d \in days : d <= last} \subseteq {d \in days \cup {day} : d <= last}
        OBVIOUS
      <4>4. /\ IsFiniteSet({d \in days : d <= last})
            /\ Cardinality({d \in days : d <= last})
                 <= Cardinality({d \in days \cup {day} : d <= last})
        BY <4>2, <4>3, FS_Subset
      <4>5. /\ Cardinality({d \in days : d <= last}) \in Nat
            /\ Cardinality({d \in days \cup {day} : d <= last}) \in Nat
        BY <4>2, <4>4, FS_CardinalityType
      <4>. QED BY <1>1, <1>5, <4>4, <4>5
    <3>. QED BY <1>1, <1>7, <3>1, <3>2
  <2>2. \A p \in Requests : Pending(p)' => \E d \in days \cup {day} : last < d
    BY <1>1, <1>6, <1>7
  <2>. QED BY <1>1, <1>2, <1>5, <2>1, <2>2 DEF CountsDays, days, last
<1>9. ASSUME ~ history'.failed, ~ history'.crossed PROVE CountsEveryDay'
  <2>1. CountsEveryDay
    BY <1>2, <1>4, <1>9
  <2>2. /\ last # Never => streak.count = Run(days, last) /\ last \in days
        /\ \A d \in days : d <= last
    BY <1>3, <2>1 DEF CountsEveryDay, days, last
  <2>3. last # Never => streak.count = Run(days \cup {day}, last) /\ last \in days \cup {day}
    <3>1. CASE last = day
      <4>1. last # Never => days \cup {day} = days
        BY <2>2, <3>1
      <4>. QED BY <2>2, <4>1
    <3>2. CASE last < day
      BY <1>1, <2>2, <3>2, LaterDay
    <3>. QED BY <1>1, <1>7, <3>1, <3>2
  <2>4. \A d \in days \cup {day} : d <= last \/ (d = day /\ \E p \in Requests : Pending(p)')
    <3>1. last = day \/ Pending(r)'
      BY <1>6
    <3>. QED BY <1>1, <2>2, <3>1
  <2>5. \A p \in Requests : Pending(p)' =>
          /\ last < day /\ day \in days \cup {day}
          /\ req'[p].consecutive <=> last = day - 1
    BY <1>1, <1>6, <1>7
  <2>. QED BY <1>2, <2>3, <2>4, <2>5 DEF CountsEveryDay, days, last
<1>. QED BY <1>8, <1>9

\* Writing the streak.
LEMMA StreakWrites ==
  ASSUME ProgressInv, NEW r \in Requests, StreakWrite(r)
  PROVE  StreakInv'
PROOF
<1> SUFFICES ASSUME ~ history'.overlapped
             PROVE  CountsDays' /\ (~ history'.failed /\ ~ history'.crossed => CountsEveryDay')
  BY DEF StreakInv
<1> DEFINE days == history.activeDays
           last == streak.lastActive
<1>1. /\ history \in History /\ day \in Nat \ {0} /\ streak.count \in Nat
      /\ last \in Nat \cup {Never} /\ last \in Int
  BY DEF ProgressInv, DateInv, Shaped, Never
<1>2. history' = history /\ day' = day /\ Pending(r)
  BY DEF StreakWrite, Pending
<1>3. /\ streak'.count = IF req[r].consecutive THEN streak.count + 1 ELSE 1
      /\ streak'.lastActive = day
  BY DEF StreakWrite
<1>4. /\ CountsDays
      /\ ~ history.failed /\ ~ history.crossed => CountsEveryDay
      /\ Alone /\ ~ history.overlapped
  BY <1>2 DEF ProgressInv, DateInv, StreakInv
<1>5. \A p \in Requests : ~ Pending(p)'
  <2>1. \A p \in Requests : p # r => ~ Pending(p)
    BY <1>2, <1>4 DEF Alone, Pending
  <2>2. Idle \in Record /\ Idle.step = "idle" /\ Local(r, Idle)
    BY Records DEF StreakWrite, Finish
  <2>3. req'[r] = Idle /\ \A p \in Requests : p # r => req'[p] = req[p]
    BY <2>2, OneMoves DEF ProgressInv, DateInv
  <2>. QED BY <2>1, <2>2, <2>3 DEF Pending
<1>6. PICK d \in days : last < d
  BY <1>2, <1>4 DEF CountsDays
<1>7. /\ days \subseteq 1 .. day
      /\ streak.count <= Cardinality({x \in days : x <= last})
  BY <1>4 DEF CountsDays
<1> HIDE DEF days, last
<1>8. /\ streak.count + 1 <= Cardinality({x \in days : x <= day})
      /\ 1 <= Cardinality({x \in days : x <= day})
  BY <1>1, <1>6, <1>7, MoreDays
<1>9. CountsDays'
  <2>1. streak'.count <= Cardinality({x \in days : x <= streak'.lastActive})
    BY <1>3, <1>8
  <2>. QED BY <1>1, <1>2, <1>3, <1>5, <1>7, <2>1 DEF CountsDays, days
<1>10. ASSUME ~ history'.failed, ~ history'.crossed PROVE CountsEveryDay'
  <2>1. CountsEveryDay
    BY <1>2, <1>4, <1>10
  <2>2. /\ last < day /\ day \in days
        /\ req[r].consecutive <=> last = day - 1
    BY <1>2, <2>1 DEF CountsEveryDay, days, last
  <2>3. /\ last # Never => streak.count = Run(days, last)
        /\ last # Never => last \in days
        /\ \A x \in days : x <= last \/ x = day
    BY <2>1 DEF CountsEveryDay, days, last
  <2>4. streak'.count = Run(days, day)
    <3>1. CASE last = day - 1
      <4>1. last # Never
        BY <1>1, <3>1 DEF Never
      <4>2. Run(days, day) = Run(days, day - 1) + 1
        BY <1>1, <2>2, NextDayOfRun
      <4>. QED BY <1>3, <2>2, <2>3, <3>1, <4>1, <4>2
    <3>2. CASE last # day - 1
      <4>1. day - 1 \notin days
        BY <1>1, <2>2, <2>3, <3>2
      <4>2. Run(days, day) = 1
        BY <1>1, <2>2, <4>1, FirstDay
      <4>. QED BY <1>3, <2>2, <3>2, <4>2
    <3>. QED BY <3>1, <3>2
  <2>5. \A x \in days : x <= day
    BY <1>1, <1>7
  <2>. QED BY <1>2, <1>3, <1>5, <2>2, <2>4, <2>5 DEF CountsEveryDay, days
<1>. QED BY <1>9, <1>10

\* Midnight.
LEMMA StreakNight ==
  ASSUME ProgressInv, NextDay
  PROVE  StreakInv'
PROOF
<1> SUFFICES ASSUME ~ history'.overlapped
             PROVE  CountsDays' /\ (~ history'.failed /\ ~ history'.crossed => CountsEveryDay')
  BY DEF StreakInv
<1>1. history \in History /\ day \in Nat \ {0}
  BY DEF ProgressInv, DateInv, Shaped
<1>2. /\ history'.overlapped = history.overlapped /\ history'.failed = history.failed
      /\ history'.crossed = (history.crossed \/ \E r \in Requests : Pending(r))
      /\ history'.activeDays = history.activeDays
      /\ streak' = streak /\ day' = day + 1 /\ req' = req
  BY <1>1 DEF NextDay, History, Pending
<1>3. /\ CountsDays
      /\ ~ history.failed /\ ~ history.crossed => CountsEveryDay
  BY <1>2 DEF ProgressInv, StreakInv
<1>4. 1 .. day \subseteq 1 .. day + 1
  BY <1>1
<1>5. CountsDays'
  BY <1>2, <1>3, <1>4 DEF CountsDays, Pending
<1>6. ASSUME ~ history'.failed, ~ history'.crossed PROVE CountsEveryDay'
  <2>1. CountsEveryDay /\ \A r \in Requests : ~ Pending(r)
    BY <1>2, <1>3, <1>6
  <2>2. \A r \in Requests : ~ Pending(r)'
    BY <1>2, <2>1 DEF Pending
  <2>. QED BY <1>2, <2>1, <2>2 DEF CountsEveryDay
<1>. QED BY <1>5, <1>6

----------------------------------------------------------------------------
(* Every step                                                               *)

\* Every step keeps the invariant of the date and the streak.
LEMMA ProgressStep == ProgressInv /\ [Next]_vars => ProgressInv'
PROOF
<1> SUFFICES ASSUME ProgressInv, [Next]_vars PROVE ProgressInv'
  OBVIOUS
<1>1. /\ DateInv /\ Shaped /\ Alone /\ DateRead
      /\ mastery \in [exists : BOOLEAN, criteriaMet : SUBSET CriterionId,
                      masteredAt : Nat \cup {Never}, score : {mastery.score}]
      /\ rows \in Seq(Answers) /\ Len(rows) \in Nat
      /\ streak \in [count : Nat, lastActive : Nat \cup {Never}]
      /\ day \in Nat \ {0} /\ left \in Budget
      /\ req \in [Requests -> Record] /\ history \in History
  BY DEF ProgressInv, DateInv, Shaped
<1>2. \A r \in Requests : /\ req[r] \in Record /\ req[r].answer \in Answers \cup {None}
                           /\ req[r].consecutive \in BOOLEAN
  BY <1>1 DEF Record
<1>3. ASSUME NEW kind \in {"rows", "awards", "starts", "ends", "nights"}, Spend(kind)
      PROVE  left' \in Budget
  BY <1>1, <1>3 DEF Spend, Budget
<1>4. \A h \in History : /\ Arriving(h) \in History
                          /\ Arriving(h).overlapped = (h.overlapped \/ InProgress)
                          /\ Arriving(h).activeDays = h.activeDays
                          /\ Arriving(h).failed = h.failed /\ Arriving(h).crossed = h.crossed
  BY DEF Arriving, History
<1>5. ASSUME NEW r \in Requests, NEW answer \in Answers, LogRow(r, answer) PROVE ProgressInv'
  <2> DEFINE q == afterRow(answer)
  <2>1. /\ q \in Record /\ q.step \in {"idle", "xp", "read"} /\ q.existing = None
        /\ Local(r, q) /\ req[r].step = "idle"
    BY <1>5, Records DEF LogRow
  <2>2. /\ history' \in History /\ history'.overlapped = Arriving(history).overlapped
        /\ history'.activeDays = history.activeDays /\ history'.crossed = history.crossed
        /\ history'.failed = history.failed
        /\ history.overlapped => history'.overlapped
    <3>1. feedsMastery(answer) \in BOOLEAN
      BY DEF feedsMastery
    <3> HIDE DEF q
    <3>. QED BY <1>1, <1>4, <1>5, <3>1 DEF LogRow, History
  <2>3. rows' \in Seq(Answers)
    BY <1>1, <1>5 DEF LogRow
  <2> HIDE DEF q
  <2>4. req' \in [Requests -> Record]
    BY <1>1, <2>1, OneMoves
  <2>5. /\ mastery' = mastery /\ streak' = streak /\ day' = day /\ left' \in Budget
    BY <1>3, <1>5 DEF LogRow
  <2>6. Shaped'
    BY <1>1, <2>2, <2>3, <2>4, <2>5 DEF Shaped
  <2>7. Alone' /\ DateRead'
    BY <1>1, <2>1, <2>2, <2>5, Arrives
  <2>8. StreakInv'
    <3>1. q.step # "streak" /\ ~ Pending(r)
      BY <2>1 DEF Pending
    <3>. QED BY <2>1, <2>2, <2>5, <3>1, OtherWork
  <2>. QED BY <2>6, <2>7, <2>8 DEF ProgressInv, DateInv
<1>6. ASSUME NEW r \in Requests, NEW badge \in Badges, AwardRead(r, badge) PROVE ProgressInv'
  <2> DEFINE q == [Idle EXCEPT !.step = "award", !.badge = badge]
  <2>1. q \in Record /\ q.step = "award" /\ Local(r, q) /\ req[r].step = "idle"
    BY <1>6, Records DEF AwardRead
  <2> HIDE DEF q
  <2>2. /\ history' = Arriving(history) /\ history' \in History
        /\ history'.activeDays = history.activeDays /\ history'.crossed = history.crossed
        /\ history'.failed = history.failed
        /\ history.overlapped => history'.overlapped
    BY <1>1, <1>4, <1>6 DEF AwardRead
  <2>3. req' \in [Requests -> Record]
    BY <1>1, <2>1, OneMoves
  <2>4. /\ mastery' = mastery /\ streak' = streak /\ day' = day /\ rows' = rows
        /\ left' \in Budget
    BY <1>3, <1>6 DEF AwardRead
  <2>5. Shaped'
    BY <1>1, <2>2, <2>3, <2>4 DEF Shaped
  <2>6. Alone' /\ DateRead'
    BY <1>1, <2>1, <2>2, <2>4, Arrives
  <2>7. StreakInv'
    <3>1. q.step # "streak" /\ ~ Pending(r)
      BY <2>1 DEF Pending
    <3>. QED BY <2>1, <2>2, <2>4, <3>1, OtherWork
  <2>. QED BY <2>5, <2>6, <2>7 DEF ProgressInv, DateInv
<1>7. ASSUME NEW r \in Requests, StreakRead(r) PROVE ProgressInv'
  <2>1. PICK q \in Record : Local(r, q) /\ q.step # "read"
    <3> DEFINE c == (streak.lastActive = day - 1)
               s == [Idle EXCEPT !.step = "streak", !.consecutive = c]
    <3>1. /\ Idle \in Record /\ Idle.step = "idle"
          /\ c \in BOOLEAN /\ s \in Record /\ s.step = "streak"
      BY Records
    <3>2. Local(r, Idle) \/ Local(r, s)
      BY <1>7 DEF StreakRead, Finish
    <3> HIDE DEF s
    <3>. QED BY <3>1, <3>2
  <2>2. /\ history' = [Arriving(history) EXCEPT !.activeDays = @ \cup {day}]
        /\ req[r].step = "idle" /\ mastery' = mastery /\ streak' = streak /\ day' = day
        /\ rows' = rows /\ left' \in Budget
    BY <1>3, <1>7 DEF StreakRead
  <2>3. history' \in History /\ history'.overlapped = Arriving(history).overlapped
    BY <1>1, <1>4, <2>2 DEF History
  <2>4. req' \in [Requests -> Record]
    BY <1>1, <2>1, OneMoves
  <2>5. Shaped'
    BY <1>1, <2>2, <2>3, <2>4 DEF Shaped
  <2>6. Alone' /\ DateRead'
    BY <1>1, <2>1, <2>2, <2>3, Arrives
  <2>7. StreakInv'
    BY <1>7, <2>5, <2>6, StreakReads
  <2>. QED BY <2>5, <2>6, <2>7 DEF ProgressInv, DateInv
\* A request in progress goes on with something other than the streak or the date.
<1>8. ASSUME NEW r \in Requests, NEW q \in Record, Local(r, q), req[r].step # "idle",
             mastery' = mastery, rows' = rows, day' = day, left' = left, streak' = streak,
             history' \in History, history'.overlapped = history.overlapped,
             history'.activeDays = history.activeDays, history'.crossed = history.crossed,
             history.failed => history'.failed, ~ Pending(r) \/ history'.failed,
             q.step # "streak",
             q.step = "read" /\ q.existing # None => q.existing \in {req[r].existing, mastery.masteredAt},
             q.step = "read" /\ q.existing # None /\ q.existing = req[r].existing => req[r].step = "read"
      PROVE  ProgressInv'
  <2>1. /\ req' \in [Requests -> Record] /\ req'[r] = q
        /\ \A p \in Requests : p # r => req'[p] = req[p]
    BY <1>1, <1>8, OneMoves
  <2>2. Shaped'
    BY <1>1, <1>8, <2>1 DEF Shaped
  <2>3. Alone'
    BY <1>1, <1>8, Continues
  <2>4. DateRead'
    BY <1>1, <1>8, <2>1 DEF DateRead
  <2>5. StreakInv'
    BY <1>8, OtherWork
  <2>. QED BY <2>2, <2>3, <2>4, <2>5 DEF ProgressInv, DateInv
<1>9. ASSUME NEW r \in Requests, LogXp(r) PROVE ProgressInv'
  <2>1. req[r].step = "xp" /\ ~ Pending(r)
    BY <1>9 DEF LogXp, Pending
  <2>2. PICK q \in Record : Local(r, q) /\ q.step \in {"idle", "read"} /\ q.existing = None
    <3>1. Local(r, afterXp(req[r].answer))
      BY <1>9 DEF LogXp
    <3>2. CASE req[r].answer \in Answers
      <4>1. /\ afterXp(req[r].answer) \in Record
            /\ afterXp(req[r].answer).step \in {"idle", "xp", "read"}
            /\ afterXp(req[r].answer).existing = None
        BY <3>2, Records
      <4>2. afterXp(req[r].answer).step # "xp"
        BY DEF afterXp, Idle
      <4>. QED BY <3>1, <4>1, <4>2
    <3>3. CASE req[r].answer = None
      <4>1. /\ [Idle EXCEPT !.step = "read", !.answer = None] \in Record
            /\ [Idle EXCEPT !.step = "read", !.answer = None].step = "read"
            /\ [Idle EXCEPT !.step = "read", !.answer = None].existing = None
        BY DEF Idle, Record
      <4>. QED BY <3>1, <3>3, <4>1, Records DEF afterXp
    <3>. QED BY <1>2, <3>2, <3>3
  <2>3. /\ mastery' = mastery /\ rows' = rows /\ day' = day /\ left' = left
        /\ streak' = streak /\ history' = history
    BY <1>9 DEF LogXp
  <2>. QED BY <1>1, <1>8, <2>1, <2>2, <2>3
<1>10. ASSUME NEW r \in Requests, RefreshReadRows(r) PROVE ProgressInv'
  <2> DEFINE q == [req[r] EXCEPT !.rows = Len(rows)]
  <2>1. /\ q \in Record /\ q.step = "read" /\ q.existing = req[r].existing
        /\ req[r].step = "read" /\ Local(r, q) /\ ~ Pending(r)
    <3>1. \A x \in Record, n \in Nat :
            LET y == [x EXCEPT !.rows = n]
            IN y \in Record /\ y.step = x.step /\ y.existing = x.existing
      BY DEF Record
    <3>2. req[r].step = "read" /\ Local(r, q)
      BY <1>10 DEF RefreshReadRows
    <3>. QED BY <1>1, <1>2, <3>1, <3>2 DEF Pending
  <2>2. /\ mastery' = mastery /\ rows' = rows /\ day' = day /\ left' = left
        /\ streak' = streak /\ history' = history
    BY <1>10 DEF RefreshReadRows
  <2> HIDE DEF q
  <2>. QED BY <1>1, <1>8, <2>1, <2>2
<1>11. ASSUME NEW r \in Requests, RefreshReadDate(r) PROVE ProgressInv'
  <2> DEFINE q == [req[r] EXCEPT !.existing = mastery.masteredAt]
  <2>1. /\ q \in Record /\ q.step = "read" /\ q.existing = mastery.masteredAt
        /\ req[r].step = "read" /\ Local(r, q) /\ ~ Pending(r)
    BY <1>1, <1>2, <1>11 DEF RefreshReadDate, Record, Pending
  <2>2. /\ mastery' = mastery /\ rows' = rows /\ day' = day /\ left' = left
        /\ streak' = streak /\ history' = history
    BY <1>11 DEF RefreshReadDate
  <2> HIDE DEF q
  <2>. QED BY <1>1, <1>8, <2>1, <2>2
<1>12. ASSUME NEW r \in Requests, AwardWrite(r) PROVE ProgressInv'
  <2>1. /\ Idle \in Record /\ Idle.step = "idle" /\ Local(r, Idle)
        /\ req[r].step = "award" /\ ~ Pending(r)
    BY <1>12, Records DEF AwardWrite, Finish, Pending
  <2>2. /\ mastery' = mastery /\ rows' = rows /\ day' = day /\ left' = left
        /\ streak' = streak /\ history' = history
    BY <1>12 DEF AwardWrite
  <2>. QED BY <1>1, <1>8, <2>1, <2>2
<1>13. ASSUME NEW r \in Requests, Fail(r) PROVE ProgressInv'
  <2>1. /\ Idle \in Record /\ Idle.step = "idle" /\ Local(r, Idle) /\ req[r].step # "idle"
    BY <1>13, Records DEF Fail, Finish
  <2>2. /\ mastery' = mastery /\ rows' = rows /\ day' = day /\ left' = left
        /\ streak' = streak
    BY <1>13 DEF Fail
  <2>3. /\ history' \in History /\ history'.overlapped = history.overlapped
        /\ history'.activeDays = history.activeDays /\ history'.crossed = history.crossed
        /\ history'.failed
    <3>1. xpForInteraction(req[r].answer) \in Nat
      BY DEF xpForInteraction
    <3> DEFINE n == IF req[r].step = "xp" THEN xpForInteraction(req[r].answer) ELSE 0
               m == history.lostXp + n
    <3>2. n \in Nat /\ history' = [history EXCEPT !.failed = TRUE, !.lostXp = m]
      BY <1>13, <3>1 DEF Fail
    <3>3. history.lostXp \in Nat
      BY <1>1 DEF History
    <3>4. m \in Nat
      BY <3>2, <3>3
    <3> HIDE DEF n, m
    <3>. QED BY <1>1, <3>2, <3>4 DEF History
  <2>. QED BY <1>8, <2>1, <2>2, <2>3
<1>14. ASSUME NEW r \in Requests, RefreshWrite(r) PROVE ProgressInv'
  <2>1. /\ Idle \in Record /\ Idle.step = "idle" /\ Local(r, Idle)
        /\ req[r].step = "read" /\ ~ Pending(r) /\ req[r].existing # None
    BY <1>14, Records DEF RefreshWrite, Finish, Pending
  <2>2. /\ rows' = rows /\ day' = day /\ left' = left /\ streak' = streak
        /\ history' = [history EXCEPT !.stale = FALSE]
    BY <1>14 DEF RefreshWrite
  <2>3. /\ history' \in History /\ history'.overlapped = history.overlapped
        /\ history'.activeDays = history.activeDays /\ history'.crossed = history.crossed
        /\ history'.failed = history.failed
    BY <1>1, <2>2 DEF History
  <2>4. /\ req' \in [Requests -> Record] /\ req'[r] = Idle
        /\ \A p \in Requests : p # r => req'[p] = req[p]
    BY <1>1, <2>1, OneMoves
  <2>5. mastery' \in [exists : BOOLEAN, criteriaMet : SUBSET CriterionId,
                     masteredAt : Nat \cup {Never}, score : {mastery'.score}]
    <3> DEFINE met == computeMastery(SubSeq(rows, 1, req[r].rows))
               at == masteredDate(req[r].existing, meetsEveryCriterion(met), Len(rows))
               score == IF mastery.exists THEN mastery.score
                        ELSE scoreOf(SubSeq(rows, 1, req[r].rows))
    <3>1. mastery' = [exists |-> TRUE, criteriaMet |-> met, masteredAt |-> at, score |-> score]
      BY <1>14 DEF RefreshWrite
    <3>2. met \subseteq CriterionId
      BY DEF computeMastery
    <3>3. at \in Nat \cup {Never}
      <4>1. req[r].existing \in Nat \cup {Never, None}
        BY <1>2 DEF Record
      <4>. QED BY <1>1, <2>1, <4>1 DEF masteredDate
    <3> HIDE DEF met, at, score
    <3>. QED BY <3>1, <3>2, <3>3
  <2>6. Shaped'
    BY <1>1, <2>2, <2>3, <2>4, <2>5 DEF Shaped
  <2>7. Alone'
    BY <1>1, <2>1, <2>3, Continues
  <2>8. DateRead'
    <3>1. ~ history.overlapped => \A p \in Requests : req'[p].step = "idle"
      BY <1>1, <2>1, <2>4 DEF Alone
    <3>. QED BY <2>3, <3>1 DEF DateRead
  <2>9. StreakInv'
    BY <2>1, <2>2, <2>3, OtherWork
  <2>. QED BY <2>6, <2>7, <2>8, <2>9 DEF ProgressInv, DateInv
<1>15. ASSUME NEW r \in Requests, StreakWrite(r) PROVE ProgressInv'
  <2>1. /\ Idle \in Record /\ Idle.step = "idle" /\ Local(r, Idle) /\ req[r].step = "streak"
    BY <1>15, Records DEF StreakWrite, Finish
  <2>2. /\ mastery' = mastery /\ rows' = rows /\ day' = day /\ left' = left
        /\ history' = history
        /\ streak' = [count |-> IF req[r].consecutive THEN streak.count + 1 ELSE 1,
                      lastActive |-> day]
    BY <1>15 DEF StreakWrite
  <2>3. /\ req' \in [Requests -> Record] /\ req'[r] = Idle
        /\ \A p \in Requests : p # r => req'[p] = req[p]
    BY <1>1, <2>1, OneMoves
  <2>4. streak' \in [count : Nat, lastActive : Nat \cup {Never}]
    BY <1>1, <2>2
  <2>5. Shaped'
    BY <1>1, <2>2, <2>3, <2>4 DEF Shaped
  <2>6. Alone'
    BY <1>1, <2>1, <2>2, Continues
  <2>7. DateRead'
    BY <1>1, <2>1, <2>2, <2>3 DEF DateRead
  <2>8. StreakInv'
    BY <1>15, StreakWrites
  <2>. QED BY <2>5, <2>6, <2>7, <2>8 DEF ProgressInv, DateInv
<1>16. ASSUME NEW score \in {0, 100}, SessionEnd(score) PROVE ProgressInv'
  <2>1. /\ rows' = rows /\ day' = day /\ streak' = streak /\ history' = history /\ req' = req
        /\ mastery' = [mastery EXCEPT !.exists = TRUE, !.score = score] /\ left' \in Budget
    BY <1>3, <1>16 DEF SessionEnd
  <2>2. /\ mastery' \in [exists : BOOLEAN, criteriaMet : SUBSET CriterionId,
                        masteredAt : Nat \cup {Never}, score : {mastery'.score}]
        /\ mastery'.masteredAt = mastery.masteredAt
    BY <1>1, <2>1
  <2>3. Shaped' /\ Alone' /\ DateRead'
    BY <1>1, <2>1, <2>2 DEF Shaped, Alone, DateRead
  <2>4. StreakInv'
    BY <2>1, StreakKept DEF Pending
  <2>. QED BY <2>3, <2>4 DEF ProgressInv, DateInv
<1>17. CASE NextDay
  <2>1. /\ rows' = rows /\ day' = day + 1 /\ streak' = streak /\ req' = req
        /\ mastery' = mastery /\ left' \in Budget
        /\ history' = [history EXCEPT !.crossed =
                         @ \/ \E r \in Requests : req[r].step = "streak"]
    BY <1>3, <1>17 DEF NextDay
  <2>2. history' \in History /\ history'.overlapped = history.overlapped
    BY <1>1, <2>1 DEF History
  <2>3. Shaped' /\ Alone' /\ DateRead'
    BY <1>1, <2>1, <2>2 DEF Shaped, Alone, DateRead
  <2>4. StreakInv'
    BY <1>17, StreakNight
  <2>. QED BY <2>3, <2>4 DEF ProgressInv, DateInv
<1>18. CASE UNCHANGED vars
  <2>1. /\ rows' = rows /\ day' = day /\ streak' = streak /\ history' = history /\ req' = req
        /\ mastery' = mastery /\ left' = left
    BY <1>18 DEF vars
  <2>2. Shaped' /\ Alone' /\ DateRead'
    BY <1>1, <2>1 DEF Shaped, Alone, DateRead
  <2>3. StreakInv'
    BY <2>1, StreakKept DEF Pending
  <2>. QED BY <2>2, <2>3 DEF ProgressInv, DateInv
<1>. QED BY <1>5, <1>6, <1>7, <1>9, <1>10, <1>11, <1>12, <1>13, <1>14, <1>15, <1>16, <1>17,
            <1>18 DEF Next

\* It holds at the start.
LEMMA ProgressInit == Init => ProgressInv
PROOF
<1> SUFFICES ASSUME Init PROVE ProgressInv
  OBVIOUS
<1>1. DateInv
  BY DateInit
<1>2. /\ history.activeDays = {} /\ streak.count = 0 /\ streak.lastActive = Never
      /\ \A r \in Requests : ~ Pending(r)
  BY Records DEF Init, Pending
<1>3. Cardinality({d \in history.activeDays : d <= streak.lastActive}) = 0
  BY <1>2, FS_EmptySet
<1>4. CountsDays
  BY <1>2, <1>3 DEF CountsDays
<1>5. CountsEveryDay
  BY <1>2 DEF CountsEveryDay
<1>. QED BY <1>1, <1>4, <1>5 DEF ProgressInv, StreakInv

\* refreshTopicMastery, for a student whose requests never overlap, whatever
\* fails: the date a topic was mastered on is never taken back or changed,
\* although every refresh writes the row anew.
THEOREM DateStands == Spec => MasteredOnce
PROOF
<1> DEFINE Stands == ~ history'.overlapped /\ mastery.masteredAt # Never =>
                       mastery'.masteredAt = mastery.masteredAt
<1>1. ProgressInv /\ [Next]_vars => [Stands]_vars
  <2> SUFFICES ASSUME ProgressInv, Next, ~ history'.overlapped, mastery.masteredAt # Never
               PROVE  mastery'.masteredAt = mastery.masteredAt
    OBVIOUS
  <2>1. /\ mastery \in [exists : BOOLEAN, criteriaMet : SUBSET CriterionId,
                       masteredAt : Nat \cup {Never}, score : {mastery.score}]
        /\ history \in History /\ DateRead
    BY DEF ProgressInv, DateInv, Shaped
  <2>2. ASSUME NEW r \in Requests, RefreshWrite(r)
        PROVE  mastery'.masteredAt = mastery.masteredAt
    <3>1. history' = [history EXCEPT !.stale = FALSE] /\ req[r].step = "read"
          /\ req[r].existing # None
      BY <2>2 DEF RefreshWrite
    <3>2. ~ history.overlapped
      BY <2>1, <3>1 DEF History
    <3>3. req[r].existing = mastery.masteredAt
      BY <2>1, <3>1, <3>2 DEF DateRead
    <3>4. \E met, now : mastery'.masteredAt = masteredDate(req[r].existing, met, now)
      BY <2>2 DEF RefreshWrite
    <3>. QED BY <3>3, <3>4 DEF masteredDate
  <2>3. ASSUME NEW score \in {0, 100}, SessionEnd(score)
        PROVE  mastery'.masteredAt = mastery.masteredAt
    BY <2>1, <2>3 DEF SessionEnd
  <2>4. \/ \E r \in Requests : RefreshWrite(r)
        \/ \E score \in {0, 100} : SessionEnd(score)
        \/ mastery' = mastery
    BY DEF Next, LogRow, LogXp, RefreshReadRows, RefreshReadDate, AwardRead, AwardWrite,
           StreakRead, StreakWrite, Fail, NextDay
  <2>. QED BY <2>2, <2>3, <2>4
<1>2. Spec => [][Stands]_vars
  BY <1>1, ProgressInit, ProgressStep, PTL DEF Spec
<1>. QED BY <1>2 DEF MasteredOnce

\* updateStreak, for a student whose requests never overlap: the streak claims
\* no more days than the student was active on; and unless a call failed or a
\* midnight fell between its read and its write, it is the run of consecutive
\* days of activity up to the last one.
THEOREM StreakIsHonest == Spec => []StreakHonest
PROOF
<1>1. ProgressInv => StreakHonest
  <2> SUFFICES ASSUME ProgressInv, ~ history.overlapped
               PROVE  /\ streak.count <= Cardinality(history.activeDays)
                      /\ idle /\ ~ history.failed /\ ~ history.crossed
                           /\ streak.lastActive # Never =>
                             streak.count = RunTo(streak.lastActive)
    BY DEF StreakHonest
  <2>1. /\ CountsDays /\ streak.count \in Nat
        /\ ~ history.failed /\ ~ history.crossed => CountsEveryDay
    BY DEF ProgressInv, StreakInv, DateInv, Shaped
  <2>2. streak.count <= Cardinality(history.activeDays)
    <3> DEFINE S == {d \in history.activeDays : d <= streak.lastActive}
    <3>1. IsFiniteSet(history.activeDays)
      <4>1. day \in Int
        BY DEF ProgressInv, DateInv, Shaped
      <4>2. IsFiniteSet(1 .. day)
        BY <4>1, FS_Interval
      <4>3. history.activeDays \subseteq 1 .. day
        BY <2>1 DEF CountsDays
      <4>. QED BY <4>2, <4>3, FS_Subset
    <3>2. /\ IsFiniteSet(S) /\ Cardinality(S) <= Cardinality(history.activeDays)
      BY <3>1, FS_Subset
    <3>3. streak.count <= Cardinality(S)
      BY <2>1 DEF CountsDays
    <3> HIDE DEF S
    <3>4. Cardinality(S) \in Nat /\ Cardinality(history.activeDays) \in Nat
      BY <3>1, <3>2, FS_CardinalityType
    <3>. QED BY <2>1, <3>2, <3>3, <3>4
  <2>3. RunTo(streak.lastActive) = Run(history.activeDays, streak.lastActive)
    BY DEF RunTo, Run
  <2>. QED BY <2>1, <2>2, <2>3 DEF CountsEveryDay
<1>. QED BY <1>1, ProgressInit, ProgressStep, PTL DEF Spec

----------------------------------------------------------------------------
(* XP: what is still to be added                                            *)

\* A step of one request moves that one.
LEMMA Moves ==
  ASSUME Shaped, NEW r \in Requests, NEW q, Local(r, q)
  PROVE  /\ req'[r] = q
         /\ \A p \in Requests : p # r => req'[p] = req[p]
BY DEF Shaped, Local

\* What a request has still to add.
Debt(x) == IF x.step = "xp" THEN xpForInteraction(x.answer) ELSE 0

\* A step of one request changes what is owed by what it owes itself.
LEMMA DebtMoves ==
  ASSUME Shaped, NEW r \in Requests, NEW q, Local(r, q), IsFiniteSet(pendingXp)
  PROVE  /\ IsFiniteSet(pendingXp')
         /\ owed(pendingXp', req') + Debt(req[r]) = owed(pendingXp, req) + Debt(q)
         /\ owed(pendingXp, req) \in Nat /\ owed(pendingXp', req') \in Nat
         /\ Debt(req[r]) \in Nat /\ Debt(q) \in Nat
PROOF
<1> DEFINE P == pendingXp
           O == pendingXp'
           B == P \ {r}
           w == owed(B, req)
<1>1. req'[r] = q /\ \A p \in Requests : p # r => req'[p] = req[p]
  BY Moves
<1>2. /\ \A p : p \in P <=> p \in Requests /\ req[p].step = "xp"
      /\ \A p : p \in O <=> p \in Requests /\ req'[p].step = "xp"
  BY DEF pendingXp
<1>3. /\ P = IF req[r].step = "xp" THEN B \cup {r} ELSE B
      /\ O = IF q.step = "xp" THEN B \cup {r} ELSE B
      /\ \A p \in B : req'[p] = req[p]
  <2> HIDE DEF P, O
  <2>. QED BY <1>1, <1>2
<1>4. IsFiniteSet(B) /\ r \notin B
  BY FS_RemoveElement
<1>5. Debt(req[r]) \in Nat /\ Debt(q) \in Nat
  BY XpIsNat DEF Debt
<1> HIDE DEF P, O, B
<1>6. owed(B, req) = owed(B, req') /\ w \in Nat
  BY <1>3, <1>4, OwedSame
<1>7. owed(P, req) = w + Debt(req[r])
  <2>1. owed(B \cup {r}, req) = owed(B, req) + xpForInteraction(req[r].answer)
    BY <1>4, OwedOneMore
  <2>. QED BY <1>3, <1>6, <2>1 DEF Debt
<1>8. owed(O, req') = w + Debt(q)
  <2>1. owed(B \cup {r}, req') = owed(B, req) + xpForInteraction(req'[r].answer)
    BY <1>3, <1>4, OwedOneMore
  <2>. QED BY <1>1, <1>3, <1>6, <2>1 DEF Debt
<1>9. IsFiniteSet(O)
  BY <1>3, <1>4, FS_AddElement
<1> HIDE DEF w
<1>10. owed(O, req') + Debt(req[r]) = owed(P, req) + Debt(q)
  BY <1>5, <1>6, <1>7, <1>8
<1>11. owed(P, req) \in Nat /\ owed(O, req') \in Nat
  BY <1>5, <1>6, <1>7, <1>8
<1>. QED BY <1>5, <1>9, <1>10, <1>11 DEF P, O

\* A refresh is still to come.
Refreshing(x) == \/ x.step = "read"
                 \/ x.step = "xp" /\ feedsMastery(x.answer)

\* What a request goes on to after its row and after its XP.
LEMMA GoesOn ==
  ASSUME NEW answer
  PROVE  /\ \A q \in {afterXp(answer), afterRow(answer)} :
              /\ q.step \in {"idle", "xp", "read"} /\ q.rows = Never /\ q.existing = None
              /\ feedsMastery(answer) <=> Refreshing(q)
         /\ afterXp(answer).step # "xp" /\ Debt(afterXp(answer)) = 0
         /\ Debt(afterRow(answer)) = xpForInteraction(answer)
PROOF
<1> DEFINE read == [Idle EXCEPT !.step = "read", !.answer = answer]
           xp == [Idle EXCEPT !.step = "xp", !.answer = answer]
<1>1. /\ Idle.step = "idle" /\ Idle.rows = Never /\ Idle.existing = None
      /\ read.step = "read" /\ read.rows = Never /\ read.existing = None
      /\ xp.step = "xp" /\ xp.rows = Never /\ xp.existing = None /\ xp.answer = answer
  BY DEF Idle
<1>2. /\ afterXp(answer) = IF feedsMastery(answer) THEN read ELSE Idle
      /\ afterRow(answer) = IF xpForInteraction(answer) > 0 THEN xp ELSE afterXp(answer)
  BY DEF afterXp, afterRow
<1>3. xpForInteraction(answer) \in Nat
  BY XpIsNat
<1> HIDE DEF read, xp
<1>4. /\ afterXp(answer).step \in {"idle", "read"}
      /\ feedsMastery(answer) <=> afterXp(answer).step = "read"
      /\ afterXp(answer).rows = Never /\ afterXp(answer).existing = None
  BY <1>1, <1>2
<1>5. CASE xpForInteraction(answer) > 0
  <2>1. afterRow(answer) = xp
    BY <1>2, <1>5
  <2>. QED BY <1>1, <1>4, <2>1 DEF Debt, Refreshing
<1>6. CASE ~ (xpForInteraction(answer) > 0)
  <2>1. afterRow(answer) = afterXp(answer) /\ xpForInteraction(answer) = 0
    BY <1>2, <1>3, <1>6
  <2>. QED BY <1>1, <1>4, <2>1 DEF Debt, Refreshing
<1>. QED BY <1>5, <1>6

\* The books balance; there are finitely many entries.
XpInv ==
  /\ IsFiniteSet(pendingXp) /\ xpTotal \in Nat
  /\ badges \subseteq Badges /\ IsFiniteSet(badges)
  /\ \A r \in Requests : req[r].step = "award" => req[r].badge \in Badges
  /\ XpAccounted

\* The sum behind the books.
LEMMA Balance ==
  ASSUME NEW a \in Nat, NEW b \in Nat, NEW c \in Nat, NEW d \in Nat, NEW e \in Nat,
         NEW g \in Nat, NEW m \in Nat, NEW n \in Nat, NEW k \in Nat, NEW l \in Nat,
         NEW x \in Nat, NEW y \in Nat,
         x + a + k = e + 50 * c, b + m = a + n,
         y - x + n - m + l - k = g - e + 50 * d - 50 * c
  PROVE  y + b + l = g + 50 * d
OBVIOUS

\* A step of one request that keeps the books: what it adds to the total, loses
\* or still owes is what the rows and badges are worth more.
LEMMA XpMoves ==
  ASSUME ProgressInv, XpInv, NEW r \in Requests, NEW q, Local(r, q), Shaped',
         q.step = "award" => q.badge \in Badges,
         xpTotal' \in Nat, badges' \subseteq Badges, IsFiniteSet(badges'),
         xpTotal' - xpTotal + Debt(q) - Debt(req[r]) + history'.lostXp - history.lostXp
           = earned(rows') - earned(rows) + BADGE_XP * Cardinality(badges')
               - BADGE_XP * Cardinality(badges)
  PROVE  XpInv'
PROOF
<1>1. /\ Shaped /\ history.lostXp \in Nat /\ history'.lostXp \in Nat
      /\ rows \in Seq(Answers) /\ rows' \in Seq(Answers)
  BY DEF ProgressInv, DateInv, Shaped, History
<1>2. /\ IsFiniteSet(pendingXp')
      /\ owed(pendingXp', req') + Debt(req[r]) = owed(pendingXp, req) + Debt(q)
      /\ owed(pendingXp, req) \in Nat /\ owed(pendingXp', req') \in Nat
      /\ Debt(req[r]) \in Nat /\ Debt(q) \in Nat
  BY <1>1, DebtMoves DEF XpInv
<1>3. earned(rows) \in Nat /\ earned(rows') \in Nat
  <2>1. \A s \in Seq(Answers) : earned(s) \in Nat
    <3> SUFFICES ASSUME NEW s \in Seq(Answers) PROVE earned(s) \in Nat
      OBVIOUS
    <3>1. PICK f : Sums(f, s) /\ earned(s) = f[Len(s)]
      BY EarnedIs
    <3>. QED BY <3>1, LenProperties DEF Sums
  <2>. QED BY <1>1, <2>1
<1>4. Cardinality(badges) \in Nat /\ Cardinality(badges') \in Nat
  BY FS_CardinalityType DEF XpInv
<1>5. \A p \in Requests : req'[p].step = "award" => req'[p].badge \in Badges
  <2>1. req'[r] = q /\ \A p \in Requests : p # r => req'[p] = req[p]
    BY <1>1, Moves
  <2>. QED BY <2>1 DEF XpInv
<1>6. XpAccounted'
  <2> DEFINE a == owed(pendingXp, req)
             b == owed(pendingXp', req')
             c == Cardinality(badges)
             d == Cardinality(badges')
             e == earned(rows)
             g == earned(rows')
             m == Debt(req[r])
             n == Debt(q)
             k == history.lostXp
             l == history'.lostXp
             x == xpTotal
             y == xpTotal'
  <2>1. /\ x + a + k = e + 50 * c
        /\ y - x + n - m + l - k = g - e + 50 * d - 50 * c
        /\ x \in Nat
    BY DEF XpInv, XpAccounted, BADGE_XP
  <2>2. b + m = a + n 
        /\ a \in Nat /\ b \in Nat /\ c \in Nat /\ d \in Nat /\ e \in Nat /\ g \in Nat
        /\ m \in Nat /\ n \in Nat /\ k \in Nat /\ l \in Nat /\ x \in Nat /\ y \in Nat
    BY <1>1, <1>2, <1>3, <1>4, <2>1
  <2>3. XpAccounted' <=> y + b + l = g + 50 * d
    BY DEF XpAccounted, BADGE_XP
  <2> HIDE DEF a, b, c, d, e, g, m, n, k, l, x, y
  <2>4. y + b + l = g + 50 * d
    BY <2>1, <2>2, Balance
  <2>. QED BY <2>3, <2>4
<1>. QED BY <1>2, <1>5, <1>6 DEF XpInv

\* Every step keeps the books.
LEMMA XpStep == ProgressInv /\ XpInv /\ [Next]_vars => XpInv'
PROOF
<1> SUFFICES ASSUME ProgressInv, XpInv, [Next]_vars PROVE XpInv'
  OBVIOUS
<1>1. /\ Shaped /\ Shaped' /\ history \in History
      /\ rows \in Seq(Answers)
  BY ProgressStep DEF ProgressInv, DateInv, Shaped
<1>2. /\ xpTotal \in Nat /\ badges \subseteq Badges /\ IsFiniteSet(badges)
      /\ Cardinality(badges) \in Nat
  BY FS_CardinalityType DEF XpInv
<1>3. earned(rows) \in Nat
  <2>1. PICK f : Sums(f, rows) /\ earned(rows) = f[Len(rows)]
    BY <1>1, EarnedIs
  <2>. QED BY <1>1, <2>1, LenProperties DEF Sums
<1>4. history.lostXp \in Nat /\ BADGE_XP = 50
  BY <1>1 DEF History, BADGE_XP
\* Nothing is added and nothing owed.
<1>5. ASSUME NEW r \in Requests, NEW q, Local(r, q), q.step = "award" => q.badge \in Badges,
             Debt(q) = Debt(req[r]), xpTotal' = xpTotal, badges' = badges, rows' = rows,
             history'.lostXp = history.lostXp
      PROVE  XpInv'
  <2>1. Debt(q) \in Nat
    BY XpIsNat DEF Debt
  <2>2. xpTotal' - xpTotal + Debt(q) - Debt(req[r]) + history'.lostXp - history.lostXp
          = earned(rows') - earned(rows) + BADGE_XP * Cardinality(badges')
              - BADGE_XP * Cardinality(badges)
    BY <1>2, <1>3, <1>4, <1>5, <2>1
  <2>. QED BY <1>1, <1>2, <1>5, <2>2, XpMoves
<1>6. Idle.step = "idle" /\ Debt(Idle) = 0
  BY DEF Idle, Debt
<1>7. \A h \in History : Arriving(h).lostXp = h.lostXp
  BY DEF Arriving, History
<1>8. ASSUME NEW r \in Requests, NEW answer \in Answers, LogRow(r, answer) PROVE XpInv'
  <2> DEFINE q == afterRow(answer)
  <2>1. Local(r, q) /\ Debt(req[r]) = 0 /\ q.step # "award"
        /\ Debt(q) = xpForInteraction(answer)
    <3>1. Local(r, q) /\ Debt(req[r]) = 0
      BY <1>8 DEF LogRow, Debt
    <3>2. q.step \in {"idle", "xp", "read"} /\ Debt(q) = xpForInteraction(answer)
      BY GoesOn
    <3> HIDE DEF q
    <3>. QED BY <3>1, <3>2
  <2>2. xpTotal' = xpTotal /\ badges' = badges /\ rows' = Append(rows, answer)
    BY <1>8 DEF LogRow
  <2>3. history'.lostXp = history.lostXp
    BY <1>1, <1>8 DEF LogRow, Arriving, History
  <2>4. earned(rows') = earned(rows) + xpForInteraction(answer)
    BY <1>1, <2>2, EarnedAppend
  <2>5. xpForInteraction(answer) \in Nat
    BY XpIsNat
  <2> HIDE DEF q
  <2>6. xpTotal' - xpTotal + Debt(q) - Debt(req[r]) + history'.lostXp - history.lostXp
          = earned(rows') - earned(rows) + BADGE_XP * Cardinality(badges')
              - BADGE_XP * Cardinality(badges)
    BY <1>2, <1>3, <1>4, <2>1, <2>2, <2>3, <2>4, <2>5
  <2>. QED BY <1>1, <1>2, <2>1, <2>2, <2>6, XpMoves
<1>9. ASSUME NEW r \in Requests, LogXp(r) PROVE XpInv'
  <2> DEFINE a == req[r].answer
             q == afterXp(a)
  <2>1. /\ Local(r, q) /\ q.step # "award" /\ Debt(q) = 0
        /\ Debt(req[r]) = xpForInteraction(a)
    <3>1. Local(r, q) /\ Debt(req[r]) = xpForInteraction(a)
      BY <1>9 DEF LogXp, Debt
    <3>2. q.step \in {"idle", "xp", "read"} /\ Debt(q) = 0
      BY GoesOn
    <3> HIDE DEF q
    <3>. QED BY <3>1, <3>2
  <2>2. /\ xpTotal' = xpTotal + xpForInteraction(a) /\ badges' = badges /\ rows' = rows
        /\ history' = history
    BY <1>9 DEF LogXp
  <2>3. xpForInteraction(a) \in Nat
    BY XpIsNat
  <2> HIDE DEF q, a
  <2>4. xpTotal' - xpTotal + Debt(q) - Debt(req[r]) + history'.lostXp - history.lostXp
          = earned(rows') - earned(rows) + BADGE_XP * Cardinality(badges')
              - BADGE_XP * Cardinality(badges)
    BY <1>2, <1>3, <1>4, <2>1, <2>2, <2>3
  <2>5. xpTotal' \in Nat
    BY <1>2, <2>2, <2>3
  <2>. QED BY <1>1, <1>2, <2>1, <2>2, <2>4, <2>5, XpMoves
<1>10. ASSUME NEW r \in Requests, RefreshReadRows(r) PROVE XpInv'
  <2> DEFINE q == [req[r] EXCEPT !.rows = Len(rows)]
  <2>1. req[r] \in Record /\ req[r].step = "read"
    BY <1>1, <1>10 DEF Shaped, RefreshReadRows
  <2>2. q.step = "read"
    BY <2>1 DEF Record
  <2>3. Local(r, q) /\ xpTotal' = xpTotal /\ badges' = badges /\ rows' = rows
        /\ history' = history
    BY <1>10 DEF RefreshReadRows
  <2> HIDE DEF q
  <2>4. Debt(q) = Debt(req[r])
    BY <2>1, <2>2 DEF Debt
  <2>. QED BY <1>5, <2>2, <2>3, <2>4
<1>11. ASSUME NEW r \in Requests, RefreshReadDate(r) PROVE XpInv'
  <2> DEFINE q == [req[r] EXCEPT !.existing = mastery.masteredAt]
  <2>1. req[r] \in Record /\ req[r].step = "read"
    BY <1>1, <1>11 DEF Shaped, RefreshReadDate
  <2>2. q.step = "read"
    BY <2>1 DEF Record
  <2>3. Local(r, q) /\ xpTotal' = xpTotal /\ badges' = badges /\ rows' = rows
        /\ history' = history
    BY <1>11 DEF RefreshReadDate
  <2> HIDE DEF q
  <2>4. Debt(q) = Debt(req[r])
    BY <2>1, <2>2 DEF Debt
  <2>. QED BY <1>5, <2>2, <2>3, <2>4
<1>12. ASSUME NEW r \in Requests, RefreshWrite(r) PROVE XpInv'
  <2>1. /\ Local(r, Idle) /\ req[r].step = "read"
        /\ xpTotal' = xpTotal /\ badges' = badges /\ rows' = rows
        /\ history' = [history EXCEPT !.stale = FALSE]
    BY <1>12 DEF RefreshWrite, Finish
  <2>2. history'.lostXp = history.lostXp
    BY <1>1, <2>1 DEF History
  <2>3. Debt(req[r]) = 0
    BY <2>1 DEF Debt
  <2>. QED BY <1>5, <1>6, <2>1, <2>2, <2>3
<1>13. ASSUME NEW r \in Requests, NEW badge \in Badges, AwardRead(r, badge) PROVE XpInv'
  <2> DEFINE q == [Idle EXCEPT !.step = "award", !.badge = badge]
  <2>1. q.step = "award" /\ q.badge = badge
    BY DEF Idle
  <2>2. /\ Local(r, q) /\ req[r].step = "idle"
        /\ xpTotal' = xpTotal /\ badges' = badges /\ rows' = rows
        /\ history' = Arriving(history)
    BY <1>13 DEF AwardRead
  <2> HIDE DEF q
  <2>3. Debt(q) = Debt(req[r])
    BY <2>1, <2>2 DEF Debt
  <2>. QED BY <1>1, <1>5, <1>7, <2>1, <2>2, <2>3
<1>14. ASSUME NEW r \in Requests, AwardWrite(r) PROVE XpInv'
  <2>1. /\ Local(r, Idle) /\ req[r].step = "award" /\ rows' = rows /\ history' = history
        /\ IF req[r].badge \in badges THEN badges' = badges /\ xpTotal' = xpTotal
           ELSE badges' = badges \cup {req[r].badge} /\ xpTotal' = xpTotal + 50
    BY <1>4, <1>14 DEF AwardWrite, Finish, holdsBadge
  <2>2. Debt(req[r]) = 0 /\ req[r].badge \in Badges
    BY <2>1 DEF Debt, XpInv
  <2>3. CASE req[r].badge \in badges
    BY <1>5, <1>6, <2>1, <2>2, <2>3
  <2>4. CASE req[r].badge \notin badges
    <3>1. /\ badges' \subseteq Badges /\ IsFiniteSet(badges')
          /\ Cardinality(badges') = Cardinality(badges) + 1
      BY <1>2, <2>1, <2>2, <2>4, FS_AddElement
    <3>2. xpTotal' - xpTotal + Debt(Idle) - Debt(req[r]) + history'.lostXp - history.lostXp
            = earned(rows') - earned(rows) + BADGE_XP * Cardinality(badges')
                - BADGE_XP * Cardinality(badges)
      BY <1>2, <1>3, <1>4, <1>6, <2>1, <2>2, <2>4, <3>1
    <3>3. xpTotal' \in Nat
      BY <1>2, <2>1, <2>4
    <3>. QED BY <1>1, <1>6, <2>1, <3>1, <3>2, <3>3, XpMoves
  <2>. QED BY <2>3, <2>4
<1>15. ASSUME NEW r \in Requests, StreakRead(r) PROVE XpInv'
  <2> DEFINE c == (streak.lastActive = day - 1)
             s == [Idle EXCEPT !.step = "streak", !.consecutive = c]
  <2>1. s.step = "streak"
    BY DEF Idle
  <2>2. /\ Local(r, Idle) \/ Local(r, s)
        /\ req[r].step = "idle"
        /\ xpTotal' = xpTotal /\ badges' = badges /\ rows' = rows
        /\ history' = [Arriving(history) EXCEPT !.activeDays = @ \cup {day}]
    BY <1>15 DEF StreakRead, Finish
  <2>3. history'.lostXp = history.lostXp
    BY <1>1, <2>2 DEF History, Arriving
  <2> HIDE DEF s
  <2>4. Debt(req[r]) = 0 /\ Debt(s) = 0
    BY <2>1, <2>2 DEF Debt
  <2>5. CASE Local(r, Idle)
    BY <1>5, <1>6, <2>2, <2>3, <2>4, <2>5
  <2>6. CASE Local(r, s)
    BY <1>5, <2>1, <2>2, <2>3, <2>4, <2>6
  <2>. QED BY <2>2, <2>5, <2>6
<1>16. ASSUME NEW r \in Requests, StreakWrite(r) PROVE XpInv'
  <2>1. /\ Local(r, Idle) /\ req[r].step = "streak"
        /\ xpTotal' = xpTotal /\ badges' = badges /\ rows' = rows /\ history' = history
    BY <1>16 DEF StreakWrite, Finish
  <2>2. Debt(req[r]) = 0
    BY <2>1 DEF Debt
  <2>. QED BY <1>5, <1>6, <2>1, <2>2
<1>17. ASSUME NEW r \in Requests, Fail(r) PROVE XpInv'
  <2>1. /\ Local(r, Idle) /\ xpTotal' = xpTotal /\ badges' = badges /\ rows' = rows
        /\ history' = [history EXCEPT !.failed = TRUE, !.lostXp = @ + Debt(req[r])]
    BY <1>17 DEF Fail, Finish, Debt
  <2>2. Debt(req[r]) \in Nat
    BY XpIsNat DEF Debt
  <2>3. history'.lostXp = history.lostXp + Debt(req[r])
    BY <1>1, <2>1 DEF History
  <2>4. xpTotal' - xpTotal + Debt(Idle) - Debt(req[r]) + history'.lostXp - history.lostXp
          = earned(rows') - earned(rows) + BADGE_XP * Cardinality(badges')
              - BADGE_XP * Cardinality(badges)
    BY <1>2, <1>3, <1>4, <1>6, <2>1, <2>2, <2>3
  <2>. QED BY <1>1, <1>2, <1>6, <2>1, <2>4, XpMoves
\* Nobody's request moves.
<1>18. ASSUME req' = req, xpTotal' = xpTotal, badges' = badges, rows' = rows,
              history'.lostXp = history.lostXp
       PROVE  XpInv'
  BY <1>18 DEF XpInv, XpAccounted, pendingXp
<1>19. ASSUME NEW score \in {0, 100}, SessionEnd(score) PROVE XpInv'
  BY <1>18, <1>19 DEF SessionEnd
<1>20. CASE NextDay
  <2>1. history'.lostXp = history.lostXp
    BY <1>1, <1>20 DEF NextDay, History
  <2>. QED BY <1>18, <1>20, <2>1 DEF NextDay
<1>21. CASE UNCHANGED vars
  BY <1>18, <1>21 DEF vars
<1>. QED BY <1>8, <1>9, <1>10, <1>11, <1>12, <1>13, <1>14, <1>15, <1>16, <1>17, <1>19,
            <1>20, <1>21 DEF Next

----------------------------------------------------------------------------
(* The date a topic is mastered                                             *)

\* The first k rows met every criterion that applies.
AllMet(s, k) == \A c \in Applicable : Meets(SubSeq(s, 1, k), c)

\* The date d, if it is one, is of a time at which everything had been met.
Earlier(s, d) == d # Never => d \in 0..Len(s) /\ \E k \in 0..d : AllMet(s, k)

\* What a refresh in progress has read are rows there are and such a date.
ReadWell(x) ==
  x.step = "read" => /\ x.rows # Never => x.rows \in 0..Len(rows)
                     /\ x.existing # None => Earlier(rows, x.existing)

DatesInv ==
  /\ Earlier(rows, mastery.masteredAt)
  /\ \A r \in Requests : ReadWell(req[r])
  /\ mastery.score \in Nat /\ mastery.score <= 100
  /\ streak.lastActive # Never => streak.lastActive \in 1..day

\* Rows are only appended: what the first of them met they go on to have met.
LEMMA Grows ==
  ASSUME NEW s \in Seq(Answers), NEW x \in Answers
  PROVE  /\ \A k \in 0..Len(s) : SubSeq(Append(s, x), 1, k) = SubSeq(s, 1, k)
         /\ \A k \in 0..Len(s) : AllMet(Append(s, x), k) <=> AllMet(s, k)
         /\ \A d : Earlier(s, d) => Earlier(Append(s, x), d)
PROOF
<1> DEFINE t == Append(s, x)
           n == Len(s)
<1>1. /\ t \in Seq(Answers) /\ Len(t) = n + 1 /\ n \in Nat /\ t[n + 1] = x
      /\ \A i \in 1..n : t[i] = s[i] /\ s[i] \in Answers
  BY AppendProperties, LenProperties, ElementOfSeq
<1> HIDE DEF t
<1>2. ASSUME NEW k \in 0..n PROVE SubSeq(t, 1, k) = SubSeq(s, 1, k)
  <2> DEFINE u == SubSeq(t, 1, k)
             v == SubSeq(s, 1, k)
  <2>1. k \in Int /\ 1 \in Int /\ \A i \in 1..k : t[i] = s[i] /\ t[i] \in Answers /\ s[i] \in Answers
    BY <1>1
  <2>2. /\ u \in Seq(Answers) /\ Len(u) = IF 1 <= k THEN k - 1 + 1 ELSE 0
        /\ \A i \in 1..(k - 1 + 1) : u[i] = t[1 + i - 1]
    BY <2>1, SubSeqProperties
  <2>3. /\ v \in Seq(Answers) /\ Len(v) = IF 1 <= k THEN k - 1 + 1 ELSE 0
        /\ \A i \in 1..(k - 1 + 1) : v[i] = s[1 + i - 1]
    BY <2>1, SubSeqProperties
  <2> HIDE DEF u, v
  <2>4. Len(u) = k /\ Len(v) = k
    BY <1>1, <2>2, <2>3
  <2>5. \A i \in 1..k : u[i] = v[i]
    <3> SUFFICES ASSUME NEW i \in 1..k PROVE u[i] = v[i]
      OBVIOUS
    <3>1. i \in 1..(k - 1 + 1) /\ 1 + i - 1 = i
      BY <1>1
    <3>. QED BY <2>1, <2>2, <2>3, <3>1
  <2>6. u = [i \in 1..k |-> u[i]] /\ v = [i \in 1..k |-> v[i]]
    BY <2>2, <2>3, <2>4, LenProperties
  <2>7. u = v
    BY <2>5, <2>6
  <2>. QED BY <2>7 DEF u, v
<1>3. \A k \in 0..n : AllMet(t, k) <=> AllMet(s, k)
  BY <1>2 DEF AllMet
<1>4. ASSUME NEW d, Earlier(s, d) PROVE Earlier(t, d)
  <2> SUFFICES ASSUME d # Never PROVE d \in 0..Len(t) /\ \E k \in 0..d : AllMet(t, k)
    BY DEF Earlier
  <2>1. d \in 0..n
    BY <1>4 DEF Earlier
  <2>2. PICK k \in 0..d : AllMet(s, k)
    BY <1>4 DEF Earlier
  <2>3. d \in 0..(n + 1) /\ k \in 0..n
    BY <1>1, <2>1
  <2>4. AllMet(t, k)
    BY <1>3, <2>2, <2>3
  <2>. QED BY <1>1, <2>3, <2>4
<1>. QED BY <1>2, <1>3, <1>4 DEF t

\* The first rows are rows.
LEMMA Prefix ==
  ASSUME NEW s \in Seq(Answers), NEW k \in 0..Len(s)
  PROVE  SubSeq(s, 1, k) \in Seq(Answers)
PROOF
<1>1. k \in Int /\ 1 \in Int /\ \A i \in 1..k : s[i] \in Answers
  <2>1. Len(s) \in Nat
    BY LenProperties
  <2>2. \A i \in 1..k : i \in 1..Len(s)
    BY <2>1
  <2>. QED BY <2>1, <2>2, ElementOfSeq
<1>. QED BY <1>1, SubSeqProperties

\* A refresh finds mastered what the rows it has read met in full.
LEMMA FoundMet ==
  ASSUME NEW s \in Seq(Answers), NEW k \in 0..Len(s)
  PROVE  meetsEveryCriterion(computeMastery(SubSeq(s, 1, k))) <=> AllMet(s, k)
PROOF
<1> DEFINE t == SubSeq(s, 1, k)
<1>1. t \in Seq(Answers)
  BY Prefix
<1>2. computeMastery(t) = {c \in CriterionId : Meets(t, c)}
  BY <1>1, MasteryIs
<1> HIDE DEF t
<1>3. meetsEveryCriterion(computeMastery(t)) <=> \A c \in Applicable : Meets(t, c)
  BY <1>2, ProgressAssumption DEF meetsEveryCriterion
<1>. QED BY <1>3 DEF t, AllMet

\* The figures of a session are percentages.
LEMMA ScoreBound ==
  ASSUME NEW s \in Seq(Answers)
  PROVE  scoreOf(s) \in Nat /\ scoreOf(s) <= 100
PROOF
<1> DEFINE wanted == {row \in Answers : isScored(row)}
           t == filter(s, wanted)
<1>1. t \in Seq(Answers)
  <2> DEFINE G == {u \in Seq(Answers) : filter(u, wanted) \in Seq(Answers)}
  <2> HIDE DEF wanted
  <2>1. <<>> \in G
    <3>1. <<>> \in Seq(Answers)
      OBVIOUS
    <3>. QED BY <3>1, FilterEmpty
  <2>2. ASSUME NEW u \in Seq(Answers), NEW c \in Answers, u \in G PROVE Append(u, c) \in G
    <3>1. Append(u, c) \in Seq(Answers)
      BY AppendProperties
    <3>2. filter(Append(u, c), wanted)
            = IF c \in wanted THEN Append(filter(u, wanted), c) ELSE filter(u, wanted)
      BY FilterAppend
    <3>3. filter(u, wanted) \in Seq(Answers)
      BY <2>2
    <3>4. filter(Append(u, c), wanted) \in Seq(Answers)
      <4>1. Append(filter(u, wanted), c) \in Seq(Answers)
        BY <3>3, AppendProperties
      <4>. QED BY <3>2, <3>3, <4>1
    <3>. QED BY <3>1, <3>4
  <2> HIDE DEF G
  <2>3. s \in G
    BY <2>1, <2>2, RowsInduction
  <2>. QED BY <2>3 DEF G
<1>2. scoreOf(s) = percent(RightIn(t), Len(t))
  BY DEF scoreOf, RightIn
<1> HIDE DEF t, wanted
<1>3. RightIn(t) \in Nat /\ RightIn(t) <= Len(t) /\ Len(t) \in Nat
  <2>1. Len(t) \in Nat
    BY <1>1, LenProperties
  <2>. QED BY <1>1, <2>1, RightInAppend
<1>. QED BY <1>2, <1>3, PercentBound

\* A step of one request that writes no row and dates nothing.
LEMMA DatesMove ==
  ASSUME ProgressInv, DatesInv, NEW r \in Requests, NEW q, Local(r, q),
         rows' = rows, mastery' = mastery, streak' = streak, day' = day,
         q.step = "read" =>
           /\ q.rows \in {Never, Len(rows)} \/ (req[r].step = "read" /\ q.rows = req[r].rows)
           /\ \/ q.existing \in {None, mastery.masteredAt}
              \/ req[r].step = "read" /\ q.existing = req[r].existing
  PROVE  DatesInv'
PROOF
<1>1. /\ req'[r] = q /\ \A p \in Requests : p # r => req'[p] = req[p]
      /\ Len(rows) \in 0..Len(rows)
  <2>1. Shaped
    BY DEF ProgressInv, DateInv
  <2>2. Len(rows) \in Nat
    BY <2>1, LenProperties DEF Shaped
  <2>. QED BY <2>1, <2>2, Moves
<1>2. ReadWell(q)
  BY <1>1 DEF DatesInv, ReadWell
<1>3. \A p \in Requests : ReadWell(req'[p])
  BY <1>1, <1>2 DEF DatesInv
<1>. QED BY <1>3 DEF DatesInv, ReadWell

\* Every step keeps the dates.
LEMMA DatesStep == ProgressInv /\ DatesInv /\ [Next]_vars => DatesInv'
PROOF
<1> SUFFICES ASSUME ProgressInv, DatesInv, [Next]_vars PROVE DatesInv'
  OBVIOUS
<1>1. /\ Shaped /\ rows \in Seq(Answers) /\ Len(rows) \in Nat /\ day \in Nat \ {0}
      /\ mastery \in [exists : BOOLEAN, criteriaMet : SUBSET CriterionId,
                      masteredAt : Nat \cup {Never}, score : {mastery.score}]
  BY LenProperties DEF ProgressInv, DateInv, Shaped
<1>2. Idle.step = "idle"
  BY DEF Idle
<1>3. ASSUME NEW r \in Requests, NEW answer \in Answers, LogRow(r, answer) PROVE DatesInv'
  <2> DEFINE q == afterRow(answer)
             t == Append(rows, answer)
  <2>1. /\ rows' = t /\ mastery' = mastery /\ streak' = streak /\ day' = day /\ Local(r, q)
    BY <1>3 DEF LogRow
  <2>2. /\ req'[r] = q /\ \A p \in Requests : p # r => req'[p] = req[p]
    BY <1>1, <2>1, Moves
  <2>3. q.rows = Never /\ q.existing = None
    BY GoesOn
  <2>4. \A d : Earlier(rows, d) => Earlier(t, d)
    BY <1>1, Grows
  <2>5. Len(t) = Len(rows) + 1
    BY <1>1, AppendProperties
  <2> HIDE DEF q, t
  <2>6. \A p \in Requests : ReadWell(req[p])
    BY DEF DatesInv
  <2>7. ASSUME NEW p \in Requests, req'[p].step = "read"
        PROVE  /\ req'[p].rows # Never => req'[p].rows \in 0..Len(t)
               /\ req'[p].existing # None => Earlier(t, req'[p].existing)
    <3>1. CASE p = r
      BY <2>2, <2>3, <3>1
    <3>2. CASE p # r
      <4>1. req'[p] = req[p]
        BY <2>2, <3>2
      <4>2. /\ req[p].rows # Never => req[p].rows \in 0..Len(rows)
            /\ req[p].existing # None => Earlier(rows, req[p].existing)
        BY <2>6, <2>7, <4>1 DEF ReadWell
      <4>3. \A j \in 0..Len(rows) : j \in 0..Len(t)
        BY <1>1, <2>5
      <4>. QED BY <2>4, <4>1, <4>2, <4>3
    <3>. QED BY <3>1, <3>2
  <2>8. \A p \in Requests : ReadWell(req[p])'
    BY <2>1, <2>7 DEF ReadWell
  <2>9. Earlier(t, mastery.masteredAt)
    BY <2>4 DEF DatesInv
  <2>. QED BY <2>1, <2>8, <2>9 DEF DatesInv
<1>4. ASSUME NEW r \in Requests, LogXp(r) PROVE DatesInv'
  <2> DEFINE q == afterXp(req[r].answer)
  <2>1. /\ rows' = rows /\ mastery' = mastery /\ streak' = streak /\ day' = day /\ Local(r, q)
    BY <1>4 DEF LogXp
  <2>2. q.rows = Never /\ q.existing = None
    BY GoesOn
  <2> HIDE DEF q
  <2>. QED BY <2>1, <2>2, DatesMove
<1>5. ASSUME NEW r \in Requests, RefreshReadRows(r) PROVE DatesInv'
  <2> DEFINE q == [req[r] EXCEPT !.rows = Len(rows)]
  <2>1. req[r] \in Record /\ req[r].step = "read"
    BY <1>1, <1>5 DEF Shaped, RefreshReadRows
  <2>2. q.rows = Len(rows) /\ q.existing = req[r].existing
    BY <2>1 DEF Record
  <2>3. /\ rows' = rows /\ mastery' = mastery /\ streak' = streak /\ day' = day /\ Local(r, q)
    BY <1>5 DEF RefreshReadRows
  <2> HIDE DEF q
  <2>. QED BY <2>1, <2>2, <2>3, DatesMove
<1>6. ASSUME NEW r \in Requests, RefreshReadDate(r) PROVE DatesInv'
  <2> DEFINE q == [req[r] EXCEPT !.existing = mastery.masteredAt]
  <2>1. req[r] \in Record /\ req[r].step = "read"
    BY <1>1, <1>6 DEF Shaped, RefreshReadDate
  <2>2. q.rows = req[r].rows /\ q.existing = mastery.masteredAt
    BY <2>1 DEF Record
  <2>3. /\ rows' = rows /\ mastery' = mastery /\ streak' = streak /\ day' = day /\ Local(r, q)
    BY <1>6 DEF RefreshReadDate
  <2> HIDE DEF q
  <2>. QED BY <2>1, <2>2, <2>3, DatesMove
<1>7. ASSUME NEW r \in Requests, RefreshWrite(r) PROVE DatesInv'
  <2> DEFINE n == req[r].rows
             old == req[r].existing
             met == meetsEveryCriterion(computeMastery(SubSeq(rows, 1, n)))
             now == Len(rows)
             score == IF mastery.exists THEN mastery.score ELSE scoreOf(SubSeq(rows, 1, n))
  <2>1. /\ rows' = rows /\ streak' = streak /\ day' = day /\ Local(r, Idle)
        /\ req[r].step = "read" /\ n # Never /\ old # None
        /\ mastery'.masteredAt = masteredDate(old, met, now)
        /\ mastery'.score = score
    BY <1>7 DEF RefreshWrite, Finish
  <2>2. ReadWell(req[r])
    BY DEF DatesInv
  <2>3. n \in 0..Len(rows) /\ Earlier(rows, old)
    BY <2>1, <2>2 DEF ReadWell
  <2>4. Earlier(rows, masteredDate(old, met, now))
    <3>1. CASE old # Never
      BY <2>3, <3>1 DEF masteredDate
    <3>2. CASE old = Never /\ ~ met
      BY <3>2 DEF masteredDate, Earlier
    <3>3. CASE old = Never /\ met
      <4>1. AllMet(rows, n)
        BY <1>1, <2>3, <3>3, FoundMet
      <4>2. masteredDate(old, met, now) = now
        BY <3>3 DEF masteredDate
      <4>3. now \in 0..Len(rows) /\ n \in 0..now
        BY <1>1, <2>3
      <4> HIDE DEF met, n, old, now
      <4>. QED BY <4>1, <4>2, <4>3 DEF Earlier
    <3>. QED BY <3>1, <3>2, <3>3
  <2>5. score \in Nat /\ score <= 100
    <3>1. SubSeq(rows, 1, n) \in Seq(Answers)
      BY <1>1, <2>3, Prefix
    <3>2. /\ scoreOf(SubSeq(rows, 1, n)) \in Nat
          /\ scoreOf(SubSeq(rows, 1, n)) <= 100
      BY <3>1, ScoreBound
    <3>. QED BY <3>2 DEF DatesInv
  <2> HIDE DEF met, n, old, now, score
  <2>6. \A p \in Requests : ReadWell(req'[p])
    <3>1. /\ req'[r] = Idle /\ \A p \in Requests : p # r => req'[p] = req[p]
      BY <1>1, <2>1, Moves
    <3>. QED BY <1>2, <3>1 DEF DatesInv, ReadWell
  <2>7. \A p \in Requests : ReadWell(req[p])'
    BY <2>1, <2>6 DEF ReadWell
  <2>. QED BY <2>1, <2>4, <2>5, <2>7 DEF DatesInv
<1>8. ASSUME NEW r \in Requests, NEW badge \in Badges, AwardRead(r, badge) PROVE DatesInv'
  <2> DEFINE q == [Idle EXCEPT !.step = "award", !.badge = badge]
  <2>1. q.step = "award"
    BY DEF Idle
  <2>2. /\ rows' = rows /\ mastery' = mastery /\ streak' = streak /\ day' = day /\ Local(r, q)
    BY <1>8 DEF AwardRead
  <2> HIDE DEF q
  <2>. QED BY <2>1, <2>2, DatesMove
<1>9. ASSUME NEW r \in Requests, AwardWrite(r) \/ Fail(r) PROVE DatesInv'
  <2>1. /\ rows' = rows /\ mastery' = mastery /\ streak' = streak /\ day' = day
        /\ Local(r, Idle)
    BY <1>9 DEF AwardWrite, Fail, Finish
  <2>. QED BY <1>2, <2>1, DatesMove
<1>10. ASSUME NEW r \in Requests, StreakRead(r) PROVE DatesInv'
  <2> DEFINE c == (streak.lastActive = day - 1)
             s == [Idle EXCEPT !.step = "streak", !.consecutive = c]
  <2>1. s.step = "streak"
    BY DEF Idle
  <2>2. /\ rows' = rows /\ mastery' = mastery /\ streak' = streak /\ day' = day
        /\ Local(r, Idle) \/ Local(r, s)
    BY <1>10 DEF StreakRead, Finish
  <2> HIDE DEF s
  <2>3. CASE Local(r, Idle)
    BY <1>2, <2>2, <2>3, DatesMove
  <2>4. CASE Local(r, s)
    BY <2>1, <2>2, <2>4, DatesMove
  <2>. QED BY <2>2, <2>3, <2>4
<1>11. ASSUME NEW r \in Requests, StreakWrite(r) PROVE DatesInv'
  <2>1. /\ rows' = rows /\ mastery' = mastery /\ day' = day /\ Local(r, Idle)
        /\ streak'.lastActive = day
    BY <1>11 DEF StreakWrite, Finish
  <2>2. \A p \in Requests : ReadWell(req'[p])
    <3>1. /\ req'[r] = Idle /\ \A p \in Requests : p # r => req'[p] = req[p]
      BY <1>1, <2>1, Moves
    <3>. QED BY <1>2, <3>1 DEF DatesInv, ReadWell
  <2>3. \A p \in Requests : ReadWell(req[p])'
    BY <2>1, <2>2 DEF ReadWell
  <2>4. day \in 1..day
    BY <1>1
  <2>. QED BY <2>1, <2>3, <2>4 DEF DatesInv
<1>12. ASSUME NEW score \in {0, 100}, SessionEnd(score) PROVE DatesInv'
  <2>1. /\ rows' = rows /\ streak' = streak /\ day' = day /\ req' = req
        /\ mastery' = [mastery EXCEPT !.exists = TRUE, !.score = score]
    BY <1>12 DEF SessionEnd
  <2>2. mastery'.masteredAt = mastery.masteredAt /\ mastery'.score = score
    BY <1>1, <2>1
  <2>. QED BY <2>1, <2>2 DEF DatesInv, ReadWell
<1>13. CASE NextDay
  <2>1. /\ rows' = rows /\ streak' = streak /\ day' = day + 1 /\ req' = req
        /\ mastery' = mastery
    BY <1>13 DEF NextDay
  <2>2. \A d \in 1..day : d \in 1..(day + 1)
    BY <1>1
  <2>. QED BY <2>1, <2>2 DEF DatesInv, ReadWell
<1>14. CASE UNCHANGED vars
  BY <1>14 DEF vars, DatesInv, ReadWell
<1>. QED BY <1>3, <1>4, <1>5, <1>6, <1>7, <1>8, <1>9, <1>10, <1>11, <1>12, <1>13, <1>14 DEF Next

----------------------------------------------------------------------------
(* The rubric that is stored                                                *)

\* A refresh in progress has read all the rows there are.
ReadAll(x) == x.step = "read" /\ x.rows # Never => x.rows = Len(rows)

\* While requests do not overlap: unless a row the rubric reads came after the
\* last refresh, what is stored is the rubric of the rows; what was ever met
\* before that row was dated, unless a call failed; and such a row has a
\* request that is still to refresh.
RubricInv ==
  ~ history.overlapped =>
    /\ \A r \in Requests : ReadAll(req[r])
    /\ ~ history.stale => mastery.criteriaMet = {c \in CriterionId : Meets(rows, c)}
    /\ ~ history.failed /\ mastery.masteredAt = Never =>
         \A k \in 0..(IF history.stale THEN Len(rows) - 1 ELSE Len(rows)) : ~ AllMet(rows, k)
    /\ ~ history.failed /\ history.stale => \E r \in Requests : Refreshing(req[r])

\* A step of one request that writes no row, dates nothing and does not give up
\* the refresh.
LEMMA RubricMove ==
  ASSUME ProgressInv, RubricInv, NEW r \in Requests, NEW q, Local(r, q),
         rows' = rows, mastery' = mastery,
         history.overlapped => history'.overlapped, history.failed => history'.failed,
         history'.stale = history.stale,
         q.step = "read" => \/ q.rows \in {Never, Len(rows)}
                            \/ req[r].step = "read" /\ q.rows = req[r].rows,
         Refreshing(req[r]) => Refreshing(q) \/ history'.failed
  PROVE  RubricInv'
PROOF
<1> SUFFICES ASSUME ~ history'.overlapped
             PROVE  /\ \A p \in Requests : ReadAll(req[p])'
                    /\ (~ history.stale => mastery.criteriaMet = {c \in CriterionId : Meets(rows, c)})'
                    /\ (~ history.failed /\ mastery.masteredAt = Never =>
                         \A k \in 0..(IF history.stale THEN Len(rows) - 1 ELSE Len(rows)) :
                           ~ AllMet(rows, k))'
                    /\ (~ history.failed /\ history.stale =>
                          \E p \in Requests : Refreshing(req[p]))'
  BY DEF RubricInv
<1>1. /\ req'[r] = q /\ \A p \in Requests : p # r => req'[p] = req[p]
  BY Moves DEF ProgressInv, DateInv
<1>2. /\ \A p \in Requests : ReadAll(req[p])
      /\ ~ history.stale => mastery.criteriaMet = {c \in CriterionId : Meets(rows, c)}
      /\ ~ history.failed /\ mastery.masteredAt = Never =>
           \A k \in 0..(IF history.stale THEN Len(rows) - 1 ELSE Len(rows)) : ~ AllMet(rows, k)
      /\ ~ history.failed /\ history.stale => \E p \in Requests : Refreshing(req[p])
  BY DEF RubricInv
<1>3. \A p \in Requests : ReadAll(req[p])'
  BY <1>1, <1>2 DEF ReadAll
<1>4. ~ history'.failed /\ history'.stale => \E p \in Requests : Refreshing(req'[p])
  BY <1>1, <1>2
<1>5. (~ history.failed /\ history.stale => \E p \in Requests : Refreshing(req[p]))'
  BY <1>4 DEF Refreshing
<1>. QED BY <1>2, <1>3, <1>5

\* Every step keeps the rubric.
LEMMA RubricStep ==
  ProgressInv /\ DatesInv /\ RubricInv /\ [Next]_vars => RubricInv'
PROOF
<1> SUFFICES ASSUME ProgressInv, DatesInv, RubricInv, [Next]_vars PROVE RubricInv'
  OBVIOUS
<1>1. /\ Shaped /\ rows \in Seq(Answers) /\ Len(rows) \in Nat /\ history \in History
      /\ Alone /\ DateRead
      /\ mastery \in [exists : BOOLEAN, criteriaMet : SUBSET CriterionId,
                      masteredAt : Nat \cup {Never}, score : {mastery.score}]
  BY LenProperties DEF ProgressInv, DateInv, Shaped
<1>2. Idle.step = "idle" /\ ~ Refreshing(Idle)
  BY DEF Idle, Refreshing
<1>3. \A h \in History : /\ Arriving(h).overlapped = (h.overlapped \/ InProgress)
                          /\ Arriving(h).failed = h.failed /\ Arriving(h).stale = h.stale
                          /\ Arriving(h) \in History
  BY DEF Arriving, History
<1>4. \A x : x.step \notin {"xp", "read"} => ~ Refreshing(x)
  BY DEF Refreshing
<1>5. ASSUME NEW r \in Requests, NEW answer \in Answers, LogRow(r, answer) PROVE RubricInv'
  <2> DEFINE q == afterRow(answer)
             t == Append(rows, answer)
             n == Len(rows)
  <2>1. /\ rows' = t /\ mastery' = mastery /\ Local(r, q)
        /\ history'.overlapped = (history.overlapped \/ InProgress)
        /\ history'.failed = history.failed
        /\ history'.stale = (history.stale \/ feedsMastery(answer))
    <3>1. history' = [Arriving(history) EXCEPT !.stale = @ \/ feedsMastery(answer)]
      BY <1>5 DEF LogRow
    <3>2. Arriving(history) \in History /\ Arriving(history).stale = history.stale
      BY <1>1, <1>3
    <3>3. /\ history'.overlapped = Arriving(history).overlapped
          /\ history'.failed = Arriving(history).failed
          /\ history'.stale = (history.stale \/ feedsMastery(answer))
      BY <3>1, <3>2 DEF History
    <3>. QED BY <1>1, <1>3, <1>5, <3>3 DEF LogRow
  <2>2. /\ req'[r] = q /\ \A p \in Requests : p # r => req'[p] = req[p]
    BY <1>1, <2>1, Moves
  <2>3. q.rows = Never /\ (feedsMastery(answer) <=> Refreshing(q))
    BY GoesOn
  <2>4. t \in Seq(Answers) /\ Len(t) = n + 1
    BY <1>1, AppendProperties
  <2>5. /\ \A k \in 0..n : AllMet(t, k) <=> AllMet(rows, k)
    BY <1>1, Grows
  <2>6. SubSeq(t, 1, n + 1) = t /\ SubSeq(rows, 1, n) = rows
    BY <1>1, <2>4, SubSeqFull
  <2>7. ~ feedsMastery(answer) => \A c \in CriterionId : Meets(t, c) <=> Meets(rows, c)
    BY <1>1, OtherRow
  <2>8. ~ feedsMastery(answer) => (AllMet(t, n + 1) <=> AllMet(rows, n))
    BY <2>6, <2>7, ProgressAssumption DEF AllMet
  <2> HIDE DEF q, t
  <2> SUFFICES ASSUME ~ history'.overlapped
               PROVE  /\ \A p \in Requests : ReadAll(req[p])'
                      /\ (~ history.stale =>
                            mastery.criteriaMet = {c \in CriterionId : Meets(rows, c)})'
                      /\ (~ history.failed /\ mastery.masteredAt = Never =>
                           \A k \in 0..(IF history.stale THEN Len(rows) - 1 ELSE Len(rows)) :
                             ~ AllMet(rows, k))'
                      /\ (~ history.failed /\ history.stale =>
                            \E p \in Requests : Refreshing(req[p]))'
    BY DEF RubricInv
  <2>9. ~ history.overlapped /\ \A p \in Requests : req[p].step = "idle"
    BY <2>1 DEF InProgress
  <2>10. /\ ~ history.stale => mastery.criteriaMet = {c \in CriterionId : Meets(rows, c)}
         /\ ~ history.failed /\ mastery.masteredAt = Never =>
              \A k \in 0..(IF history.stale THEN Len(rows) - 1 ELSE Len(rows)) : ~ AllMet(rows, k)
         /\ ~ history.failed => ~ history.stale
    BY <1>4, <2>9 DEF RubricInv
  <2>11. \A p \in Requests : ReadAll(req[p])'
    BY <2>2, <2>3, <2>9 DEF ReadAll
  <2>12. ASSUME ~ history'.stale
         PROVE  mastery'.criteriaMet = {c \in CriterionId : Meets(rows', c)}
    BY <2>1, <2>7, <2>10, <2>12
  <2>13. ASSUME ~ history'.failed, mastery'.masteredAt = Never,
                NEW k \in 0..(IF history'.stale THEN Len(rows') - 1 ELSE Len(rows'))
         PROVE  ~ AllMet(rows', k)
    <3>1. \A j \in 0..n : ~ AllMet(rows, j)
      BY <2>1, <2>10, <2>13
    <3>2. CASE k \in 0..n
      BY <2>1, <2>5, <3>1, <3>2
    <3>3. CASE k \notin 0..n
      <4>1. k = n + 1 /\ ~ history'.stale
        BY <1>1, <2>1, <2>4, <2>13, <3>3
      <4>2. n \in 0..n
        BY <1>1
      <4>. QED BY <2>1, <2>8, <3>1, <4>1, <4>2
    <3>. QED BY <3>2, <3>3
  <2>14. ASSUME ~ history'.failed, history'.stale
         PROVE  \E p \in Requests : Refreshing(req'[p])
    BY <2>1, <2>2, <2>3, <2>10, <2>14
  <2>15. (~ history.failed /\ history.stale => \E p \in Requests : Refreshing(req[p]))'
    BY <2>14 DEF Refreshing
  <2>. QED BY <2>11, <2>12, <2>13, <2>15
<1>6. ASSUME NEW r \in Requests, LogXp(r) PROVE RubricInv'
  <2> DEFINE q == afterXp(req[r].answer)
  <2>1. /\ rows' = rows /\ mastery' = mastery /\ history' = history /\ Local(r, q)
        /\ req[r].step = "xp"
    BY <1>6 DEF LogXp
  <2>2. q.rows = Never /\ (feedsMastery(req[r].answer) <=> Refreshing(q))
    BY GoesOn
  <2> HIDE DEF q
  <2>3. Refreshing(req[r]) => Refreshing(q)
    BY <2>1, <2>2 DEF Refreshing
  <2>. QED BY <2>1, <2>2, <2>3, RubricMove
<1>7. ASSUME NEW r \in Requests, RefreshReadRows(r) PROVE RubricInv'
  <2> DEFINE q == [req[r] EXCEPT !.rows = Len(rows)]
  <2>1. req[r] \in Record /\ req[r].step = "read"
    BY <1>1, <1>7 DEF Shaped, RefreshReadRows
  <2>2. q.rows = Len(rows) /\ q.step = "read"
    BY <2>1 DEF Record
  <2>3. /\ rows' = rows /\ mastery' = mastery /\ history' = history /\ Local(r, q)
    BY <1>7 DEF RefreshReadRows
  <2> HIDE DEF q
  <2>4. Refreshing(q)
    BY <2>2 DEF Refreshing
  <2>. QED BY <2>2, <2>3, <2>4, RubricMove
<1>8. ASSUME NEW r \in Requests, RefreshReadDate(r) PROVE RubricInv'
  <2> DEFINE q == [req[r] EXCEPT !.existing = mastery.masteredAt]
  <2>1. req[r] \in Record /\ req[r].step = "read"
    BY <1>1, <1>8 DEF Shaped, RefreshReadDate
  <2>2. q.rows = req[r].rows /\ q.step = "read"
    BY <2>1 DEF Record
  <2>3. /\ rows' = rows /\ mastery' = mastery /\ history' = history /\ Local(r, q)
    BY <1>8 DEF RefreshReadDate
  <2> HIDE DEF q
  <2>4. Refreshing(q)
    BY <2>2 DEF Refreshing
  <2>. QED BY <2>1, <2>2, <2>3, <2>4, RubricMove
<1>9. ASSUME NEW r \in Requests, RefreshWrite(r) PROVE RubricInv'
  <2> DEFINE n == Len(rows)
             k == req[r].rows
             old == req[r].existing
             met == computeMastery(SubSeq(rows, 1, k))
  <2>1. /\ rows' = rows /\ Local(r, Idle) /\ req[r].step = "read" /\ k # Never /\ old # None
        /\ history' = [history EXCEPT !.stale = FALSE]
        /\ mastery'.criteriaMet = met
        /\ mastery'.masteredAt = masteredDate(old, meetsEveryCriterion(met), n)
    BY <1>9 DEF RefreshWrite, Finish
  <2>2. /\ history'.overlapped = history.overlapped /\ history'.failed = history.failed
        /\ ~ history'.stale
    BY <1>1, <2>1 DEF History
  <2>3. req'[r] = Idle /\ \A p \in Requests : p # r => req'[p] = req[p]
    BY <1>1, <2>1, Moves
  <2> SUFFICES ASSUME ~ history'.overlapped
               PROVE  /\ \A p \in Requests : ReadAll(req[p])'
                      /\ mastery'.criteriaMet = {c \in CriterionId : Meets(rows', c)}
                      /\ ~ history'.failed /\ mastery'.masteredAt = Never =>
                           \A j \in 0..Len(rows') : ~ AllMet(rows', j)
    BY <2>2 DEF RubricInv
  <2>4. /\ \A p \in Requests : ReadAll(req[p])
        /\ ~ history.failed /\ mastery.masteredAt = Never =>
             \A j \in 0..(IF history.stale THEN Len(rows) - 1 ELSE Len(rows)) : ~ AllMet(rows, j)
        /\ old = mastery.masteredAt
    BY <1>1, <2>1, <2>2 DEF RubricInv, DateRead
  <2>5. k = n /\ SubSeq(rows, 1, n) = rows
    BY <1>1, <2>1, <2>4, SubSeqFull DEF ReadAll
  <2>6. \A p \in Requests : ReadAll(req[p])'
    BY <1>2, <2>1, <2>3, <2>4 DEF ReadAll
  <2>7. met = {c \in CriterionId : Meets(rows, c)}
    BY <1>1, <2>5, MasteryIs
  <2>8. meetsEveryCriterion(met) <=> AllMet(rows, n)
    <3>1. n \in 0..Len(rows)
      BY <1>1
    <3>. QED BY <1>1, <2>5, <3>1, FoundMet
  <2>9. ASSUME ~ history'.failed, mastery'.masteredAt = Never, NEW j \in 0..n
        PROVE  ~ AllMet(rows, j)
    <3>1. old = Never /\ ~ meetsEveryCriterion(met)
      <4>1. n # Never
        BY <1>1 DEF Never
      <4> HIDE DEF n, met, old
      <4>. QED BY <2>1, <2>9, <4>1 DEF masteredDate
    <3>2. CASE j = n
      BY <2>8, <3>1, <3>2
    <3>3. CASE j # n
      <4>1. j \in 0..(IF history.stale THEN Len(rows) - 1 ELSE Len(rows))
        BY <1>1, <3>3
      <4>. QED BY <2>2, <2>4, <2>9, <3>1, <4>1
    <3>. QED BY <3>2, <3>3
  <2>. QED BY <2>1, <2>6, <2>7, <2>9
<1>10. ASSUME NEW r \in Requests, NEW badge \in Badges, AwardRead(r, badge) PROVE RubricInv'
  <2> DEFINE q == [Idle EXCEPT !.step = "award", !.badge = badge]
  <2>1. q.step = "award"
    BY DEF Idle
  <2>2. /\ rows' = rows /\ mastery' = mastery /\ Local(r, q) /\ req[r].step = "idle"
        /\ history' = Arriving(history)
    BY <1>10 DEF AwardRead
  <2> HIDE DEF q
  <2>3. ~ Refreshing(req[r])
    BY <2>2 DEF Refreshing
  <2>. QED BY <1>1, <1>3, <2>1, <2>2, <2>3, RubricMove
<1>11. ASSUME NEW r \in Requests, AwardWrite(r) \/ StreakWrite(r) PROVE RubricInv'
  <2>1. /\ rows' = rows /\ mastery' = mastery /\ history' = history
        /\ Local(r, Idle) /\ req[r].step \in {"award", "streak"}
    BY <1>11 DEF AwardWrite, StreakWrite, Finish
  <2>2. ~ Refreshing(req[r])
    BY <2>1 DEF Refreshing
  <2>. QED BY <1>2, <2>1, <2>2, RubricMove
<1>12. ASSUME NEW r \in Requests, StreakRead(r) PROVE RubricInv'
  <2> DEFINE c == (streak.lastActive = day - 1)
             s == [Idle EXCEPT !.step = "streak", !.consecutive = c]
  <2>1. s.step = "streak"
    BY DEF Idle
  <2>2. /\ rows' = rows /\ mastery' = mastery /\ req[r].step = "idle"
        /\ Local(r, Idle) \/ Local(r, s)
        /\ history' = [Arriving(history) EXCEPT !.activeDays = @ \cup {day}]
    BY <1>12 DEF StreakRead, Finish
  <2>3. /\ history'.overlapped = (history.overlapped \/ InProgress)
        /\ history'.failed = history.failed /\ history'.stale = history.stale
    <3>1. /\ history'.overlapped = Arriving(history).overlapped
          /\ history'.failed = Arriving(history).failed
          /\ history'.stale = Arriving(history).stale
      BY <1>1, <1>3, <2>2 DEF History
    <3>. QED BY <1>1, <1>3, <3>1
  <2> HIDE DEF s
  <2>4. ~ Refreshing(req[r])
    BY <2>2 DEF Refreshing
  <2>5. CASE Local(r, Idle)
    BY <1>2, <2>2, <2>3, <2>4, <2>5, RubricMove
  <2>6. CASE Local(r, s)
    BY <2>1, <2>2, <2>3, <2>4, <2>6, RubricMove
  <2>. QED BY <2>2, <2>5, <2>6
<1>13. ASSUME NEW r \in Requests, Fail(r) PROVE RubricInv'
  <2>1. /\ rows' = rows /\ mastery' = mastery /\ Local(r, Idle)
    BY <1>13 DEF Fail, Finish
  <2>2. /\ history'.overlapped = history.overlapped /\ history'.failed
        /\ history'.stale = history.stale
    BY <1>1, <1>13 DEF Fail, History
  <2>. QED BY <1>2, <2>1, <2>2, RubricMove
\* Nobody's request moves.
<1>14. ASSUME req' = req, rows' = rows, mastery'.masteredAt = mastery.masteredAt,
              mastery'.criteriaMet = mastery.criteriaMet,
              history'.overlapped = history.overlapped, history'.failed = history.failed,
              history'.stale = history.stale
       PROVE  RubricInv'
  BY <1>14 DEF RubricInv, ReadAll, Refreshing
<1>15. ASSUME NEW score \in {0, 100}, SessionEnd(score) PROVE RubricInv'
  <2>1. /\ req' = req /\ rows' = rows /\ history' = history
        /\ mastery' = [mastery EXCEPT !.exists = TRUE, !.score = score]
    BY <1>15 DEF SessionEnd
  <2>2. /\ mastery'.masteredAt = mastery.masteredAt
        /\ mastery'.criteriaMet = mastery.criteriaMet
    BY <1>1, <2>1
  <2>. QED BY <1>14, <2>1, <2>2
<1>16. CASE NextDay
  <2>1. /\ req' = req /\ rows' = rows /\ mastery' = mastery
    BY <1>16 DEF NextDay
  <2>2. /\ history'.overlapped = history.overlapped /\ history'.failed = history.failed
        /\ history'.stale = history.stale
    BY <1>1, <1>16 DEF NextDay, History
  <2>. QED BY <1>14, <2>1, <2>2
<1>17. CASE UNCHANGED vars
  BY <1>14, <1>17 DEF vars
<1>. QED BY <1>5, <1>6, <1>7, <1>8, <1>9, <1>10, <1>11, <1>12, <1>13, <1>15, <1>16, <1>17
     DEF Next

----------------------------------------------------------------------------
(* What is earned                                                           *)

RewardInv == ProgressInv /\ XpInv /\ DatesInv /\ RubricInv

\* It holds at the start ...
LEMMA RewardInit == Init => RewardInv
PROOF
<1> SUFFICES ASSUME Init PROVE RewardInv
  OBVIOUS
<1>1. /\ rows = <<>> /\ xpTotal = 0 /\ mastery.masteredAt = Never /\ mastery.score = 0
      /\ mastery.criteriaMet = {} /\ badges = {} /\ streak.lastActive = Never
      /\ history.lostXp = 0 /\ ~ history.stale
      /\ \A r \in Requests : req[r].step = "idle"
  BY Records DEF Init, NoMastery
<1>2. <<>> \in Seq(Answers) /\ Len(<<>>) = 0 /\ SubSeq(<<>>, 1, 0) = <<>>
  OBVIOUS
<1>3. \A c \in CriterionId : ~ Meets(rows, c)
  BY <1>1, NothingMet
<1>4. XpInv
  <2>1. pendingXp = {}
    BY <1>1 DEF pendingXp
  <2>2. /\ IsFiniteSet({}) /\ Cardinality({}) = 0 /\ owed({}, req) = 0 /\ earned(<<>>) = 0
    BY FS_EmptySet, OwedNone, EarnedEmpty
  <2>3. XpAccounted
    BY <1>1, <2>1, <2>2 DEF XpAccounted, BADGE_XP
  <2>. QED BY <1>1, <2>1, <2>2, <2>3 DEF XpInv
<1>5. DatesInv
  BY <1>1 DEF DatesInv, Earlier, ReadWell
<1>6. RubricInv
  <2>1. ~ AllMet(rows, 0)
    <3>1. SubSeq(rows, 1, 0) = rows /\ "ACCURACY" \in Applicable /\ "ACCURACY" \in CriterionId
      BY <1>1, <1>2, ProgressAssumption DEF CriterionId
    <3>. QED BY <1>3, <3>1 DEF AllMet
  <2>2. \A k \in 0..Len(rows) : k = 0
    BY <1>1, <1>2
  <2>3. \A k \in 0..Len(rows) : ~ AllMet(rows, k)
    BY <2>1, <2>2
  <2>4. mastery.criteriaMet = {c \in CriterionId : Meets(rows, c)}
    BY <1>1, <1>3
  <2>. QED BY <1>1, <2>3, <2>4 DEF RubricInv, ReadAll
<1>. QED BY <1>4, <1>5, <1>6, ProgressInit DEF RewardInv

\* ... and after every step ...
LEMMA RewardStep == RewardInv /\ [Next]_vars => RewardInv'
BY ProgressStep, XpStep, DatesStep, RubricStep DEF RewardInv

\* ... and gives every variable its shape ...
LEMMA RewardTypes == RewardInv => TypeOK
PROOF
<1> SUFFICES ASSUME RewardInv PROVE TypeOK
  OBVIOUS
<1>1. /\ rows \in Seq(Answers) /\ day \in Nat \ {0} /\ left \in Budget
      /\ req \in [Requests -> Record]
      /\ streak \in [count : Nat, lastActive : Nat \cup {Never}]
      /\ mastery \in [exists : BOOLEAN, criteriaMet : SUBSET CriterionId,
                      masteredAt : Nat \cup {Never}, score : {mastery.score}]
  BY DEF RewardInv, ProgressInv, DateInv, Shaped
<1>2. /\ xpTotal \in Nat /\ badges \subseteq Badges
      /\ mastery.score \in Nat /\ mastery.score <= 100
      /\ streak.lastActive # Never => streak.lastActive \in 1..day
  BY DEF RewardInv, XpInv, DatesInv
<1>3. mastery \in Mastery
  BY <1>1, <1>2 DEF Mastery
<1>4. streak \in [count : Nat, lastActive : (1..day) \cup {Never}]
  BY <1>1, <1>2
<1>5. req \in [Requests -> Request]
  BY <1>1 DEF Request, Record
<1>. QED BY <1>1, <1>2, <1>3, <1>4, <1>5 DEF TypeOK

\* ... mastery only what was met ...
LEMMA RewardDates == RewardInv => MasteredEarned
PROOF
<1> SUFFICES ASSUME RewardInv, mastery.masteredAt # Never PROVE EverMet(mastery.masteredAt)
  BY DEF MasteredEarned
<1>1. Earlier(rows, mastery.masteredAt)
  BY DEF RewardInv, DatesInv
<1>. QED BY <1>1 DEF Earlier, EverMet, AllMet

\* ... and the stored rubric its currency.
LEMMA RewardRubric == RewardInv => RubricCurrent
PROOF
<1> SUFFICES ASSUME RewardInv, idle, ~ history.overlapped, ~ history.stale
             PROVE  /\ mastery.criteriaMet = {c \in CriterionId : Meets(rows, c)}
                    /\ ~ history.failed /\ EverMet(Len(rows)) => mastery.masteredAt # Never
  BY DEF RubricCurrent
<1>1. /\ mastery.criteriaMet = {c \in CriterionId : Meets(rows, c)}
      /\ ~ history.failed /\ mastery.masteredAt = Never =>
           \A k \in 0..Len(rows) : ~ AllMet(rows, k)
  BY DEF RewardInv, RubricInv
<1>2. EverMet(Len(rows)) <=> \E k \in 0..Len(rows) : AllMet(rows, k)
  BY DEF EverMet, AllMet
<1>. QED BY <1>1, <1>2

\* logInteraction, refreshTopicMastery and the award of badges, however
\* requests interleave and whichever of their calls fail: the XP is what the
\* rows and the badges are worth, less what is still to be added or was lost;
\* and a topic is mastered only if, no later than its date, all that applies
\* was met at one time.
THEOREM XpAndMasteryAreEarned == Spec => [](XpAccounted /\ MasteredEarned)
PROOF
<1>1. RewardInv => XpAccounted /\ MasteredEarned
  BY RewardDates DEF RewardInv, XpInv
<1>. QED BY <1>1, RewardInit, RewardStep, PTL DEF Spec

\* All that the API keeps of a student's progress is what the stored rows and
\* the days of activity earn: the above, and for a student whose requests do
\* not overlap the stored rubric is that of the rows whenever a refresh has
\* followed the last row it reads, nothing that was met goes undated unless a
\* call failed, and the streak is honest.
THEOREM RewardsEarned == Spec => []RewardsAreEarned
PROOF
<1>1. RewardInv => TypeOK /\ XpAccounted /\ MasteredEarned /\ RubricCurrent
  BY RewardTypes, RewardDates, RewardRubric DEF RewardInv, XpInv
<1>2. Spec => [](TypeOK /\ XpAccounted /\ MasteredEarned /\ RubricCurrent)
  BY <1>1, RewardInit, RewardStep, PTL DEF Spec
<1>3. TypeOK /\ XpAccounted /\ MasteredEarned /\ RubricCurrent /\ StreakHonest <=> RewardsAreEarned
  BY DEF RewardsAreEarned
<1>. QED BY <1>2, <1>3, StreakIsHonest, PTL
=============================================================================
