------------------------ MODULE FeedbackStreamProofs ------------------------
(***************************************************************************)
(* Theorems about FeedbackStream, for every set of explanations, every cap *)
(* on the sentences and pieces of every length: what is shown is what the  *)
(* whole text holds and every sentence of it was checked, the stream takes *)
(* only steps of its contract, and what is cached is what was shown.       *)
(*                                                                         *)
(* A reader is defined that takes the model's text in symbol by symbol;    *)
(* the streamer and the gate, whatever the pieces, have always come to     *)
(* what this reader has read of some first symbols of the value.           *)
(***************************************************************************)
EXTENDS FeedbackStream, FiniteSetTheorems, SequenceTheorems, WellFoundedInduction, TLAPS

----------------------------------------------------------------------------
(* Induction and recursion                                                  *)

\* Induction, as the absence of a least counterexample.
LEMMA Induction ==
  ASSUME NEW G, 0 \in G, \A n \in Nat : n \in G => n + 1 \in G
  PROVE  \A n \in Nat : n \in G
<1> SUFFICES ASSUME NEW x \in Nat, x \notin G PROVE FALSE
  OBVIOUS
<1> DEFINE Rest == {n \in Nat : n \notin G}
<1>1. PICK n \in Rest : \A m \in Rest : ~ (<<m, n>> \in OpToRel(<, Nat))
  <2>1. Rest # {} /\ Rest \subseteq Nat
    OBVIOUS
  <2> HIDE DEF Rest
  <2>. QED BY <2>1, NatLessThanWellFounded, WFMin
<1>2. n \in Nat /\ n # 0 /\ n - 1 \in Nat /\ n - 1 < n
  OBVIOUS
<1>3. n - 1 \notin Rest
  BY <1>1, <1>2 DEF OpToRel
<1>. QED BY <1>2, <1>3

\* Induction over sequences that grow at their end.
LEMMA TextInduction ==
  ASSUME NEW S, NEW G, <<>> \in G,
         \A t \in Seq(S), c \in S : t \in G => Append(t, c) \in G
  PROVE  \A t \in Seq(S) : t \in G
<1> DEFINE H == {n \in Nat : \A t \in Seq(S) : Len(t) = n => t \in G}
<1>1. 0 \in H
  BY EmptySeq
<1>2. ASSUME NEW n \in Nat, n \in H PROVE n + 1 \in H
  <2> SUFFICES ASSUME NEW t \in Seq(S), Len(t) = n + 1 PROVE t \in G
    OBVIOUS
  <2>1. t # <<>>
    OBVIOUS
  <2>2. PICK s \in Seq(S), c \in S : t = Append(s, c)
    BY <2>1, SequenceEmptyOrAppend
  <2>3. Len(s) = n
    BY <2>2, AppendProperties, LenProperties
  <2>. QED BY <1>2, <2>2, <2>3
<1> HIDE DEF H
<1>3. \A n \in Nat : n \in H
  BY <1>1, <1>2, Induction
<1> USE DEF H
<1>. QED BY <1>3, LenProperties

\* f[0], ..., f[n] are the values of S that step goes through from a on.
Iterates(f, n, S, a, step) ==
  /\ f \in [0..n -> S]
  /\ f[0] = a
  /\ \A i \in 1..n : f[i] = step[<<i, f[i - 1]>>]

\* A function of the naturals that starts from a and takes a step each time exists.
LEMMA Recursion ==
  ASSUME NEW S, NEW a \in S, NEW step \in [Nat \X S -> S], NEW n \in Nat
  PROVE  \E f : Iterates(f, n, S, a, step)
<1> DEFINE Good(k) == \E f \in [0..k -> S] :
                        f[0] = a /\ \A i \in 1..k : f[i] = step[<<i, f[i - 1]>>]
           G == {k \in Nat : Good(k)}
<1>1. 0 \in G
  <2> DEFINE g == [i \in 0..0 |-> a]
  <2>1. g \in [0..0 -> S] /\ g[0] = a /\ 1..0 = {}
    OBVIOUS
  <2>2. Good(0)
    <3> HIDE DEF g
    <3>. QED BY <2>1
  <2>. QED BY <2>2
<1>2. ASSUME NEW k \in Nat, k \in G PROVE k + 1 \in G
  <2>1. PICK f \in [0..k -> S] : f[0] = a /\ \A i \in 1..k : f[i] = step[<<i, f[i - 1]>>]
    BY <1>2
  <2> DEFINE g == [i \in 0..(k + 1) |-> IF i = k + 1 THEN step[<<k + 1, f[k]>>] ELSE f[i]]
  <2>2. g \in [0..(k + 1) -> S]
    BY <2>1
  <2>3. g[0] = a
    BY <2>1
  <2>4. \A i \in 1..(k + 1) : g[i] = step[<<i, g[i - 1]>>]
    <3> TAKE i \in 1..(k + 1)
    <3>1. CASE i = k + 1
      <4>1. i - 1 = k /\ k # k + 1 /\ k \in 0..(k + 1) /\ k + 1 \in 0..(k + 1)
        BY <3>1
      <4>2. g[k] = f[k] /\ g[k + 1] = step[<<k + 1, f[k]>>]
        BY <4>1
      <4>. QED BY <3>1, <4>1, <4>2
    <3>2. CASE i # k + 1
      <4>1. i \in 1..k /\ i - 1 \in 0..k /\ i \in 0..k
        BY <3>2
      <4>2. g[i] = f[i] /\ g[i - 1] = f[i - 1]
        BY <3>2, <4>1
      <4>. QED BY <2>1, <4>1, <4>2
    <3>. QED BY <3>1, <3>2
  <2>5. Good(k + 1)
    <3> HIDE DEF g
    <3>. QED BY <2>2, <2>3, <2>4
  <2>. QED BY <2>5
<1> HIDE DEF G
<1>3. n \in G
  BY <1>1, <1>2, Induction
<1>. QED BY <1>3 DEF G, Iterates

\* FlattenSeq read as an iteration that starts from the empty sequence.
LEMMA FlattenUnfold ==
  ASSUME NEW S, NEW q \in Seq(Seq(S)), NEW m \in Nat, NEW f \in [0..m -> Seq(S)],
         Len(q) <= m, f[0] = <<>>, \A i \in 1..Len(q) : f[i] = f[i - 1] \o q[i]
  PROVE  FlattenSeq(q) = f[Len(q)]
<1> DEFINE n == Len(q)
<1>0. n \in Nat /\ q \in [1..n -> Seq(S)]
  BY LenProperties
<1>1. CASE n = 0
  <2>1. q = <<>>
    BY <1>1
  <2>. QED BY <1>1, <2>1 DEF FlattenSeq
<1>2. CASE n # 0
  <2> DEFINE Is(x) == x = [i \in 1..n |-> IF i = 1 THEN q[i] ELSE x[i - 1] \o q[i]]
             c == CHOOSE x : Is(x)
             g == [i \in 1..n |-> f[i]]
  <2>1. f[1] = q[1]
    <3>1. 1 \in 1..n /\ q[1] \in Seq(S) /\ 1 - 1 = 0
      BY <1>0, <1>2
    <3>2. f[1] = f[1 - 1] \o q[1]
      BY <3>1
    <3>. QED BY <3>1, <3>2, ConcatEmptySeq
  <2>2. Is(g)
    <3>1. \A i \in 1..n : g[i] = IF i = 1 THEN q[i] ELSE g[i - 1] \o q[i]
      <4> TAKE i \in 1..n
      <4>1. CASE i = 1
        BY <2>1, <4>1
      <4>2. CASE i # 1
        <5>1. i - 1 \in 1..n /\ i \in 1..n
          BY <4>2, <1>0
        <5>2. g[i - 1] = f[i - 1] /\ g[i] = f[i]
          BY <5>1
        <5>3. f[i] = f[i - 1] \o q[i]
          BY <5>1
        <5>. QED BY <4>2, <5>2, <5>3
      <4>. QED BY <4>1, <4>2
    <3>2. g = [i \in 1..n |-> g[i]]
      OBVIOUS
    <3> HIDE DEF g
    <3>. QED BY <3>1, <3>2
  <2>3. Is(c)
    <3> HIDE DEF g
    <3> SUFFICES \E x : Is(x)
      BY Zenon
    <3>. QED BY <2>2
  <2>4. FlattenSeq(q) = c[n]
    BY <1>2 DEF FlattenSeq
  <2> DEFINE G == {k \in Nat : k + 1 \in 1..n => c[k + 1] = f[k + 1]}
  <2>5. 0 \in G
    <3>1. 1 \in 1..n
      BY <1>0, <1>2
    <3>2. c[1] = q[1]
      <4> HIDE DEF c, n
      <4>. QED BY <2>3, <3>1
    <3>. QED BY <2>1, <3>2
  <2>6. ASSUME NEW k \in Nat, k \in G PROVE k + 1 \in G
    <3> SUFFICES ASSUME k + 2 \in 1..n PROVE c[k + 2] = f[k + 2]
      OBVIOUS
    <3>1. k + 1 \in 1..n /\ k + 2 # 1 /\ (k + 2) - 1 = k + 1
      BY <1>0
    <3>2. c[k + 2] = c[k + 1] \o q[k + 2]
      BY <2>3, <3>1
    <3>3. f[k + 2] = f[k + 1] \o q[k + 2]
      BY <3>1
    <3>4. c[k + 1] = f[k + 1]
      BY <2>6, <3>1
    <3>. QED BY <3>2, <3>3, <3>4
  <2> HIDE DEF G, c, g
  <2>7. n - 1 \in G
    <3>1. n - 1 \in Nat
      BY <1>0, <1>2
    <3>. QED BY <2>5, <2>6, <3>1, Induction
  <2>8. c[n] = f[n]
    BY <2>7, <1>0, <1>2 DEF G
  <2>. QED BY <2>4, <2>8
<1>. QED BY <1>1, <1>2

\* FlattenSeq of one sequence more.
LEMMA FlattenAppend ==
  ASSUME NEW S, NEW q \in Seq(Seq(S)), NEW e \in Seq(S)
  PROVE  /\ FlattenSeq(q) \in Seq(S)
         /\ FlattenSeq(Append(q, e)) = FlattenSeq(q) \o e
<1> DEFINE n == Len(q)
           m == n + 1
           p == Append(q, e)
           step == [x \in Nat \X Seq(S) |-> IF x[1] \in 1..m THEN x[2] \o p[x[1]] ELSE <<>>]
<1>0. n \in Nat /\ m \in Nat /\ m = n + 1
  BY LenProperties
<1>1. /\ p \in Seq(Seq(S)) /\ Len(p) = m /\ p[m] = e
      /\ \A i \in 1..n : p[i] = q[i]
      /\ \A i \in 1..m : p[i] \in Seq(S)
  <2>1. n \in Nat /\ \A i \in 1..n : q[i] \in Seq(S)
    BY LenProperties
  <2>. QED BY <2>1, AppendProperties
<1> HIDE DEF n, m, p
<1>2. step \in [Nat \X Seq(S) -> Seq(S)]
  <2>1. ASSUME NEW x \in Nat \X Seq(S)
        PROVE  (IF x[1] \in 1..m THEN x[2] \o p[x[1]] ELSE <<>>) \in Seq(S)
    BY <1>1, ConcatProperties, EmptySeq
  <2>. QED BY <2>1
<1>3. <<>> \in Seq(S)
  BY EmptySeq
<1>4. PICK f : Iterates(f, m, Seq(S), <<>>, step)
  <2> HIDE DEF step
  <2>. QED BY <1>0, <1>2, <1>3, Recursion, Zenon
<1>5. /\ f \in [0..m -> Seq(S)] /\ f[0] = <<>>
      /\ \A i \in 1..m : f[i] = step[<<i, f[i - 1]>>]
  <2> HIDE DEF step
  <2>. QED BY <1>4 DEF Iterates
<1>9. \A i \in 1..m : f[i] = f[i - 1] \o p[i]
  <2> TAKE i \in 1..m
  <2>1. i \in Nat /\ i - 1 \in 0..m /\ i \in 0..m
    BY <1>0
  <2>2. f[i - 1] \in Seq(S) /\ f[i] \in Seq(S)
    BY <1>5, <2>1
  <2>3. step[<<i, f[i - 1]>>] = f[i - 1] \o p[i]
    BY <2>1, <2>2
  <2>. QED BY <1>5, <2>2, <2>3
<1> HIDE DEF step
<1>6. FlattenSeq(p) = f[m]
  <2>0. Len(p) = m
    BY <1>1
  <2>1. Len(p) <= m /\ \A i \in 1..Len(p) : f[i] = f[i - 1] \o p[i]
    BY <1>0, <1>9, <2>0
  <2>2. FlattenSeq(p) = f[Len(p)]
    BY <1>0, <1>1, <1>5, <2>1, FlattenUnfold
  <2>. QED BY <1>1, <2>2
<1>7. FlattenSeq(q) = f[n]
  <2>1. \A i \in 1..Len(q) : f[i] = f[i - 1] \o q[i]
    <3> TAKE i \in 1..Len(q)
    <3>1. i \in 1..n /\ i \in 1..m
      BY <1>0 DEF n
    <3>. QED BY <1>1, <1>9, <3>1
  <2>2. Len(q) <= m
    BY <1>0 DEF n
  <2>3. FlattenSeq(q) = f[Len(q)]
    BY <1>0, <1>5, <2>1, <2>2, FlattenUnfold
  <2>. QED BY <2>3 DEF n
<1>8. f[n] \in Seq(S) /\ f[m] = f[n] \o e
  <2>1. m \in 1..m /\ m - 1 = n /\ n \in 0..m
    BY <1>0
  <2>. QED BY <1>1, <1>5, <1>9, <2>1
<1>. QED BY <1>6, <1>7, <1>8 DEF p

\* FlattenSeq of no sequence.
LEMMA FlattenEmpty == FlattenSeq(<<>>) = <<>>
BY DEF FlattenSeq

\* FlattenSeq of what each place of a text becomes, one place more.
LEMMA SpreadAppend ==
  ASSUME NEW S, NEW n \in Nat, NEW p \in [1..(n + 1) -> Seq(S)],
         NEW q \in [1..n -> Seq(S)], \A i \in 1..n : p[i] = q[i]
  PROVE  /\ FlattenSeq(q) \in Seq(S)
         /\ FlattenSeq(p) \in Seq(S)
         /\ FlattenSeq(p) = FlattenSeq(q) \o p[n + 1]
<1> DEFINE e == p[n + 1]
<1>1. q \in Seq(Seq(S)) /\ Len(q) = n /\ e \in Seq(S)
  OBVIOUS
<1>2. p = Append(q, e)
  <2>1. p \in Seq(Seq(S)) /\ Len(p) = n + 1
    OBVIOUS
  <2>2. /\ Append(q, e) \in Seq(Seq(S)) /\ Len(Append(q, e)) = n + 1
        /\ \A i \in 1..n : Append(q, e)[i] = p[i]
        /\ Append(q, e)[n + 1] = p[n + 1]
    BY <1>1, AppendProperties
  <2>3. \A i \in 1..(n + 1) : Append(q, e)[i] = p[i]
    BY <2>2
  <2>. QED BY <2>1, <2>2, <2>3, SeqEqual
<1> HIDE DEF e
<1>3. FlattenSeq(Append(q, e)) = FlattenSeq(q) \o e /\ FlattenSeq(q) \in Seq(S)
  BY <1>1, FlattenAppend
<1>4. FlattenSeq(q) \o e \in Seq(S)
  BY <1>1, <1>3, ConcatProperties
<1>5. FlattenSeq(p) = FlattenSeq(q) \o e /\ FlattenSeq(p) \in Seq(S)
  BY <1>2, <1>3, <1>4
<1>. QED BY <1>3, <1>5 DEF e

----------------------------------------------------------------------------
(* Texts                                                                   *)

\* The symbols of a text that has been decoded: "=" stands for a hyphen.
Alphabet == Letters \cup {"="}
\* Texts.
Text == Seq(Alphabet)
\* Texts whose dashes have been sanitized.
CleanText == Seq(Alphabet \ {"-"})

\* What c adds to t for a reader.
Adds(t, c) ==
  IF c \notin White THEN <<c>>
  ELSE IF t # <<>> /\ Last(t) \in White THEN <<>>
  ELSE <<" ">>

\* The letters, and the white ones among them.
LEMMA LettersAre == Letters \subseteq Alphabet /\ " " \in Letters /\ White \subseteq Letters
BY DEF Letters, Alphabet, White

\* Texts of no symbol and of one.
LEMMA ShortTexts ==
  <<>> \in Text /\ <<" ">> \in Text /\ \A c \in Alphabet : <<c>> \in Text
<1>1. \A c \in Alphabet : <<c>> \in Seq(Alphabet)
  OBVIOUS
<1>2. <<>> \in Seq(Alphabet)
  OBVIOUS
<1>3. " " \in Alphabet
  BY LettersAre
<1>. QED BY <1>1, <1>2, <1>3 DEF Text

\* A text with one symbol more.
LEMMA TextAppend ==
  ASSUME NEW t \in Text, NEW c \in Alphabet
  PROVE  /\ Append(t, c) \in Text
         /\ Len(t) \in Nat
         /\ Len(Append(t, c)) = Len(t) + 1
         /\ DOMAIN t = 1..Len(t)
         /\ DOMAIN Append(t, c) = 1..(Len(t) + 1)
         /\ \A i \in 1..Len(t) : Append(t, c)[i] = t[i] /\ t[i] \in Alphabet
         /\ Append(t, c)[Len(t) + 1] = c
BY AppendProperties, LenProperties, ElementOfSeq DEF Text

\* Squeezing nothing.
LEMMA SqueezeEmpty == Squeeze(<<>>) = <<>>
<1>1. DOMAIN <<>> = {}
  OBVIOUS
<1>2. Squeeze(<<>>) = FlattenSeq(<<>>)
  BY <1>1 DEF Squeeze
<1>. QED BY <1>2, FlattenEmpty

\* Squeezing a text reads it symbol by symbol.
LEMMA SqueezeAppend ==
  ASSUME NEW t \in Text, NEW c \in Alphabet
  PROVE  /\ Squeeze(t) \in Text
         /\ Squeeze(Append(t, c)) \in Text
         /\ Squeeze(Append(t, c)) = Squeeze(t) \o Adds(t, c)
<1> DEFINE n == Len(t)
           u == Append(t, c)
           E(s, i) == CASE s[i] \notin White -> <<s[i]>>
                        [] s[i] \in White /\ i > 1 /\ s[i - 1] \in White -> <<>>
                        [] OTHER -> <<" ">>
           p == [i \in 1..(n + 1) |-> E(u, i)]
           q == [i \in 1..n |-> E(t, i)]
<1>1. /\ n \in Nat /\ DOMAIN t = 1..n /\ DOMAIN u = 1..(n + 1)
      /\ \A i \in 1..n : u[i] = t[i] /\ t[i] \in Alphabet
      /\ u[n + 1] = c
  BY TextAppend
<1>2. Squeeze(t) = FlattenSeq(q) /\ Squeeze(u) = FlattenSeq(p)
  BY <1>1 DEF Squeeze
<1> HIDE DEF n, u
<1>3. /\ \A i \in 1..n : E(t, i) \in Text
      /\ \A i \in 1..(n + 1) : E(u, i) \in Text
  <2>1. <<>> \in Text /\ \A s \in Alphabet : <<s>> \in Text
    BY DEF Text
  <2>2. " " \in Alphabet
    BY LettersAre
  <2>3. \A i \in 1..(n + 1) : u[i] \in Alphabet
    BY <1>1
  <2>. QED BY <1>1, <2>1, <2>2, <2>3
<1>4. \A i \in 1..n : E(u, i) = E(t, i)
  <2> TAKE i \in 1..n
  <2>1. u[i] = t[i] /\ (i > 1 => u[i - 1] = t[i - 1])
    BY <1>1
  <2>. QED BY <2>1
<1>5. E(u, n + 1) = Adds(t, c)
  <2>1. n > 0 => u[n] = t[n]
    BY <1>1
  <2>2. (t # <<>>) <=> n > 0
    BY <1>1 DEF n, Text
  <2>3. t # <<>> => Last(t) = u[n]
    BY <2>1, <2>2 DEF Last, n
  <2>4. (n + 1 > 1 <=> n > 0) /\ (n + 1) - 1 = n
    BY <1>1
  <2>5. CASE c \notin White
    BY <1>1, <2>5 DEF Adds
  <2>6. CASE c \in White /\ t # <<>> /\ Last(t) \in White
    BY <1>1, <2>2, <2>3, <2>4, <2>6 DEF Adds
  <2>7. CASE c \in White /\ ~(t # <<>> /\ Last(t) \in White)
    BY <1>1, <2>2, <2>3, <2>4, <2>7 DEF Adds
  <2>. QED BY <2>5, <2>6, <2>7
<1> HIDE DEF E
<1>6. p \in [1..(n + 1) -> Text] /\ q \in [1..n -> Text] /\ \A i \in 1..n : p[i] = q[i]
  BY <1>1, <1>3, <1>4
<1>7. p[n + 1] = Adds(t, c)
  BY <1>1, <1>5
<1> HIDE DEF p, q
<1>8. /\ FlattenSeq(q) \in Text /\ FlattenSeq(p) \in Text
      /\ FlattenSeq(p) = FlattenSeq(q) \o p[n + 1]
  BY <1>1, <1>6, SpreadAppend DEF Text
<1>. QED BY <1>2, <1>7, <1>8 DEF u

\* A set of places that is not empty has a first and a last.
LEMMA Extremes ==
  ASSUME NEW n \in Nat, NEW S, S \subseteq 1..n, S # {}
  PROVE  /\ Min(S) \in S /\ \A y \in S : Min(S) <= y
         /\ Max(S) \in S /\ \A y \in S : Max(S) >= y
<1>1. \E x \in S : \A y \in S : x <= y
  <2>1. PICK x \in S : \A m \in S : ~ (<<m, x>> \in OpToRel(<, Nat))
    <3>1. S \subseteq Nat
      OBVIOUS
    <3>. QED BY <3>1, NatLessThanWellFounded, WFMin
  <2>2. \A y \in S : x <= y
    <3> SUFFICES ASSUME NEW y \in S, ~ (x <= y) PROVE FALSE
      OBVIOUS
    <3>1. x \in Nat /\ y \in Nat /\ y < x
      OBVIOUS
    <3>. QED BY <2>1, <3>1 DEF OpToRel
  <2>. QED BY <2>2
<1>2. \E x \in S : \A y \in S : x >= y
  <2> DEFINE U == {m \in 0..n : n - m \in S}
  <2>1. PICK x \in U : \A m \in U : ~ (<<m, x>> \in OpToRel(<, Nat))
    <3>1. U \subseteq Nat
      OBVIOUS
    <3>2. U # {}
      <4>1. PICK s : s \in S
        OBVIOUS
      <4>2. n - s \in 0..n /\ n - (n - s) = s
        BY <4>1
      <4>. QED BY <4>1, <4>2
    <3> HIDE DEF U
    <3>. QED BY <3>1, <3>2, NatLessThanWellFounded, WFMin
  <2>2. \A y \in S : n - x >= y
    <3> SUFFICES ASSUME NEW y \in S, ~ (n - x >= y) PROVE FALSE
      OBVIOUS
    <3>1. n - y \in U
      OBVIOUS
    <3>2. x \in Nat /\ n - y \in Nat /\ n - y < x
      OBVIOUS
    <3>. QED BY <2>1, <3>1, <3>2 DEF OpToRel
  <2>. QED BY <2>2
<1>3. Min(S) \in S /\ \A y \in S : Min(S) <= y
  BY <1>1 DEF Min
<1>4. Max(S) \in S /\ \A y \in S : Max(S) >= y
  BY <1>2 DEF Max
<1>. QED BY <1>3, <1>4

\* The words of t: what is left of it for a reader.
Said(t) == Squeeze(Strip(t))

\* The ink of a text with one symbol more.
LEMMA InkedAppend ==
  ASSUME NEW t \in Text, NEW c \in Alphabet
  PROVE  /\ Inked(t) \subseteq 1..Len(t)
         /\ c \in White => Inked(Append(t, c)) = Inked(t)
         /\ c \notin White => Inked(Append(t, c)) = Inked(t) \cup {Len(t) + 1}
<1> DEFINE n == Len(t)
           u == Append(t, c)
<1>1. /\ n \in Nat /\ DOMAIN t = 1..n /\ DOMAIN u = 1..(n + 1)
      /\ \A i \in 1..n : u[i] = t[i] /\ t[i] \in Alphabet
      /\ u[n + 1] = c
  BY TextAppend
<1> HIDE DEF n, u
<1>2. Inked(t) \subseteq 1..n
  BY <1>1 DEF Inked
<1>3. c \in White => Inked(u) = Inked(t)
  BY <1>1 DEF Inked
<1>4. c \notin White => Inked(u) = Inked(t) \cup {n + 1}
  BY <1>1 DEF Inked
<1>. QED BY <1>2, <1>3, <1>4 DEF n, u

\* Stripping a text leaves what lies between its first and its last ink.
LEMMA StripIs ==
  ASSUME NEW t \in Text, Inked(t) # {}
  PROVE  LET a == Min(Inked(t))
             b == Max(Inked(t))
         IN  /\ Strip(t) = SubSeq(t, a, b)
             /\ Strip(t) \in Text
             /\ a \in Inked(t) /\ b \in Inked(t)
             /\ 1 <= a /\ a <= b /\ b <= Len(t) /\ a \in Nat /\ b \in Nat /\ Len(t) \in Nat
             /\ \A i \in Inked(t) : a <= i /\ i <= b
             /\ Len(Strip(t)) = b - a + 1
             /\ Strip(t) # <<>>
             /\ Last(Strip(t)) = t[b]
             /\ Strip(t)[1] = t[a]
<1> DEFINE a == Min(Inked(t))
           b == Max(Inked(t))
           n == Len(t)
<1>1. n \in Nat /\ DOMAIN t = 1..n /\ \A i \in 1..n : t[i] \in Alphabet
  BY LenProperties, ElementOfSeq DEF Text
<1>2. Inked(t) \subseteq 1..n
  BY <1>1 DEF Inked
<1>3. /\ a \in Inked(t) /\ \A i \in Inked(t) : a <= i
      /\ b \in Inked(t) /\ \A i \in Inked(t) : b >= i
  <2> HIDE DEF n
  <2>. QED BY <1>1, <1>2, Extremes
<1> HIDE DEF a, b, n
<1>4. 1 <= a /\ a <= b /\ b <= n /\ a \in Nat /\ b \in Nat
  BY <1>1, <1>2, <1>3
<1>5. Strip(t) = SubSeq(t, a, b)
  BY DEF Strip, a, b
<1>6. /\ SubSeq(t, a, b) \in Seq(Alphabet)
      /\ Len(SubSeq(t, a, b)) = b - a + 1
      /\ \A i \in 1..(b - a + 1) : SubSeq(t, a, b)[i] = t[a + i - 1]
  BY <1>1, <1>4, SubSeqProperties
<1>7. SubSeq(t, a, b)[1] = t[a]
  BY <1>4, <1>6
<1>8. Last(SubSeq(t, a, b)) = t[b]
  <2>1. b - a + 1 \in 1..(b - a + 1) /\ a + (b - a + 1) - 1 = b
    BY <1>4
  <2>. QED BY <1>6, <2>1 DEF Last
<1>9. SubSeq(t, a, b) # <<>>
  <2>1. Len(SubSeq(t, a, b)) # 0
    BY <1>4, <1>6
  <2>. QED BY <2>1, EmptySeq
<1>10. \A i \in Inked(t) : a <= i /\ i <= b
  BY <1>1, <1>2, <1>3, <1>4
<1>. QED BY <1>1, <1>3, <1>4, <1>5, <1>6, <1>7, <1>8, <1>9, <1>10 DEF Text, a, b, n

\* The first ink of a text.
LEMMA FirstInk ==
  ASSUME NEW t \in Text, Inked(t) # {}
  PROVE  /\ Min(Inked(t)) \in Inked(t) /\ Min(Inked(t)) \in 1..Len(t)
         /\ \A i \in Inked(t) : Min(Inked(t)) <= i
         /\ Inked(t) \subseteq 1..Len(t) /\ Len(t) \in Nat
<1>1. Len(t) \in Nat /\ DOMAIN t = 1..Len(t)
  BY LenProperties DEF Text
<1>2. Inked(t) \subseteq 1..Len(t)
  BY <1>1 DEF Inked
<1>3. Min(Inked(t)) \in Inked(t) /\ \A i \in Inked(t) : Min(Inked(t)) <= i
  BY <1>1, <1>2, Extremes
<1>. QED BY <1>1, <1>2, <1>3

\* Stripping gives a text.
LEMMA StripType == ASSUME NEW t \in Text PROVE Strip(t) \in Text
<1>1. CASE Inked(t) = {}
  BY <1>1 DEF Strip, Text
<1>2. CASE Inked(t) # {}
  BY <1>2, StripIs
<1>. QED BY <1>1, <1>2

\* Stripping leaves nothing of white space only.
LEMMA StripEmpty == ASSUME NEW t \in Text PROVE Strip(t) = <<>> <=> Inked(t) = {}
<1>1. CASE Inked(t) = {}
  BY <1>1 DEF Strip
<1>2. CASE Inked(t) # {}
  BY <1>2, StripIs
<1>. QED BY <1>1, <1>2

\* White space after a text is not said.
LEMMA SaidWhite ==
  ASSUME NEW t \in Text, NEW c \in White
  PROVE  Strip(Append(t, c)) = Strip(t) /\ Said(Append(t, c)) = Said(t)
<1>0. c \in Alphabet
  BY LettersAre
<1>1. Inked(Append(t, c)) = Inked(t)
  BY <1>0, InkedAppend
<1>2. CASE Inked(t) = {}
  BY <1>1, <1>2 DEF Strip, Said
<1>3. CASE Inked(t) # {}
  <2> DEFINE a == Min(Inked(t))
             b == Max(Inked(t))
             u == Append(t, c)
  <2>1. /\ 1 <= a /\ a <= b /\ b <= Len(t) /\ a \in Nat /\ b \in Nat /\ Len(t) \in Nat
        /\ Strip(t) = SubSeq(t, a, b)
    BY <1>3, StripIs
  <2>2. Strip(u) = SubSeq(u, a, b)
    BY <1>1, <1>3 DEF Strip
  <2>3. SubSeq(u, a, b) = SubSeq(t, a, b)
    <3>1. u = t \o <<c>>
      BY <1>0, AppendIsConcat DEF Text
    <3>2. <<c>> \in Seq(Alphabet)
      BY <1>0
    <3> HIDE DEF a, b, u
    <3>3. a \in 1..Len(t) /\ b \in 1..Len(t)
      BY <2>1
    <3>. QED BY <3>1, <3>2, <3>3, SubSeqOfConcat1 DEF Text
  <2>. QED BY <2>1, <2>2, <2>3 DEF Said
<1>. QED BY <1>2, <1>3

\* From its first word on, a text is what it says and the space after that.
LEMMA SaidTail ==
  ASSUME NEW t \in Text
  PROVE  Inked(t) # {} =>
           /\ SubSeq(t, Min(Inked(t)), Len(t)) \in Text
           /\ Said(t) \in Text
           /\ Squeeze(SubSeq(t, Min(Inked(t)), Len(t)))
                = Said(t) \o (IF Last(t) \in White THEN <<" ">> ELSE <<>>)
<1> DEFINE Rest(s) == SubSeq(s, Min(Inked(s)), Len(s))
           Holds(s) == Inked(s) # {} =>
                         /\ Rest(s) \in Text
                         /\ Said(s) \in Text
                         /\ Squeeze(Rest(s)) = Said(s) \o (IF Last(s) \in White THEN <<" ">> ELSE <<>>)
           G == {s \in Text : Holds(s)}
<1>1. <<>> \in G
  <2>1. <<>> \in Text /\ Inked(<<>>) = {}
    BY DEF Text, Inked
  <2>. QED BY <2>1
<1>2. ASSUME NEW s \in Text, NEW c \in Alphabet, s \in G PROVE Append(s, c) \in G
  <2> DEFINE u == Append(s, c)
             n == Len(s)
             a == Min(Inked(u))
  <2>0. /\ u \in Text /\ n \in Nat /\ Len(u) = n + 1 /\ u[n + 1] = c /\ Last(u) = c
        /\ \A i \in 1..n : u[i] = s[i]
    BY TextAppend DEF Last
  <2> SUFFICES ASSUME Inked(u) # {}
               PROVE  /\ Rest(u) \in Text
                      /\ Said(u) \in Text
                      /\ Squeeze(Rest(u)) = Said(u) \o (IF c \in White THEN <<" ">> ELSE <<>>)
    BY <2>0
  <2>1. /\ a \in Inked(u) /\ \A i \in Inked(u) : a <= i
        /\ 1 <= a /\ a <= n + 1 /\ a \in Nat
    <3> HIDE DEF u, n
    <3>. QED BY <2>0, StripIs
  <2>2. CASE c \notin White
    <3>1. Max(Inked(u)) = n + 1
      <4>1. Inked(u) = Inked(s) \cup {n + 1} /\ Inked(s) \subseteq 1..n
        BY <2>2, InkedAppend
      <4>2. Max(Inked(u)) \in Inked(u) /\ \A i \in Inked(u) : i <= Max(Inked(u))
        BY <2>0, StripIs
      <4>. QED BY <2>0, <4>1, <4>2
    <3>2. Strip(u) = Rest(u) /\ Strip(u) \in Text
      BY <2>0, <3>1, StripIs
    <3>3. Said(u) \in Text
      BY <2>0, <3>2, SqueezeAppend DEF Said
    <3>4. Squeeze(Rest(u)) = Said(u)
      BY <3>2 DEF Said
    <3>5. Said(u) \o <<>> = Said(u)
      BY <3>3, ConcatEmptySeq DEF Text
    <3>. QED BY <2>2, <3>2, <3>3, <3>4, <3>5
  <2>3. CASE c \in White
    <3>1. Inked(u) = Inked(s) /\ Said(u) = Said(s)
      BY <2>3, InkedAppend, SaidWhite
    <3>2. /\ Rest(s) \in Text
          /\ Said(s) \in Text
          /\ Squeeze(Rest(s)) = Said(s) \o (IF Last(s) \in White THEN <<" ">> ELSE <<>>)
      BY <1>2, <3>1
    <3>3. a = Min(Inked(s)) /\ a <= n /\ a \in Nat /\ 1 <= a
      BY <3>1, StripIs
    <3>4. Rest(u) = Append(Rest(s), c)
      <4>1. a \in 1..Len(u) /\ n + 1 \in a..Len(u)
        BY <2>0, <3>3
      <4>2. SubSeq(u, a, n + 1) = SubSeq(u, a, (n + 1) - 1) \o <<u[n + 1]>>
        BY <2>0, <4>1, SubSeqRecursiveSecond DEF Text
      <4>3. SubSeq(u, a, n) = SubSeq(s, a, n)
        <5>1. u = s \o <<c>> /\ <<c>> \in Seq(Alphabet)
          BY AppendIsConcat DEF Text
        <5>2. a \in 1..Len(s) /\ n \in 1..Len(s)
          BY <2>0, <3>3
        <5> HIDE DEF a, u
        <5>. QED BY <5>1, <5>2, SubSeqOfConcat1 DEF Text
      <4>4. Append(Rest(s), c) = Rest(s) \o <<c>>
        BY <3>2, AppendIsConcat DEF Text
      <4>5. (n + 1) - 1 = n
        BY <2>0
      <4>. QED BY <2>0, <3>3, <4>2, <4>3, <4>4, <4>5
    <3>5. Rest(s) # <<>> /\ Last(Rest(s)) = Last(s)
      <4>1. /\ Len(Rest(s)) = n - a + 1
            /\ \A i \in 1..(n - a + 1) : Rest(s)[i] = s[a + i - 1]
        <5>1. \A i \in a..n : s[i] \in Alphabet
          BY <3>3, TextAppend
        <5>2. a \in Int /\ n \in Int
          BY <2>0, <3>3
        <5> HIDE DEF a, n
        <5>3. /\ Len(SubSeq(s, a, n)) = n - a + 1
              /\ \A i \in 1..(n - a + 1) : SubSeq(s, a, n)[i] = s[a + i - 1]
          BY <5>1, <5>2, <2>0, <3>3, SubSeqProperties
        <5>. QED BY <3>3, <5>3 DEF n
      <4>2. n - a + 1 \in 1..(n - a + 1) /\ a + (n - a + 1) - 1 = n
        BY <2>0, <3>3
      <4>3. Last(Rest(s)) = s[n]
        BY <4>1, <4>2 DEF Last
      <4>4. Rest(s) # <<>>
        <5> HIDE DEF Rest, n, a
        <5>. QED BY <4>1, <4>2
      <4>. QED BY <4>3, <4>4 DEF Last
    <3>6. Squeeze(Rest(u)) = Squeeze(Rest(s)) \o Adds(Rest(s), c) /\ Rest(u) \in Text
      BY <3>2, <3>4, SqueezeAppend, TextAppend
    <3>7. Adds(Rest(s), c) = IF Last(s) \in White THEN <<>> ELSE <<" ">>
      BY <2>3, <3>5 DEF Adds
    <3> DEFINE x == Said(s)
               more == IF Last(s) \in White THEN <<" ">> ELSE <<>>
               adds == IF Last(s) \in White THEN <<>> ELSE <<" ">>
    <3>8. (x \o more) \o adds = x \o <<" ">>
      <4>1. <<" ">> \in Seq(Alphabet)
        BY ShortTexts DEF Text
      <4>2. x \in Seq(Alphabet)
        BY <3>2 DEF Text
      <4> HIDE DEF x
      <4>3. x \o <<>> = x /\ x \o <<" ">> \in Seq(Alphabet)
        BY <4>1, <4>2, ConcatEmptySeq, ConcatProperties
      <4>4. (x \o <<" ">>) \o <<>> = x \o <<" ">>
        BY <4>3, ConcatEmptySeq
      <4>. QED BY <4>3, <4>4
    <3>9. Squeeze(Rest(u)) = x \o <<" ">>
      BY <3>2, <3>6, <3>7, <3>8
    <3>10. Rest(u) \in Text /\ Said(u) = x /\ x \in Text
      BY <3>1, <3>2, <3>6
    <3> HIDE DEF x, u, Rest
    <3>. QED BY <2>3, <3>9, <3>10
  <2>. QED BY <2>2, <2>3
<1> HIDE DEF G
<1>3. \A s \in Seq(Alphabet) : s \in G
  BY <1>1, <1>2, TextInduction DEF Text
<1>. QED BY <1>3 DEF G, Text

\* A letter after a text is said after it, a space between if there was one.
LEMMA SaidInk ==
  ASSUME NEW t \in Text, NEW c \in Alphabet, c \notin White
  PROVE  /\ Inked(t) = {} => Said(Append(t, c)) = <<c>>
         /\ Inked(t) # {} =>
              Said(Append(t, c)) = (IF Last(t) \in White THEN Said(t) \o <<" ">> ELSE Said(t)) \o <<c>>
<1> DEFINE u == Append(t, c)
           n == Len(t)
           a == Min(Inked(u))
<1>0. /\ u \in Text /\ n \in Nat /\ Len(u) = n + 1 /\ u[n + 1] = c /\ Last(u) = c
      /\ u = t \o <<c>> /\ <<c>> \in Seq(Alphabet)
  <2>1. u \in Text /\ n \in Nat /\ Len(u) = n + 1 /\ u[n + 1] = c
    BY TextAppend
  <2>2. u = t \o <<c>> /\ <<c>> \in Seq(Alphabet)
    BY AppendIsConcat, ShortTexts DEF Text
  <2>3. Last(u) = c
    <3> HIDE DEF u, n
    <3>. QED BY <2>1 DEF Last
  <2>. QED BY <2>1, <2>2, <2>3
<1>1. Inked(u) = Inked(t) \cup {n + 1} /\ Inked(t) \subseteq 1..n
  BY InkedAppend
<1>2. Inked(u) # {} /\ Last(u) \notin White
  BY <1>0, <1>1
<1>8. a \in 1..(n + 1) /\ a \in Inked(u) /\ \A i \in Inked(u) : a <= i
  <2>1. u \in Text /\ Len(u) = n + 1
    BY <1>0
  <2> HIDE DEF u, n
  <2>2. Min(Inked(u)) \in 1..Len(u) /\ Min(Inked(u)) \in Inked(u) /\ \A i \in Inked(u) : Min(Inked(u)) <= i
    BY <1>2, <2>1, FirstInk
  <2>. QED BY <2>1, <2>2
<1>3. Squeeze(SubSeq(u, a, n + 1)) = Said(u)
  <2> HIDE DEF u
  <2>1. Said(u) \in Text /\ Squeeze(SubSeq(u, Min(Inked(u)), Len(u))) = Said(u) \o <<>>
    BY <1>0, <1>2, SaidTail
  <2>. QED BY <1>0, <2>1, ConcatEmptySeq DEF Text
<1>4. Squeeze(Append(SubSeq(t, a, n), c)) = Said(u)
  <2>1. SubSeq(u, a, n + 1) = SubSeq(u, a, n) \o <<c>>
    <3>1. a \in 1..Len(u) /\ n + 1 \in a..Len(u) /\ (n + 1) - 1 = n
      <4> HIDE DEF u, a
      <4>. QED BY <1>0, <1>8
    <3> HIDE DEF u, a
    <3>. QED BY <1>0, <3>1, SubSeqRecursiveSecond DEF Text
  <2>2. SubSeq(u, a, n) = SubSeq(t, a, n) /\ SubSeq(t, a, n) \in Text
    <3>0. a \in 1..(n + 1)
      <4> HIDE DEF u, a
      <4>. QED BY <1>0, <1>8
    <3> HIDE DEF u, a
    <3>1. \A i \in a..n : t[i] \in Alphabet
      BY <3>0, TextAppend
    <3>2. SubSeq(t, a, n) \in Text
      BY <1>0, <3>0, <3>1, SubSeqProperties DEF Text
    <3>3. CASE a <= n
      <4>1. a \in 1..Len(t) /\ n \in 1..Len(t)
        BY <1>0, <3>0, <3>3
      <4>. QED BY <1>0, <3>2, <4>1, SubSeqOfConcat1 DEF Text
    <3>4. CASE n < a
      BY <1>0, <3>0, <3>2, <3>4, SubSeqEmpty
    <3>. QED BY <1>0, <3>0, <3>3, <3>4
  <2>3. Append(SubSeq(t, a, n), c) = SubSeq(t, a, n) \o <<c>>
    BY <2>2, AppendIsConcat DEF Text
  <2>. QED BY <1>3, <2>1, <2>2, <2>3
<1>5. /\ SubSeq(t, a, n) \in Text
      /\ Said(u) = Squeeze(SubSeq(t, a, n)) \o <<c>>
  <2>0. a \in 1..(n + 1)
    BY <1>8
  <2> HIDE DEF u, a
  <2>1. \A i \in a..n : t[i] \in Alphabet
    BY <2>0, TextAppend
  <2>2. SubSeq(t, a, n) \in Text
    BY <1>0, <2>0, <2>1, SubSeqProperties DEF Text
  <2>3. Adds(SubSeq(t, a, n), c) = <<c>>
    BY DEF Adds
  <2>. QED BY <1>4, <2>2, <2>3, SqueezeAppend
<1>6. CASE Inked(t) = {}
  <2>1. Inked(u) = {n + 1}
    BY <1>1, <1>6
  <2>2. a = n + 1
    <3> HIDE DEF u, a
    <3>. QED BY <1>8, <2>1
  <2>3. SubSeq(t, a, n) = <<>>
    <3> HIDE DEF u, a
    <3>. QED BY <1>0, <2>2, SubSeqEmpty
  <2>4. Said(u) = <<>> \o <<c>>
    BY <1>5, <2>3, SqueezeEmpty
  <2>. QED BY <1>0, <1>6, <2>4, ConcatEmptySeq
<1>7. CASE Inked(t) # {}
  <2>1. a = Min(Inked(t))
    <3>1. Min(Inked(t)) \in Inked(t) /\ \A i \in Inked(t) : Min(Inked(t)) <= i
      BY <1>7, FirstInk
    <3>2. a \in Inked(u) /\ \A i \in Inked(u) : a <= i
      BY <1>8
    <3> DEFINE m == Min(Inked(t))
    <3> HIDE DEF a, u, m
    <3>3. m \in Inked(u) /\ m \in 1..n /\ a \in Inked(t) \cup {n + 1}
      BY <1>1, <3>1, <3>2 DEF m
    <3>4. a <= m
      BY <3>2, <3>3
    <3>5. a \in Inked(t)
      BY <1>0, <3>3, <3>4
    <3>6. m <= a
      BY <3>1, <3>5 DEF m
    <3>7. a \in 1..n
      BY <1>1, <3>5
    <3>. QED BY <1>0, <3>3, <3>4, <3>6, <3>7 DEF m
  <2>2. /\ Said(t) \in Text
        /\ Squeeze(SubSeq(t, a, n)) = Said(t) \o (IF Last(t) \in White THEN <<" ">> ELSE <<>>)
    <3> HIDE DEF a
    <3>. QED BY <1>7, <2>1, SaidTail
  <2> DEFINE x == Said(t)
  <2>3. <<" ">> \in Seq(Alphabet) /\ x \in Seq(Alphabet) /\ <<c>> \in Seq(Alphabet)
    BY <1>0, <2>2, ShortTexts DEF Text
  <2> HIDE DEF x, a, u
  <2>4. CASE Last(t) \in White
    <3>1. Said(u) = (x \o <<" ">>) \o <<c>>
      BY <1>5, <2>2, <2>4 DEF x
    <3>. QED BY <1>7, <2>4, <3>1 DEF x, u
  <2>5. CASE Last(t) \notin White
    <3>1. Said(u) = (x \o <<>>) \o <<c>>
      BY <1>5, <2>2, <2>5 DEF x
    <3>2. x \o <<>> = x
      BY <2>3, ConcatEmptySeq
    <3>. QED BY <1>7, <2>5, <3>1, <3>2 DEF x, u
  <2>. QED BY <2>4, <2>5
<1>. QED BY <1>6, <1>7 DEF u

\* What a text says, which is nothing when it has no ink.
LEMMA SaidType ==
  ASSUME NEW t \in Text
  PROVE  Said(t) \in Text /\ (Said(t) = <<>> <=> Inked(t) = {})
<1>1. CASE Inked(t) = {}
  BY <1>1, SqueezeEmpty, ShortTexts DEF Said, Strip
<1>2. CASE Inked(t) # {}
  <2>1. Said(t) \in Text /\ Strip(t) \in Text /\ Strip(t) # <<>>
    BY <1>2, StripIs, SaidTail
  <2>2. PICK s \in Seq(Alphabet), c \in Alphabet : Strip(t) = Append(s, c)
    BY <2>1, SequenceEmptyOrAppend DEF Text
  <2>3. Last(Strip(t)) \notin White
    BY <1>2, StripIs DEF Inked
  <2>4. Last(Strip(t)) = c
    BY <2>2, TextAppend DEF Last, Text
  <2>5. Said(t) = Squeeze(s) \o <<c>> /\ Squeeze(s) \in Seq(Alphabet)
    BY <2>2, <2>3, <2>4, SqueezeAppend DEF Said, Adds, Text
  <2>6. Said(t) # <<>>
    <3>1. <<c>> \in Seq(Alphabet) /\ Len(<<c>>) = 1
      OBVIOUS
    <3>2. Len(Said(t)) = Len(Squeeze(s)) + 1 /\ Len(Squeeze(s)) \in Nat
      BY <2>5, <3>1, ConcatProperties, LenProperties
    <3>. QED BY <2>1, <3>2, EmptySeq
  <2>. QED BY <1>2, <2>1, <2>6
<1>. QED BY <1>1, <1>2

\* The symbols of two texts, one after the other.
LEMMA SymbolsConcat ==
  ASSUME NEW x \in Text, NEW y \in Text
  PROVE  Symbols(x \o y) = Symbols(x) \cup Symbols(y)
<1>1. /\ Len(x) \in Nat /\ Len(y) \in Nat /\ Len(x \o y) = Len(x) + Len(y)
      /\ \A i \in 1..(Len(x) + Len(y)) :
           (x \o y)[i] = IF i <= Len(x) THEN x[i] ELSE y[i - Len(x)]
  BY ConcatProperties, LenProperties DEF Text
<1>2. Symbols(x \o y) \subseteq Symbols(x) \cup Symbols(y)
  <2> SUFFICES ASSUME NEW i \in 1..(Len(x) + Len(y))
               PROVE  (x \o y)[i] \in Symbols(x) \cup Symbols(y)
    BY <1>1 DEF Symbols
  <2>1. CASE i <= Len(x)
    <3>1. i \in 1..Len(x) /\ (x \o y)[i] = x[i]
      BY <1>1, <2>1
    <3>. QED BY <3>1 DEF Symbols
  <2>2. CASE i > Len(x)
    <3>1. i - Len(x) \in 1..Len(y) /\ (x \o y)[i] = y[i - Len(x)]
      BY <1>1, <2>2
    <3>. QED BY <3>1 DEF Symbols
  <2>. QED BY <1>1, <2>1, <2>2
<1>3. Symbols(x) \subseteq Symbols(x \o y)
  <2> SUFFICES ASSUME NEW i \in 1..Len(x) PROVE x[i] \in Symbols(x \o y)
    BY DEF Symbols
  <2>1. i \in 1..Len(x \o y) /\ (x \o y)[i] = x[i]
    BY <1>1
  <2>. QED BY <2>1 DEF Symbols
<1>4. Symbols(y) \subseteq Symbols(x \o y)
  <2> SUFFICES ASSUME NEW i \in 1..Len(y) PROVE y[i] \in Symbols(x \o y)
    BY DEF Symbols
  <2>1. Len(x) + i \in 1..(Len(x) + Len(y)) /\ ~ (Len(x) + i <= Len(x)) /\ (Len(x) + i) - Len(x) = i
    BY <1>1
  <2>2. Len(x) + i \in 1..Len(x \o y) /\ (x \o y)[Len(x) + i] = y[i]
    BY <1>1, <2>1
  <2>. QED BY <2>2 DEF Symbols
<1>. QED BY <1>2, <1>3, <1>4

\* The symbols of a text of one symbol.
LEMMA SymbolsOfOne == \A c : Symbols(<<c>>) = {c}
BY DEF Symbols

\* The symbols of no text.
LEMMA SymbolsOfNone == Symbols(<<>>) = {}
BY DEF Symbols

\* Squeezing loses white space only.
LEMMA SqueezeKeeps ==
  ASSUME NEW t \in Text
  PROVE  Symbols(Squeeze(t)) \ White = Symbols(t) \ White
<1> DEFINE G == {s \in Text : Symbols(Squeeze(s)) \ White = Symbols(s) \ White}
<1>1. <<>> \in G
  BY SqueezeEmpty, ShortTexts
<1>2. ASSUME NEW s \in Text, NEW c \in Alphabet, s \in G PROVE Append(s, c) \in G
  <2>1. Append(s, c) \in Text /\ Append(s, c) = s \o <<c>> /\ <<c>> \in Text
    BY TextAppend, AppendIsConcat, ShortTexts DEF Text
  <2>2. Adds(s, c) \in Text /\ Squeeze(s) \in Text
    BY ShortTexts, SqueezeAppend DEF Adds
  <2>3. Symbols(Squeeze(Append(s, c))) = Symbols(Squeeze(s)) \cup Symbols(Adds(s, c))
    BY <2>2, SqueezeAppend, SymbolsConcat
  <2>4. Symbols(Append(s, c)) = Symbols(s) \cup {c}
    BY <2>1, SymbolsConcat, SymbolsOfOne
  <2>5. Symbols(Adds(s, c)) \ White = {c} \ White
    BY SymbolsOfOne, SymbolsOfNone DEF Adds, White
  <2>. QED BY <1>2, <2>1, <2>3, <2>4, <2>5
<1> HIDE DEF G
<1>3. \A s \in Seq(Alphabet) : s \in G
  BY <1>1, <1>2, TextInduction DEF Text
<1>. QED BY <1>3 DEF G, Text

\* The check of a sentence is a check of what it says.
LEMMA SaidCheck ==
  ASSUME NEW t \in Text, NEW correct
  PROVE  SentenceCheck(Said(t), correct) = SentenceCheck(Strip(t), correct)
<1>1. Symbols(Said(t)) \ White = Symbols(Strip(t)) \ White
  BY StripType, SqueezeKeeps DEF Said
<1>2. "x" \notin White /\ "l" \notin White /\ "r" \notin White
  BY DEF White
<1>3. ("x" \in Symbols(Said(t)) <=> "x" \in Symbols(Strip(t))) /\ (Leaks(Said(t)) <=> Leaks(Strip(t)))
  BY <1>1, <1>2 DEF Leaks
<1>. QED BY <1>3 DEF SentenceCheck

----------------------------------------------------------------------------
(* Reading                                                                 *)

(***************************************************************************)
(* A reader takes a text symbol by symbol: out is what has been shown, cur *)
(* the sentence being written, gap that a space follows it, failure the    *)
(* rule that was broken. What the gate does with a piece is what a reader  *)
(* does with its symbols, however the text is cut.                         *)
(***************************************************************************)
GateFailures == {"none", "sentences", "self_correction", "answer_leak"}

\* A reader takes the text in symbol by symbol: the sentences read, the one being
\* read, squeezed, that white space has followed it, and the rule broken.
Reading == [out : Seq(Text), cur : Text, gap : BOOLEAN, failure : GateFailures]

\* A reader who is between sentences, having read those of o.
From(o) == [out |-> o, cur |-> <<>>, gap |-> FALSE, failure |-> "none"]

\* The rule a sentence breaks, the cap included.
Why(n, sentence, correct) ==
  IF n >= MaxSentences THEN "sentences" ELSE SentenceCheck(sentence, correct)

\* The sentence has ended, and is judged.
Judged(r, correct) ==
  IF r.failure # "none" \/ r.cur = <<>> THEN r
  ELSE IF Why(Len(r.out), r.cur, correct) # "none"
       THEN [out |-> r.out, cur |-> <<>>, gap |-> FALSE, failure |-> Why(Len(r.out), r.cur, correct)]
       ELSE From(Append(r.out, r.cur))

\* White space ends a sentence after its full stop, and is a gap elsewhere.
Spaced(r, correct) ==
  IF r.failure # "none" \/ r.cur = <<>> THEN r
  ELSE IF Last(r.cur) = "." /\ ~ r.gap THEN Judged(r, correct)
  ELSE [r EXCEPT !.gap = TRUE]

\* A symbol that is not white belongs to the sentence being read.
Inscribed(r, c) ==
  IF r.failure # "none" THEN r
  ELSE [r EXCEPT !.cur = (IF r.gap THEN @ \o <<" ">> ELSE @) \o <<c>>, !.gap = FALSE]

\* A dash is read as a hyphen between spaces.
ReadOne(r, c, correct) ==
  IF c = "-" THEN Spaced(Inscribed(Spaced(r, correct), "="), correct)
  ELSE IF c \in White THEN Spaced(r, correct)
  ELSE Inscribed(r, c)

\* The text t is read on.
ReadOn(r, t, correct) ==
  LET after[i \in 0..Len(t)] ==
        IF i = 0 THEN r ELSE ReadOne(after[i - 1], t[i], correct)
  IN after[Len(t)]

\* The rules a sentence can break.
LEMMA CheckType ==
  ASSUME NEW n, NEW t, NEW correct \in BOOLEAN
  PROVE  SentenceCheck(t, correct) \in GateFailures /\ Why(n, t, correct) \in GateFailures
BY DEF SentenceCheck, Why, GateFailures

\* Each step of a reader leaves a reading.
LEMMA ReadingTypes ==
  ASSUME NEW r \in Reading, NEW correct \in BOOLEAN
  PROVE  /\ Judged(r, correct) \in Reading
         /\ Spaced(r, correct) \in Reading
         /\ \A c \in Alphabet : Inscribed(r, c) \in Reading
         /\ \A c \in Alphabet : ReadOne(r, c, correct) \in Reading
<1>1. ASSUME NEW s \in Reading PROVE Judged(s, correct) \in Reading
  <2>1. <<>> \in Text
    BY ShortTexts
  <2>2. CASE s.failure # "none" \/ s.cur = <<>>
    BY <2>2 DEF Judged
  <2>3. CASE ~ (s.failure # "none" \/ s.cur = <<>>)
    <3>1. s.out \in Seq(Text) /\ s.cur \in Text
      BY DEF Reading
    <3>2. Append(s.out, s.cur) \in Seq(Text)
      BY <3>1, AppendProperties
    <3>3. Why(Len(s.out), s.cur, correct) \in GateFailures
      BY CheckType
    <3>4. From(Append(s.out, s.cur)) \in Reading
      BY <2>1, <3>2 DEF From, Reading, GateFailures
    <3>5. [out |-> s.out, cur |-> <<>>, gap |-> FALSE, failure |-> Why(Len(s.out), s.cur, correct)]
            \in Reading
      BY <2>1, <3>1, <3>3 DEF Reading
    <3>. QED BY <2>3, <3>4, <3>5 DEF Judged
  <2>. QED BY <2>2, <2>3
<1>2. ASSUME NEW s \in Reading PROVE Spaced(s, correct) \in Reading
  <2>1. [s EXCEPT !.gap = TRUE] \in Reading
    BY DEF Reading
  <2>2. Judged(s, correct) \in Reading
    BY <1>1
  <2>. QED BY <2>1, <2>2 DEF Spaced
<1>3. ASSUME NEW s \in Reading, NEW c \in Alphabet PROVE Inscribed(s, c) \in Reading
  <2>1. s.cur \in Seq(Alphabet) /\ s.gap \in BOOLEAN
    BY DEF Reading, Text
  <2>2. <<" ">> \in Seq(Alphabet) /\ <<c>> \in Seq(Alphabet)
    BY ShortTexts DEF Text
  <2> DEFINE w == (IF s.gap THEN s.cur \o <<" ">> ELSE s.cur)
             x == w \o <<c>>
  <2>3. w \in Seq(Alphabet)
    BY <2>1, <2>2, ConcatProperties
  <2>4. x \in Text
    <3> HIDE DEF w
    <3>. QED BY <2>2, <2>3, ConcatProperties DEF Text
  <2>5. Inscribed(s, c) = IF s.failure # "none" THEN s ELSE [s EXCEPT !.cur = x, !.gap = FALSE]
    BY DEF Inscribed
  <2> HIDE DEF x
  <2>. QED BY <2>4, <2>5 DEF Reading
<1>4. ASSUME NEW c \in Alphabet PROVE ReadOne(r, c, correct) \in Reading
  <2>1. "=" \in Alphabet
    BY DEF Alphabet
  <2>2. Spaced(r, correct) \in Reading
    BY <1>2
  <2>3. Inscribed(Spaced(r, correct), "=") \in Reading
    BY <1>3, <2>1, <2>2
  <2>4. Spaced(Inscribed(Spaced(r, correct), "="), correct) \in Reading
    BY <1>2, <2>3
  <2>5. Inscribed(r, c) \in Reading
    BY <1>3
  <2>. QED BY <2>2, <2>4, <2>5 DEF ReadOne
<1>. QED BY <1>1, <1>2, <1>3, <1>4

\* Reading on is taking each symbol in turn.
LEMMA ReadOnUnfold ==
  ASSUME NEW r \in Reading, NEW t \in Text, NEW correct \in BOOLEAN,
         NEW m \in Nat, NEW f \in [0..m -> Reading], Len(t) <= m, f[0] = r,
         \A i \in 1..Len(t) : f[i] = ReadOne(f[i - 1], t[i], correct)
  PROVE  ReadOn(r, t, correct) = f[Len(t)]
<1> DEFINE n == Len(t)
           Is(x) == x = [i \in 0..n |-> IF i = 0 THEN r ELSE ReadOne(x[i - 1], t[i], correct)]
           c == CHOOSE x : Is(x)
           g == [i \in 0..n |-> f[i]]
<1>0. n \in Nat
  BY LenProperties DEF Text
<1>1. Is(g)
  <2>1. \A i \in 0..n : g[i] = IF i = 0 THEN r ELSE ReadOne(g[i - 1], t[i], correct)
    <3> TAKE i \in 0..n
    <3>1. CASE i = 0
      BY <3>1
    <3>2. CASE i # 0
      <4>1. i \in 1..n /\ i - 1 \in 0..n
        BY <1>0, <3>2
      <4>2. g[i - 1] = f[i - 1] /\ g[i] = f[i]
        BY <4>1
      <4> HIDE DEF g
      <4>. QED BY <3>2, <4>1, <4>2
    <3>. QED BY <3>1, <3>2
  <2>2. g = [i \in 0..n |-> g[i]]
    OBVIOUS
  <2> HIDE DEF g
  <2>. QED BY <2>1, <2>2
<1>2. Is(c)
  <2> HIDE DEF g, n
  <2> SUFFICES \E x : Is(x)
    BY Zenon
  <2>. QED BY <1>1
<1>3. ReadOn(r, t, correct) = c[n]
  BY DEF ReadOn
<1> DEFINE G == {k \in Nat : k <= n => c[k] = f[k]}
<1> HIDE DEF c, g
<1>4. 0 \in G
  BY <1>0, <1>2
<1>5. ASSUME NEW k \in Nat, k \in G PROVE k + 1 \in G
  <2> SUFFICES ASSUME k + 1 <= n PROVE c[k + 1] = f[k + 1]
    OBVIOUS
  <2>1. k + 1 \in 1..n /\ k + 1 # 0 /\ (k + 1) - 1 = k /\ k <= n /\ k + 1 \in 0..n
    BY <1>0
  <2>2. c[k + 1] = ReadOne(c[k], t[k + 1], correct)
    BY <1>2, <2>1
  <2>3. f[k + 1] = ReadOne(f[k], t[k + 1], correct)
    BY <2>1
  <2>. QED BY <1>5, <2>1, <2>2, <2>3
<1>6. n \in G
  <2> HIDE DEF G, n
  <2>. QED BY <1>0, <1>4, <1>5, Induction
<1>. QED BY <1>0, <1>3, <1>6

\* Reading on one symbol more.
LEMMA ReadOnAppend ==
  ASSUME NEW r \in Reading, NEW t \in Text, NEW c \in Alphabet, NEW correct \in BOOLEAN
  PROVE  /\ ReadOn(r, t, correct) \in Reading
         /\ ReadOn(r, Append(t, c), correct) = ReadOne(ReadOn(r, t, correct), c, correct)
<1> DEFINE n == Len(t)
           m == n + 1
           u == Append(t, c)
           step == [x \in Nat \X Reading |->
                      IF x[1] \in 1..m THEN ReadOne(x[2], u[x[1]], correct) ELSE r]
<1>0. /\ n \in Nat /\ m \in Nat /\ m = n + 1 /\ u \in Text /\ Len(u) = m /\ u[m] = c
      /\ \A i \in 1..n : u[i] = t[i]
      /\ \A i \in 1..m : u[i] \in Alphabet
  <2>1. /\ n \in Nat /\ u \in Text /\ Len(u) = n + 1 /\ u[n + 1] = c
        /\ \A i \in 1..n : u[i] = t[i] /\ t[i] \in Alphabet
    BY TextAppend
  <2>. QED BY <2>1
<1> HIDE DEF n, m, u
<1>1. step \in [Nat \X Reading -> Reading]
  <2>1. ASSUME NEW x \in Nat \X Reading
        PROVE  (IF x[1] \in 1..m THEN ReadOne(x[2], u[x[1]], correct) ELSE r) \in Reading
    BY <1>0, ReadingTypes
  <2>. QED BY <2>1
<1>2. PICK f : Iterates(f, m, Reading, r, step)
  <2> HIDE DEF step
  <2>1. m \in Nat
    BY <1>0
  <2>. QED BY <1>1, <2>1, Recursion, Zenon
<1>3. f \in [0..m -> Reading] /\ f[0] = r /\ \A i \in 1..m : f[i] = step[<<i, f[i - 1]>>]
  <2> HIDE DEF step
  <2>. QED BY <1>2 DEF Iterates
<1>4. \A i \in 1..m : f[i] = ReadOne(f[i - 1], u[i], correct)
  <2> TAKE i \in 1..m
  <2>1. i \in Nat /\ i - 1 \in 0..m
    BY <1>0
  <2>2. f[i - 1] \in Reading
    BY <1>3, <2>1
  <2>3. step[<<i, f[i - 1]>>] = ReadOne(f[i - 1], u[i], correct)
    BY <2>1, <2>2
  <2>. QED BY <1>3, <2>3
<1> HIDE DEF step
<1>5. ReadOn(r, u, correct) = f[m]
  <2>0. Len(u) = m
    BY <1>0
  <2>1. Len(u) <= m /\ \A i \in 1..Len(u) : f[i] = ReadOne(f[i - 1], u[i], correct)
    BY <1>0, <1>4, <2>0
  <2>2. ReadOn(r, u, correct) = f[Len(u)]
    BY <1>0, <1>3, <2>1, ReadOnUnfold
  <2>. QED BY <2>0, <2>2
<1>6. ReadOn(r, t, correct) = f[n]
  <2>1. \A i \in 1..Len(t) : f[i] = ReadOne(f[i - 1], t[i], correct)
    <3> TAKE i \in 1..Len(t)
    <3>1. i \in 1..n /\ i \in 1..m
      BY <1>0 DEF n
    <3>2. u[i] = t[i]
      BY <1>0, <3>1
    <3>. QED BY <1>4, <3>1, <3>2
  <2>2. Len(t) <= m
    BY <1>0 DEF n
  <2>3. ReadOn(r, t, correct) = f[Len(t)]
    BY <1>0, <1>3, <2>1, <2>2, ReadOnUnfold
  <2>. QED BY <2>3 DEF n
<1>7. f[n] \in Reading /\ f[m] = ReadOne(f[n], c, correct)
  <2>1. m \in 1..m /\ m - 1 = n /\ n \in 0..m
    BY <1>0
  <2>. QED BY <1>0, <1>3, <1>4, <2>1
<1>. QED BY <1>5, <1>6, <1>7 DEF u

\* Reading on nothing.
LEMMA ReadOnEmpty ==
  ASSUME NEW r \in Reading, NEW correct \in BOOLEAN
  PROVE  ReadOn(r, <<>>, correct) = r
<1> DEFINE f == [i \in 0..0 |-> r]
<1>1. f \in [0..0 -> Reading] /\ f[0] = r
  OBVIOUS
<1> HIDE DEF f
<1>2. <<>> \in Text /\ Len(<<>>) = 0 /\ 0 \in Nat /\ 0 <= 0
  <2>1. <<>> \in Text
    BY ShortTexts
  <2>2. Len(<<>>) = 0 /\ 0 \in Nat /\ 0 <= 0
    OBVIOUS
  <2>. QED BY <2>1, <2>2
<1>3. \A i \in 1..Len(<<>>) : f[i] = ReadOne(f[i - 1], <<>>[i], correct)
  BY <1>2
<1>4. ReadOn(r, <<>>, correct) = f[Len(<<>>)]
  BY <1>1, <1>2, <1>3, ReadOnUnfold
<1>. QED BY <1>1, <1>2, <1>4

\* Reading on two texts is reading on the one and then the other.
LEMMA ReadOnConcat ==
  ASSUME NEW r \in Reading, NEW x \in Text, NEW y \in Text, NEW correct \in BOOLEAN
  PROVE  ReadOn(r, x \o y, correct) = ReadOn(ReadOn(r, x, correct), y, correct)
<1> DEFINE G == {s \in Text : ReadOn(r, x \o s, correct) = ReadOn(ReadOn(r, x, correct), s, correct)}
<1>0. ReadOn(r, x, correct) \in Reading
  BY ReadOnAppend, LettersAre
<1>1. <<>> \in G
  <2>1. x \o <<>> = x
    BY ConcatEmptySeq DEF Text
  <2>. QED BY <1>0, <2>1, ReadOnEmpty, ShortTexts
<1>2. ASSUME NEW s \in Text, NEW c \in Alphabet, s \in G PROVE Append(s, c) \in G
  <2>1. x \o s \in Text /\ Append(s, c) \in Text
    BY ConcatProperties, TextAppend DEF Text
  <2>2. x \o Append(s, c) = Append(x \o s, c)
    <3>1. Append(s, c) = s \o <<c>> /\ Append(x \o s, c) = (x \o s) \o <<c>> /\ <<c>> \in Seq(Alphabet)
      BY <2>1, AppendIsConcat, ShortTexts DEF Text
    <3>. QED BY <3>1, ConcatAssociative DEF Text
  <2>3. ReadOn(r, Append(x \o s, c), correct) = ReadOne(ReadOn(r, x \o s, correct), c, correct)
    BY <2>1, ReadOnAppend
  <2>4. ReadOn(ReadOn(r, x, correct), Append(s, c), correct)
          = ReadOne(ReadOn(ReadOn(r, x, correct), s, correct), c, correct)
    BY <1>0, ReadOnAppend
  <2>. QED BY <1>2, <2>1, <2>2, <2>3, <2>4
<1> HIDE DEF G
<1>3. \A s \in Seq(Alphabet) : s \in G
  BY <1>1, <1>2, TextInduction DEF Text
<1>. QED BY <1>3 DEF G, Text

\* Reading on leaves a reading.
LEMMA ReadTyped ==
  ASSUME NEW r \in Reading, NEW t \in Text, NEW correct \in BOOLEAN
  PROVE  ReadOn(r, t, correct) \in Reading
BY ReadOnAppend, LettersAre

\* What a reader starts from is a reading.
LEMMA FromTyped == ASSUME NEW o \in Seq(Text) PROVE From(o) \in Reading
<1>1. <<>> \in Text
  BY ShortTexts
<1>. QED BY <1>1 DEF From, Reading, GateFailures

\* A text without dashes is a text.
LEMMA CleanIsText == CleanText \subseteq Text
<1>1. Alphabet \ {"-"} \subseteq Alphabet
  OBVIOUS
<1>. QED BY <1>1, SeqMonotonic DEF CleanText, Text

\* One space more makes no difference.
LEMMA SpacedTwice ==
  ASSUME NEW r \in Reading, NEW correct \in BOOLEAN
  PROVE  Spaced(Spaced(r, correct), correct) = Spaced(r, correct)
<1> DEFINE s == Spaced(r, correct)
<1>0. s \in Reading
  BY ReadingTypes
<1>1. CASE r.failure # "none" \/ r.cur = <<>>
  BY <1>1 DEF Spaced
<1>2. CASE ~ (r.failure # "none" \/ r.cur = <<>>) /\ Last(r.cur) = "." /\ ~ r.gap
  <2>1. s = Judged(r, correct)
    BY <1>2 DEF Spaced
  <2>2. Judged(r, correct).cur = <<>>
    BY <1>2 DEF Judged, From
  <2>3. s.cur = <<>>
    BY <2>1, <2>2
  <2> HIDE DEF s
  <2>4. Spaced(s, correct) = s
    BY <2>3 DEF Spaced
  <2>. QED BY <2>4 DEF s
<1>3. CASE ~ (r.failure # "none" \/ r.cur = <<>>) /\ ~ (Last(r.cur) = "." /\ ~ r.gap)
  <2>1. s = [r EXCEPT !.gap = TRUE]
    BY <1>3 DEF Spaced
  <2>2. s.gap = TRUE /\ s.failure = r.failure /\ s.cur = r.cur
    BY <2>1 DEF Reading
  <2>3. [s EXCEPT !.gap = TRUE] = s
    BY <1>0, <2>2 DEF Reading
  <2> HIDE DEF s
  <2>4. Spaced(s, correct) = s
    BY <1>3, <2>2, <2>3 DEF Spaced
  <2>. QED BY <2>4 DEF s
<1>. QED BY <1>1, <1>2, <1>3

\* Nothing is read once a rule was broken, and white space says nothing
\* between sentences.
LEMMA ReadNothing ==
  ASSUME NEW r \in Reading, NEW t \in Text, NEW correct \in BOOLEAN,
         \/ r.failure # "none"
         \/ r.cur = <<>> /\ \A i \in 1..Len(t) : t[i] \in White
  PROVE  ReadOn(r, t, correct) = r
<1> DEFINE Blank(s) == \A i \in 1..Len(s) : s[i] \in White
           G == {s \in Text : r.failure # "none" \/ (r.cur = <<>> /\ Blank(s))
                                => ReadOn(r, s, correct) = r}
<1>1. <<>> \in G
  BY ReadOnEmpty, ShortTexts
<1>2. ASSUME NEW s \in Text, NEW c \in Alphabet, s \in G PROVE Append(s, c) \in G
  <2> SUFFICES ASSUME r.failure # "none" \/ (r.cur = <<>> /\ Blank(Append(s, c)))
               PROVE  ReadOn(r, Append(s, c), correct) = r
    BY TextAppend
  <2>1. r.failure # "none" \/ (r.cur = <<>> /\ Blank(s) /\ c \in White)
    <3>1. /\ Len(s) \in Nat /\ Len(Append(s, c)) = Len(s) + 1 /\ Append(s, c)[Len(s) + 1] = c
          /\ \A i \in 1..Len(s) : Append(s, c)[i] = s[i]
      BY TextAppend
    <3>2. Len(s) + 1 \in 1..Len(Append(s, c)) /\ \A i \in 1..Len(s) : i \in 1..Len(Append(s, c))
      BY <3>1
    <3>. QED BY <3>1, <3>2
  <2>2. ReadOn(r, s, correct) = r
    BY <1>2, <2>1
  <2>3. ReadOn(r, Append(s, c), correct) = ReadOne(r, c, correct)
    BY <2>2, ReadOnAppend
  <2>4. ReadOne(r, c, correct) = r
    BY <2>1 DEF ReadOne, Spaced, Inscribed, White
  <2>. QED BY <2>3, <2>4
<1> HIDE DEF G
<1>3. \A s \in Seq(Alphabet) : s \in G
  BY <1>1, <1>2, TextInduction DEF Text
<1>4. t \in G
  BY <1>3 DEF Text
<1>. QED BY <1>4 DEF G

\* No sentence of t has ended.
Unended(t) == \A i \in 1..(Len(t) - 1) : t[i] = "." => t[i + 1] \notin White

\* Up to the end of a sentence, the sentence is what the text says.
LEMMA ReadSentence ==
  ASSUME NEW o \in Seq(Text), NEW correct \in BOOLEAN, NEW t \in CleanText, Unended(t)
  PROVE  LET r == ReadOn(From(o), t, correct)
         IN  /\ r.out = o /\ r.failure = "none" /\ r.cur = Said(t)
             /\ r.gap <=> r.cur # <<>> /\ Last(t) \in White
             /\ t # <<>> /\ Last(t) \notin White => r.cur # <<>> /\ Last(r.cur) = Last(t)
<1> DEFINE R(s) == ReadOn(From(o), s, correct)
           Tells(s) == /\ R(s).out = o /\ R(s).failure = "none" /\ R(s).cur = Said(s)
                       /\ R(s).gap <=> R(s).cur # <<>> /\ Last(s) \in White
                       /\ s # <<>> /\ Last(s) \notin White
                            => R(s).cur # <<>> /\ Last(R(s).cur) = Last(s)
           G == {s \in CleanText : Unended(s) => Tells(s)}
<1>0. From(o) \in Reading
  BY FromTyped
<1>1. <<>> \in G
  <2>1. R(<<>>) = From(o)
    BY <1>0, ReadOnEmpty
  <2>2. Said(<<>>) = <<>> /\ <<>> \in CleanText
    <3>1. Inked(<<>>) = {}
      BY DEF Inked
    <3>2. <<>> \in CleanText
      BY EmptySeq DEF CleanText
    <3>. QED BY <3>1, <3>2, SqueezeEmpty DEF Said, Strip
  <2>3. From(o).out = o /\ From(o).cur = <<>> /\ From(o).gap = FALSE /\ From(o).failure = "none"
    BY DEF From
  <2> HIDE DEF R
  <2>4. Tells(<<>>)
    BY <2>1, <2>2, <2>3
  <2>. QED BY <2>2, <2>4
<1>2. ASSUME NEW s \in CleanText, NEW c \in Alphabet \ {"-"}, s \in G
      PROVE  Append(s, c) \in G
  <2> DEFINE u == Append(s, c)
             n == Len(s)
             r == R(s)
  <2>0. /\ s \in Text /\ u \in Text /\ u \in CleanText /\ n \in Nat /\ Len(u) = n + 1 /\ u[n + 1] = c
        /\ \A i \in 1..n : u[i] = s[i]
    <3>1. s \in Text
      BY CleanIsText
    <3>2. u \in CleanText
      BY AppendProperties DEF CleanText
    <3>. QED BY <3>1, <3>2, TextAppend
  <2>1. Last(u) = c /\ u # <<>>
    <3>1. Last(u) = c
      BY <2>0 DEF Last
    <3>2. u # <<>>
      BY <2>0, AppendProperties DEF Text
    <3>. QED BY <3>1, <3>2
  <2> SUFFICES ASSUME Unended(u) PROVE Tells(u)
    BY <2>0
  <2>2. Unended(s) /\ (s # <<>> /\ Last(s) = "." => c \notin White)
    <3> HIDE DEF u, n
    <3>1. \A i \in 1..(n - 1) : i \in 1..(Len(u) - 1) /\ i \in 1..n /\ i + 1 \in 1..n
      BY <2>0
    <3>2. Unended(s)
      BY <2>0, <3>1 DEF Unended, n
    <3>3. ASSUME s # <<>>, Last(s) = "." PROVE c \notin White
      <4>1. n # 0
        BY <2>0, <3>3, EmptySeq DEF n, Text
      <4>2. n \in 1..(Len(u) - 1) /\ n \in 1..n
        BY <2>0, <4>1
      <4>3. u[n] = "."
        BY <2>0, <3>3, <4>2 DEF Last, n
      <4>. QED BY <2>0, <4>2, <4>3 DEF Unended
    <3>. QED BY <3>2, <3>3
  <2>3. Tells(s)
    BY <1>2, <2>2
  <2>4. R(u) = ReadOne(r, c, correct) /\ r \in Reading
    BY <1>0, <2>0, ReadOnAppend
  <2>5. r.cur = <<>> <=> Inked(s) = {}
    BY <2>0, <2>3, SaidType
  <2> HIDE DEF R, u
  <2>6. CASE c \in White
    <3>1. R(u) = Spaced(r, correct)
      BY <2>4, <2>6 DEF ReadOne, White
    <3>2. Said(u) = Said(s)
      BY <2>0, <2>6, SaidWhite DEF u
    <3>3. CASE r.cur = <<>>
      <4>1. Spaced(r, correct) = r
        BY <3>3 DEF Spaced
      <4>. QED BY <2>1, <2>3, <2>6, <3>1, <3>2, <3>3, <4>1
    <3>4. CASE r.cur # <<>>
      <4>1. ~ (Last(r.cur) = "." /\ ~ r.gap)
        <5> SUFFICES ASSUME Last(r.cur) = ".", ~ r.gap PROVE FALSE
          OBVIOUS
        <5>1. Last(s) \notin White
          BY <2>3, <3>4
        <5>2. s # <<>>
          <6> SUFFICES ASSUME s = <<>> PROVE FALSE
            OBVIOUS
          <6>1. Inked(s) = {}
            BY DEF Inked
          <6>. QED BY <2>5, <3>4, <6>1
        <5>3. Last(s) = "."
          BY <2>3, <5>1, <5>2
        <5>. QED BY <2>2, <2>6, <5>2, <5>3
      <4>2. Spaced(r, correct) = [r EXCEPT !.gap = TRUE]
        BY <2>3, <3>4, <4>1 DEF Spaced
      <4>3. R(u).out = r.out /\ R(u).cur = r.cur /\ R(u).gap = TRUE /\ R(u).failure = r.failure
        BY <2>4, <3>1, <4>2 DEF Reading
      <4>. QED BY <2>1, <2>3, <2>6, <3>2, <3>4, <4>3
    <3>. QED BY <3>3, <3>4
  <2>7. CASE c \notin White
    <3> DEFINE w == IF r.gap THEN r.cur \o <<" ">> ELSE r.cur
               x == w \o <<c>>
    <3>1. R(u) = [r EXCEPT !.cur = x, !.gap = FALSE]
      BY <2>3, <2>4, <2>7 DEF ReadOne, Inscribed
    <3>2. R(u).out = r.out /\ R(u).cur = x /\ R(u).gap = FALSE /\ R(u).failure = r.failure
      <4> HIDE DEF x
      <4>. QED BY <2>4, <3>1 DEF Reading
    <3>3. x = Said(u)
      <4>1. CASE Inked(s) = {}
        <5>1. r.cur = <<>> /\ ~ r.gap
          BY <2>3, <2>5, <4>1
        <5>2. <<>> \o <<c>> = <<c>>
          BY ConcatEmptySeq, ShortTexts DEF Text
        <5>3. Said(u) = <<c>>
          BY <2>0, <2>7, <4>1, SaidInk DEF u
        <5>. QED BY <5>1, <5>2, <5>3
      <4>2. CASE Inked(s) # {}
        <5>1. r.cur = Said(s) /\ (r.gap <=> Last(s) \in White)
          BY <2>3, <2>5, <4>2
        <5>2. Said(u) = (IF Last(s) \in White THEN Said(s) \o <<" ">> ELSE Said(s)) \o <<c>>
          BY <2>0, <2>7, <4>2, SaidInk DEF u
        <5>. QED BY <5>1, <5>2
      <4>. QED BY <4>1, <4>2
    <3>4. x # <<>> /\ Last(x) = c
      <4>1. w \in Seq(Alphabet)
        <5>1. <<" ">> \in Seq(Alphabet) /\ r.cur \in Seq(Alphabet)
          BY <2>4, ShortTexts DEF Text, Reading
        <5>. QED BY <5>1, ConcatProperties
      <4>2. x = Append(w, c)
        <5> HIDE DEF w
        <5>. QED BY <4>1, AppendIsConcat
      <4> HIDE DEF x, w
      <4>3. w \in Text
        BY <4>1 DEF Text
      <4>4. Append(w, c) # <<>>
        BY <4>1, AppendProperties
      <4>5. /\ Append(w, c) \in Text /\ Len(w) \in Nat /\ Len(Append(w, c)) = Len(w) + 1
            /\ Append(w, c)[Len(w) + 1] = c
        BY <2>0, <4>3, TextAppend
      <4>. QED BY <4>2, <4>4, <4>5 DEF Last
    <3> HIDE DEF x
    <3>. QED BY <2>1, <2>3, <2>7, <3>2, <3>3, <3>4
  <2>. QED BY <2>6, <2>7
<1> HIDE DEF G
<1>3. \A s \in Seq(Alphabet \ {"-"}) : s \in G
  BY <1>1, <1>2, TextInduction DEF CleanText
<1>4. t \in G
  BY <1>3 DEF CleanText
<1>. QED BY <1>4 DEF G

\* White space is read as one space.
LEMMA ReadWhite ==
  ASSUME NEW r \in Reading, NEW t \in Text, NEW correct \in BOOLEAN,
         t # <<>>, \A i \in 1..Len(t) : t[i] \in White
  PROVE  ReadOn(r, t, correct) = Spaced(r, correct)
<1> DEFINE Blank(s) == \A i \in 1..Len(s) : s[i] \in White
           G == {s \in Text : Blank(s) => ReadOn(r, s, correct) = IF s = <<>> THEN r ELSE Spaced(r, correct)}
<1>1. <<>> \in G
  BY ReadOnEmpty, ShortTexts
<1>2. ASSUME NEW s \in Text, NEW c \in Alphabet, s \in G PROVE Append(s, c) \in G
  <2>0. /\ Len(s) \in Nat /\ Len(Append(s, c)) = Len(s) + 1 /\ Append(s, c)[Len(s) + 1] = c
        /\ \A i \in 1..Len(s) : Append(s, c)[i] = s[i]
        /\ Append(s, c) \in Text
    BY TextAppend
  <2> SUFFICES ASSUME Blank(Append(s, c))
               PROVE  ReadOn(r, Append(s, c), correct) = Spaced(r, correct)
    BY <2>0, AppendProperties DEF Text
  <2>1. Blank(s) /\ c \in White
    <3>1. Len(s) + 1 \in 1..Len(Append(s, c)) /\ \A i \in 1..Len(s) : i \in 1..Len(Append(s, c))
      BY <2>0
    <3>. QED BY <2>0, <3>1
  <2>2. ReadOn(r, s, correct) = IF s = <<>> THEN r ELSE Spaced(r, correct)
    BY <1>2, <2>1
  <2>3. ReadOn(r, Append(s, c), correct) = Spaced(ReadOn(r, s, correct), correct)
    BY <2>1, ReadOnAppend DEF ReadOne, White
  <2>. QED BY <2>2, <2>3, SpacedTwice
<1> HIDE DEF G
<1>3. \A s \in Seq(Alphabet) : s \in G
  BY <1>1, <1>2, TextInduction DEF Text
<1>4. t \in G
  BY <1>3 DEF Text
<1>. QED BY <1>4 DEF G

\* White space after a text is stripped.
LEMMA StripWhite ==
  ASSUME NEW d \in Text, NEW w \in Text, \A i \in 1..Len(w) : w[i] \in White
  PROVE  Strip(d \o w) = Strip(d)
<1> DEFINE Blank(s) == \A i \in 1..Len(s) : s[i] \in White
           G == {s \in Text : Blank(s) => Strip(d \o s) = Strip(d)}
<1>1. <<>> \in G
  BY ShortTexts, ConcatEmptySeq DEF Text
<1>2. ASSUME NEW s \in Text, NEW c \in Alphabet, s \in G PROVE Append(s, c) \in G
  <2>0. /\ Len(s) \in Nat /\ Len(Append(s, c)) = Len(s) + 1 /\ Append(s, c)[Len(s) + 1] = c
        /\ \A i \in 1..Len(s) : Append(s, c)[i] = s[i]
        /\ Append(s, c) \in Text
    BY TextAppend
  <2> SUFFICES ASSUME Blank(Append(s, c)) PROVE Strip(d \o Append(s, c)) = Strip(d)
    BY <2>0
  <2>1. Blank(s) /\ c \in White
    <3>1. Len(s) + 1 \in 1..Len(Append(s, c)) /\ \A i \in 1..Len(s) : i \in 1..Len(Append(s, c))
      BY <2>0
    <3>. QED BY <2>0, <3>1
  <2>2. d \o s \in Text /\ d \o Append(s, c) = Append(d \o s, c)
    <3>1. d \o s \in Seq(Alphabet) /\ <<c>> \in Seq(Alphabet)
      BY ConcatProperties, ShortTexts DEF Text
    <3>2. Append(s, c) = s \o <<c>> /\ Append(d \o s, c) = (d \o s) \o <<c>>
      BY <3>1, AppendIsConcat DEF Text
    <3>. QED BY <3>1, <3>2, ConcatAssociative DEF Text
  <2>3. Strip(Append(d \o s, c)) = Strip(d \o s)
    BY <2>1, <2>2, SaidWhite
  <2>. QED BY <1>2, <2>1, <2>2, <2>3
<1> HIDE DEF G
<1>3. \A s \in Seq(Alphabet) : s \in G
  BY <1>1, <1>2, TextInduction DEF Text
<1>4. w \in G
  BY <1>3 DEF Text
<1>. QED BY <1>4 DEF G

\* A text without dashes is cut into texts without dashes.
LEMMA CleanParts ==
  ASSUME NEW p \in CleanText, NEW n \in 0..Len(p)
  PROVE  /\ SubSeq(p, 1, n) \in CleanText /\ Len(SubSeq(p, 1, n)) = n
         /\ \A i \in 1..n : SubSeq(p, 1, n)[i] = p[i]
         /\ SubSeq(p, n + 1, Len(p)) \in CleanText
         /\ Len(SubSeq(p, n + 1, Len(p))) = Len(p) - n
         /\ p = SubSeq(p, 1, n) \o SubSeq(p, n + 1, Len(p))
<1> DEFINE m == Len(p)
           A == Alphabet \ {"-"}
<1>0. m \in Nat /\ n \in 0..m /\ \A i \in 1..m : p[i] \in A
  BY LenProperties, ElementOfSeq DEF CleanText
<1>1. p \in Seq(A) /\ SubSeq(p, 1, m) = p
  BY SubSeqFull DEF CleanText
<1> HIDE DEF m, A
<1>2. /\ SubSeq(p, 1, n) \in Seq(A) /\ Len(SubSeq(p, 1, n)) = n
      /\ \A i \in 1..n : SubSeq(p, 1, n)[i] = p[i]
  <2>1. \A i \in 1..n : p[i] \in A
    BY <1>0
  <2>2. /\ SubSeq(p, 1, n) \in Seq(A) /\ Len(SubSeq(p, 1, n)) = IF 1 <= n THEN n - 1 + 1 ELSE 0
        /\ \A i \in 1..(n - 1 + 1) : SubSeq(p, 1, n)[i] = p[1 + i - 1]
    BY <1>0, <2>1, SubSeqProperties
  <2>. QED BY <1>0, <2>2
<1>3. SubSeq(p, n + 1, m) \in Seq(A) /\ Len(SubSeq(p, n + 1, m)) = m - n
  <2>1. \A i \in (n + 1)..m : p[i] \in A
    BY <1>0
  <2>2. /\ SubSeq(p, n + 1, m) \in Seq(A)
        /\ Len(SubSeq(p, n + 1, m)) = IF n + 1 <= m THEN m - (n + 1) + 1 ELSE 0
    BY <1>0, <2>1, SubSeqProperties
  <2>. QED BY <1>0, <2>2
<1>4. SubSeq(p, 1, n) \o SubSeq(p, n + 1, m) = SubSeq(p, 1, m)
  <2>1. 1 \in 1..(Len(p) + 1) /\ n \in (1 - 1)..Len(p) /\ m \in n..Len(p)
    BY <1>0 DEF m
  <2>. QED BY <1>1, <2>1, ConcatAdjacentSubSeq
<1>. QED BY <1>1, <1>2, <1>3, <1>4 DEF CleanText, m, A

\* SentenceEnd finds the first full stop with white space after it, and takes
\* all of that.
LEMMA SentenceEndIs ==
  ASSUME NEW p \in CleanText
  PROVE  /\ SentenceEnd(p) = 0 <=> Unended(p)
         /\ SentenceEnd(p) # 0 =>
              \E e \in 1..Len(p) :
                /\ p[e] = "." /\ Unended(SubSeq(p, 1, e))
                /\ SentenceEnd(p) \in (e + 1)..Len(p)
                /\ \A i \in (e + 1)..SentenceEnd(p) : p[i] \in White
<1> DEFINE m == Len(p)
           ends == {i \in 1..(m - 1) : p[i] = "." /\ p[i + 1] \in White}
           e == Min(ends)
           W == {i \in Inked(p) : i > e} \cup {m + 1}
           n == Min(W) - 1
<1>0. m \in Nat /\ DOMAIN p = 1..m
  BY LenProperties DEF CleanText
<1>1. Unended(p) <=> ends = {}
  BY DEF Unended
<1>2. SentenceEnd(p) = IF ends = {} THEN 0 ELSE n
  BY DEF SentenceEnd
<1>3. ASSUME ends # {}
      PROVE  /\ e \in 1..m /\ p[e] = "." /\ Unended(SubSeq(p, 1, e))
             /\ n \in (e + 1)..m
             /\ \A i \in (e + 1)..n : p[i] \in White
  <2>1. e \in ends /\ \A i \in ends : e <= i
    <3>1. ends \subseteq 1..m
      BY <1>0
    <3> HIDE DEF ends, m
    <3>. QED BY <1>0, <1>3, <3>1, Extremes
  <2>2. e \in 1..(m - 1) /\ p[e] = "." /\ p[e + 1] \in White /\ e \in 1..m
    <3> HIDE DEF e
    <3>. QED BY <1>0, <2>1
  <2>3. Unended(SubSeq(p, 1, e))
    <3> HIDE DEF e, ends
    <3>1. e \in 0..Len(p)
      BY <1>0, <2>2
    <3>2. Len(SubSeq(p, 1, e)) = e /\ \A i \in 1..e : SubSeq(p, 1, e)[i] = p[i]
      BY <3>1, CleanParts
    <3>3. ASSUME NEW i \in 1..(e - 1), p[i] = ".", p[i + 1] \in White PROVE FALSE
      <4>1. i \in ends
        BY <1>0, <2>2, <3>3 DEF ends
      <4>. QED BY <2>1, <2>2, <3>3, <4>1
    <3>4. \A i \in 1..(e - 1) : i \in 1..e /\ i + 1 \in 1..e
      BY <2>2
    <3>. QED BY <3>2, <3>3, <3>4 DEF Unended
  <2> HIDE DEF e
  <2>4. Min(W) \in W /\ \A i \in W : Min(W) <= i
    <3>1. W \subseteq 1..(m + 1) /\ W # {} /\ m + 1 \in Nat
      BY <1>0 DEF Inked
    <3> HIDE DEF W, m
    <3>. QED BY <3>1, Extremes
  <2>5. e + 1 \notin Inked(p) /\ Inked(p) \subseteq 1..m
    BY <1>0, <2>2 DEF Inked
  <2>6. n \in (e + 1)..m
    <3> DEFINE x == Min(W)
    <3>1. x \in W
      BY <2>4
    <3> HIDE DEF x
    <3>2. x \in (e + 2)..(m + 1)
      BY <1>0, <2>2, <2>5, <3>1
    <3>3. x - 1 \in (e + 1)..m
      BY <1>0, <2>2, <3>2
    <3>. QED BY <3>3 DEF x
  <2>7. \A i \in (e + 1)..n : p[i] \in White
    <3> SUFFICES ASSUME NEW i \in (e + 1)..n, p[i] \notin White PROVE FALSE
      OBVIOUS
    <3>1. i \in 1..m /\ i > e
      <4> HIDE DEF n
      <4>. QED BY <1>0, <2>2, <2>6
    <3>2. i \in W
      BY <1>0, <3>1 DEF Inked
    <3>3. n + 1 <= i
      <4>1. Min(W) <= i /\ Min(W) \in Nat
        <5>1. W \subseteq Nat
          BY <1>0, <2>5
        <5> HIDE DEF W
        <5>. QED BY <2>4, <3>2, <5>1
      <4> DEFINE x == Min(W)
      <4> HIDE DEF x
      <4>2. x <= i /\ x \in Nat /\ n = x - 1
        BY <4>1 DEF x
      <4>. QED BY <4>2
    <3> HIDE DEF n
    <3>. QED BY <1>0, <2>2, <2>6, <3>3
  <2>. QED BY <2>2, <2>3, <2>6, <2>7
<1> HIDE DEF e, n, m
<1>4. CASE ends = {}
  BY <1>1, <1>2, <1>4
<1>5. CASE ends # {}
  <2>1. e \in 1..m /\ n \in (e + 1)..m
    BY <1>3, <1>5
  <2>2. n # 0 /\ SentenceEnd(p) = n
    <3>1. n # 0
      BY <1>0, <2>1
    <3> HIDE DEF ends
    <3>. QED BY <1>2, <1>5, <3>1
  <2> HIDE DEF ends
  <2>. QED BY <1>1, <1>3, <1>5, <2>1, <2>2 DEF m
<1>. QED BY <1>4, <1>5

----------------------------------------------------------------------------
(* The gate                                                                *)

\* The states of a gate.
GateState == [pending : CleanText, released : Seq(Text), failure : GateFailures, closed : BOOLEAN]

\* A gate that is still fed has closed on a failure, or not at all.
Fed(g) == g \in GateState /\ (g.closed <=> g.failure # "none")

\* The reading that a gate has come to.
View(g, correct) ==
  IF g.failure # "none"
  THEN [out |-> Read(g.released), cur |-> <<>>, gap |-> FALSE, failure |-> g.failure]
  ELSE ReadOn(From(Read(g.released)), g.pending, correct)

\* Read of one sentence more.
LEMMA ReadAppend ==
  ASSUME NEW s \in Seq(Text), NEW x \in Text
  PROVE  /\ Read(s) \in Seq(Text) /\ Len(Read(s)) = Len(s) /\ Len(s) \in Nat
         /\ Append(s, x) \in Seq(Text)
         /\ Read(Append(s, x)) = Append(Read(s), Squeeze(x))
<1> DEFINE n == Len(s)
           u == Append(s, x)
<1>1. /\ n \in Nat /\ DOMAIN s = 1..n /\ \A i \in 1..n : s[i] \in Text
  BY LenProperties, ElementOfSeq
<1>2. /\ u \in Seq(Text) /\ Len(u) = n + 1 /\ u[n + 1] = x /\ \A i \in 1..n : u[i] = s[i]
      /\ DOMAIN u = 1..(n + 1)
  <2>1. u \in Seq(Text) /\ Len(u) = n + 1 /\ u[n + 1] = x /\ \A i \in 1..n : u[i] = s[i]
    BY AppendProperties
  <2> HIDE DEF u, n
  <2>. QED BY <2>1, LenProperties
<1> HIDE DEF n, u
<1>3. \A y \in Text : Squeeze(y) \in Text
  BY SqueezeAppend, LettersAre
<1>4. Read(s) \in Seq(Text) /\ Len(Read(s)) = n /\ \A i \in 1..n : Read(s)[i] = Squeeze(s[i])
  BY <1>1, <1>3 DEF Read
<1>5. Read(u) \in Seq(Text) /\ Len(Read(u)) = n + 1 /\ \A i \in 1..(n + 1) : Read(u)[i] = Squeeze(u[i])
  <2>1. \A i \in 1..(n + 1) : u[i] \in Text
    BY <1>1, <1>2
  <2>. QED BY <1>1, <1>2, <1>3, <2>1 DEF Read
<1>6. Read(u) = Append(Read(s), Squeeze(x))
  <2> DEFINE v == Append(Read(s), Squeeze(x))
  <2>1. v \in Seq(Text) /\ Len(v) = n + 1 /\ v[n + 1] = Squeeze(x) /\ \A i \in 1..n : v[i] = Read(s)[i]
    BY <1>3, <1>4, AppendProperties
  <2> HIDE DEF v
  <2>2. \A i \in 1..(n + 1) : Read(u)[i] = v[i]
    BY <1>1, <1>2, <1>4, <1>5, <2>1
  <2>3. Read(u) = v
    BY <1>5, <2>1, <2>2, SeqEqual
  <2>. QED BY <2>3 DEF v
<1>. QED BY <1>1, <1>2, <1>4, <1>6 DEF n, u

\* Read of no sentence.
LEMMA ReadEmpty == Read(<<>>) = <<>>
BY DEF Read

\* The first sentence of what is pending, read from the start of a sentence.
LEMMA FirstSentence ==
  ASSUME NEW o \in Seq(Text), NEW correct \in BOOLEAN, NEW p \in CleanText, SentenceEnd(p) # 0
  PROVE  LET n == SentenceEnd(p)
             s == SubSeq(p, 1, n)
         IN  /\ n \in 1..Len(p) /\ s \in CleanText
             /\ Strip(s) # <<>> /\ Last(Strip(s)) = "."
             /\ ReadOn(From(o), s, correct)
                  = Judged([out |-> o, cur |-> Said(s), gap |-> FALSE, failure |-> "none"], correct)
<1> DEFINE n == SentenceEnd(p)
           s == SubSeq(p, 1, n)
<1>1. PICK e \in 1..Len(p) :
        /\ p[e] = "." /\ Unended(SubSeq(p, 1, e))
        /\ n \in (e + 1)..Len(p)
        /\ \A i \in (e + 1)..n : p[i] \in White
  BY SentenceEndIs
<1> DEFINE d == SubSeq(p, 1, e)
           w == SubSeq(s, e + 1, Len(s))
<1>0. Len(p) \in Nat
  BY LenProperties DEF CleanText
<1>2. n \in 1..Len(p) /\ n \in 0..Len(p) /\ e \in 0..Len(p)
  BY <1>0, <1>1
<1> HIDE DEF n
<1>3. s \in CleanText /\ Len(s) = n /\ \A i \in 1..n : s[i] = p[i]
  BY <1>2, CleanParts
<1>4. d \in CleanText /\ Len(d) = e /\ \A i \in 1..e : d[i] = p[i]
  BY <1>2, CleanParts
<1> HIDE DEF s
<1>5. /\ SubSeq(s, 1, e) \in CleanText /\ Len(SubSeq(s, 1, e)) = e
      /\ \A i \in 1..e : SubSeq(s, 1, e)[i] = s[i]
      /\ w \in CleanText /\ Len(w) = n - e /\ s = SubSeq(s, 1, e) \o w
  <2>1. e \in 0..Len(s)
    BY <1>0, <1>1, <1>2, <1>3
  <2>. QED BY <1>3, <2>1, CleanParts
<1>6. SubSeq(s, 1, e) = d
  <2>1. \A i \in 1..e : SubSeq(s, 1, e)[i] = d[i]
    <3> TAKE i \in 1..e
    <3>1. i \in 1..n
      BY <1>0, <1>1, <1>2
    <3>. QED BY <1>3, <1>4, <1>5, <3>1
  <2>. QED BY <1>4, <1>5, <2>1, SeqEqual DEF CleanText
<1> HIDE DEF d
<1>7. s = d \o w
  BY <1>5, <1>6
<1>8. w # <<>> /\ \A i \in 1..Len(w) : w[i] \in White
  <2>1. \A i \in 1..Len(w) : w[i] = s[e + i]
    <3>1. d \in Seq(Alphabet \ {"-"}) /\ w \in Seq(Alphabet \ {"-"})
      BY <1>4, <1>5 DEF CleanText
    <3> HIDE DEF w
    <3>2. \A i \in 1..(Len(d) + Len(w)) : (d \o w)[i] = IF i <= Len(d) THEN d[i] ELSE w[i - Len(d)]
      BY <3>1, ConcatProperties
    <3> TAKE i \in 1..Len(w)
    <3>3. e + i \in 1..(Len(d) + Len(w)) /\ ~ (e + i <= Len(d)) /\ (e + i) - Len(d) = i
      BY <1>0, <1>1, <1>2, <1>4, <1>5
    <3>. QED BY <1>7, <3>2, <3>3
  <2> HIDE DEF w
  <2>2. \A i \in 1..Len(w) : e + i \in (e + 1)..n /\ e + i \in 1..n
    BY <1>0, <1>1, <1>2, <1>5
  <2>3. Len(w) # 0
    BY <1>0, <1>1, <1>2, <1>5
  <2>. QED BY <1>1, <1>3, <2>1, <2>2, <2>3, EmptySeq
<1> HIDE DEF w
<1>9. d \in Text /\ w \in Text /\ s \in Text
  BY <1>3, <1>4, <1>5, CleanIsText
<1>10. Strip(s) = Strip(d) /\ Said(s) = Said(d)
  BY <1>7, <1>8, <1>9, StripWhite DEF Said
<1>11. d # <<>> /\ Last(d) = "."
  <2>1. e \in 1..e
    BY <1>0, <1>1
  <2>2. Len(d) # 0
    BY <1>0, <1>1, <1>4
  <2>. QED BY <1>1, <1>4, <2>1, <2>2, EmptySeq DEF Last
<1>12. Unended(d)
  BY <1>1 DEF d
<1> DEFINE r == ReadOn(From(o), d, correct)
<1>13. /\ r.out = o /\ r.failure = "none" /\ r.cur = Said(d)
       /\ r.gap <=> r.cur # <<>> /\ Last(d) \in White
       /\ d # <<>> /\ Last(d) \notin White => r.cur # <<>> /\ Last(r.cur) = Last(d)
  BY <1>4, <1>12, ReadSentence
<1>14. r \in Reading
  BY <1>9, FromTyped, ReadTyped
<1>15. ReadOn(From(o), s, correct) = ReadOn(r, w, correct)
  BY <1>7, <1>9, FromTyped, ReadOnConcat
<1> HIDE DEF r
<1>16. "." \notin White
  BY DEF White
<1>17. r.cur # <<>> /\ Last(r.cur) = "." /\ ~ r.gap
  BY <1>11, <1>13, <1>16
<1>18. ReadOn(r, w, correct) = Judged(r, correct)
  <2>1. Spaced(r, correct) = Judged(r, correct)
    BY <1>13, <1>17 DEF Spaced
  <2>. QED BY <1>8, <1>9, <1>14, <2>1, ReadWhite
<1>19. r = [out |-> o, cur |-> Said(s), gap |-> FALSE, failure |-> "none"]
  <2>1. r.gap = FALSE
    BY <1>14, <1>17 DEF Reading
  <2>. QED BY <1>10, <1>13, <1>14, <2>1 DEF Reading
<1>20. Strip(s) # <<>> /\ Last(Strip(s)) = "."
  <2>1. Inked(d) # {} /\ Max(Inked(d)) = Len(d)
    <3>1. Len(d) \in Inked(d)
      <4>1. DOMAIN d = 1..Len(d) /\ Len(d) \in 1..Len(d)
        BY <1>0, <1>1, <1>4, LenProperties DEF CleanText
      <4>. QED BY <1>11, <1>16, <4>1 DEF Inked, Last
    <3>2. Max(Inked(d)) <= Len(d) /\ Len(d) <= Max(Inked(d)) /\ Max(Inked(d)) \in Nat /\ Len(d) \in Nat
      BY <1>9, <3>1, StripIs
    <3>3. Max(Inked(d)) = Len(d)
      <4> DEFINE x == Max(Inked(d))
                 y == Len(d)
      <4> HIDE DEF x, y
      <4>1. x = y
        BY <3>2 DEF x, y
      <4>. QED BY <4>1 DEF x, y
    <3>. QED BY <3>1, <3>3
  <2>2. Strip(d) # <<>> /\ Last(Strip(d)) = d[Len(d)]
    BY <1>9, <2>1, StripIs
  <2>. QED BY <1>10, <1>11, <2>2 DEF Last
<1>. QED BY <1>2, <1>3, <1>15, <1>18, <1>19, <1>20 DEF n, s

\* A sentence that may be shown: it passes its check, and has no white space
\* around it.
Fit(s, correct) ==
  /\ s \in Text /\ s # <<>> /\ s[1] \notin White /\ Last(s) \notin White
  /\ SentenceCheck(s, correct) = "none"

\* b is a and what was released after it, which is fit.
Grown(a, b, correct) ==
  /\ Len(a) <= Len(b)
  /\ \A i \in 1..Len(a) : b[i] = a[i]
  /\ \A i \in (Len(a) + 1)..Len(b) : Fit(b[i], correct)
  /\ Len(a) < Len(b) => Len(b) <= MaxSentences

\* What was released after a had ended.
Ended(a, b) == \A i \in (Len(a) + 1)..Len(b) : Last(b[i]) = "."

\* Sentences released after sentences released.
LEMMA GrownTransitive ==
  ASSUME NEW a \in Seq(Text), NEW b \in Seq(Text), NEW c \in Seq(Text), NEW correct,
         Grown(a, b, correct), Grown(b, c, correct)
  PROVE  Grown(a, c, correct) /\ (Ended(a, b) /\ Ended(b, c) => Ended(a, c))
<1>0. Len(a) \in Nat /\ Len(b) \in Nat /\ Len(c) \in Nat
  BY LenProperties
<1>1. Len(a) <= Len(b) /\ Len(b) <= Len(c)
  BY DEF Grown
<1>2. \A i \in (Len(a) + 1)..Len(c) : IF i <= Len(b) THEN i \in (Len(a) + 1)..Len(b) /\ i \in 1..Len(b)
                                                     ELSE i \in (Len(b) + 1)..Len(c)
  BY <1>0, <1>1
<1>3. \A i \in 1..Len(a) : i \in 1..Len(b)
  BY <1>0, <1>1
<1>4. \A i \in 1..Len(a) : c[i] = a[i]
  BY <1>3 DEF Grown
<1>5. \A i \in (Len(a) + 1)..Len(c) : Fit(c[i], correct)
  <2> TAKE i \in (Len(a) + 1)..Len(c)
  <2>1. CASE i <= Len(b)
    <3>1. i \in (Len(a) + 1)..Len(b) /\ i \in 1..Len(b)
      BY <1>2, <2>1
    <3>2. c[i] = b[i] /\ Fit(b[i], correct)
      BY <3>1 DEF Grown
    <3>. QED BY <3>2
  <2>2. CASE ~ (i <= Len(b))
    BY <1>2, <2>2 DEF Grown
  <2>. QED BY <2>1, <2>2
<1>6. Len(a) < Len(c) => Len(c) <= MaxSentences
  <2>1. Len(a) < Len(b) => Len(b) <= MaxSentences
    BY DEF Grown
  <2>2. Len(b) < Len(c) => Len(c) <= MaxSentences
    BY DEF Grown
  <2>. QED BY <1>0, <1>1, <2>1, <2>2
<1>7. ASSUME Ended(a, b), Ended(b, c) PROVE Ended(a, c)
  <2> SUFFICES ASSUME NEW i \in (Len(a) + 1)..Len(c) PROVE Last(c[i]) = "."
    BY DEF Ended
  <2>1. CASE i <= Len(b)
    <3>1. i \in (Len(a) + 1)..Len(b) /\ i \in 1..Len(b)
      BY <1>2, <2>1
    <3>2. c[i] = b[i] /\ Last(b[i]) = "."
      BY <1>7, <3>1 DEF Grown, Ended
    <3>. QED BY <3>2
  <2>2. CASE ~ (i <= Len(b))
    BY <1>2, <1>7, <2>2 DEF Ended
  <2>. QED BY <2>1, <2>2
<1>. QED BY <1>0, <1>1, <1>4, <1>5, <1>6, <1>7 DEF Grown

\* Nothing released.
LEMMA GrownSame ==
  ASSUME NEW a \in Seq(Text), NEW correct PROVE Grown(a, a, correct) /\ Ended(a, a)
<1>1. Len(a) \in Nat
  BY LenProperties
<1>2. (Len(a) + 1)..Len(a) = {} /\ Len(a) <= Len(a) /\ ~ (Len(a) < Len(a))
  BY <1>1
<1>. QED BY <1>2 DEF Grown, Ended

\* Admit judges a sentence as a reader does.
LEMMA AdmitIs ==
  ASSUME NEW g \in GateState, NEW raw \in CleanText, NEW correct \in BOOLEAN,
         g.failure = "none", Strip(raw) # <<>>
  PROVE  LET h == Admit(g, raw, correct)
             why == Why(Len(Read(g.released)), Said(raw), correct)
             r == Judged([out |-> Read(g.released), cur |-> Said(raw), gap |-> FALSE, failure |-> "none"],
                         correct)
         IN  /\ h \in GateState /\ h.pending = g.pending
             /\ Grown(g.released, h.released, correct)
             /\ Last(Strip(raw)) = "." => Ended(g.released, h.released)
             /\ r = [out |-> Read(h.released), cur |-> <<>>, gap |-> FALSE, failure |-> h.failure]
             /\ h.closed = IF h.failure = "none" THEN g.closed ELSE TRUE
<1> DEFINE sentence == Strip(raw)
           o == Read(g.released)
           why == Why(Len(o), Said(raw), correct)
           h == Admit(g, raw, correct)
           r0 == [out |-> o, cur |-> Said(raw), gap |-> FALSE, failure |-> "none"]
<1>0. raw \in Text /\ g.released \in Seq(Text) /\ g.pending \in CleanText /\ g.closed \in BOOLEAN
  BY CleanIsText DEF GateState
<1>1. /\ sentence \in Text /\ Len(o) = Len(g.released) /\ o \in Seq(Text) /\ Len(g.released) \in Nat
      /\ Append(g.released, sentence) \in Seq(Text)
      /\ Read(Append(g.released, sentence)) = Append(o, Said(raw))
  <2>1. sentence \in Text
    BY <1>0, StripType
  <2>. QED BY <1>0, <2>1, ReadAppend DEF Said
<1>2. Said(raw) # <<>> /\ Said(raw) \in Text
  BY <1>0, SaidType, StripEmpty
<1>3. why = IF Len(g.released) >= MaxSentences THEN "sentences" ELSE SentenceCheck(sentence, correct)
  BY <1>0, <1>1, SaidCheck DEF Why
<1>4. why \in GateFailures
  BY CheckType
<1>5. h = IF why # "none" THEN [g EXCEPT !.failure = why, !.closed = TRUE]
          ELSE [g EXCEPT !.released = Append(@, sentence)]
  BY <1>3 DEF Admit
<1>6. Judged(r0, correct) = IF why # "none"
                            THEN [out |-> o, cur |-> <<>>, gap |-> FALSE, failure |-> why]
                            ELSE From(Append(o, Said(raw)))
  BY <1>2 DEF Judged
<1>7. CASE why # "none"
  <2> HIDE DEF why, r0, h, o
  <2>1. h = [g EXCEPT !.failure = why, !.closed = TRUE]
    BY <1>5, <1>7
  <2>2. /\ h \in GateState /\ h.pending = g.pending /\ h.released = g.released
        /\ h.failure = why /\ h.closed = TRUE
    BY <1>4, <2>1 DEF GateState
  <2>3. Judged(r0, correct) = [out |-> o, cur |-> <<>>, gap |-> FALSE, failure |-> why]
    BY <1>6, <1>7
  <2>4. Grown(g.released, h.released, correct) /\ Ended(g.released, h.released)
    BY <1>0, <2>2, GrownSame
  <2>5. Read(h.released) = o
    BY <2>2 DEF o
  <2>. QED BY <1>7, <2>2, <2>3, <2>4, <2>5 DEF h, r0, o
<1>8. CASE why = "none"
  <2>0. /\ Len(g.released) < MaxSentences /\ SentenceCheck(sentence, correct) = "none"
        /\ MaxSentences \in Nat
    BY <1>1, <1>3, <1>8, StreamAssumption
  <2> HIDE DEF why, r0, h, o
  <2>1. h = [g EXCEPT !.released = Append(g.released, sentence)]
    BY <1>5, <1>8
  <2>2. /\ h \in GateState /\ h.pending = g.pending /\ h.released = Append(g.released, sentence)
        /\ h.failure = "none" /\ h.closed = g.closed
    BY <1>1, <2>1 DEF GateState
  <2>3. Judged(r0, correct) = From(Append(o, Said(raw)))
    BY <1>6, <1>8
  <2>4. Judged(r0, correct) = [out |-> Read(h.released), cur |-> <<>>, gap |-> FALSE, failure |-> h.failure]
    BY <1>1, <2>2, <2>3 DEF From
  <2>5. Fit(sentence, correct)
    <3>1. Inked(raw) # {}
      BY <1>0, StripEmpty
    <3>2. sentence[1] \notin White /\ Last(sentence) \notin White
      BY <1>0, <3>1, StripIs DEF Inked
    <3>. QED BY <1>1, <2>0, <3>2 DEF Fit
  <2> DEFINE n == Len(g.released)
  <2>6. /\ Len(h.released) = n + 1 /\ h.released[n + 1] = sentence
        /\ \A i \in 1..n : h.released[i] = g.released[i]
    BY <1>0, <1>1, <2>2, AppendProperties
  <2>7. n \in Nat /\ (n + 1)..(n + 1) = {n + 1} /\ n + 1 <= MaxSentences /\ n <= n + 1
    BY <1>1, <2>0
  <2> HIDE DEF sentence
  <2>8. Grown(g.released, h.released, correct)
    BY <2>5, <2>6, <2>7 DEF Grown
  <2>9. Last(sentence) = "." => Ended(g.released, h.released)
    BY <2>6, <2>7 DEF Ended
  <2>. QED BY <2>2, <2>4, <2>8, <2>9 DEF h, r0, o, sentence
<1>. QED BY <1>7, <1>8

\* One turn of the loop leaves the reading alone.
LEMMA DrainNextIs ==
  ASSUME NEW g, Fed(g), NEW correct \in BOOLEAN
  PROVE  LET h == DrainNext(g, correct)
         IN  /\ Fed(h) /\ View(h, correct) = View(g, correct)
             /\ Grown(g.released, h.released, correct) /\ Ended(g.released, h.released)
             /\ g.closed \/ SentenceEnd(g.pending) = 0 => h = g
             /\ ~ (g.closed \/ SentenceEnd(g.pending) = 0) => Len(h.pending) < Len(g.pending)
<1> DEFINE h == DrainNext(g, correct)
           p == g.pending
           n == SentenceEnd(p)
           o == Read(g.released)
<1>0. /\ g \in GateState /\ p \in CleanText /\ g.released \in Seq(Text)
      /\ o \in Seq(Text)
  <2>1. g.released \in Seq(Text) /\ <<>> \in Text
    BY ShortTexts DEF Fed, GateState
  <2>. QED BY <2>1, ReadAppend DEF Fed, GateState
<1>1. CASE g.closed \/ n = 0
  <2>1. h = g
    BY <1>1 DEF DrainNext
  <2> HIDE DEF h
  <2>. QED BY <1>0, <1>1, <2>1, GrownSame DEF h
<1>2. CASE ~ (g.closed \/ n = 0)
  <2> DEFINE s == SubSeq(p, 1, n)
             left == SubSeq(p, n + 1, Len(p))
             rest == [g EXCEPT !.pending = left]
             r0 == [out |-> o, cur |-> Said(s), gap |-> FALSE, failure |-> "none"]
  <2>1. /\ n \in 1..Len(p) /\ s \in CleanText
        /\ Strip(s) # <<>> /\ Last(Strip(s)) = "."
        /\ ReadOn(From(o), s, correct) = Judged(r0, correct)
    BY <1>0, <1>2, FirstSentence
  <2>2. h = Admit(rest, s, correct)
    BY <1>2 DEF DrainNext
  <2>3. n \in 0..Len(p) /\ Len(p) \in Nat
    BY <1>0, <2>1, LenProperties DEF CleanText
  <2> HIDE DEF n
  <2>4. left \in CleanText /\ Len(left) = Len(p) - n /\ p = s \o left
    BY <1>0, <2>3, CleanParts
  <2> HIDE DEF left
  <2>5. /\ rest \in GateState /\ rest.pending = left /\ rest.released = g.released
        /\ rest.failure = "none" /\ rest.closed = FALSE /\ g.failure = "none"
    BY <1>0, <1>2, <2>4 DEF Fed, GateState
  <2> HIDE DEF rest, s, h
  <2>6. /\ h \in GateState /\ h.pending = left
        /\ Grown(g.released, h.released, correct)
        /\ Ended(g.released, h.released)
        /\ Judged(r0, correct)
             = [out |-> Read(h.released), cur |-> <<>>, gap |-> FALSE, failure |-> h.failure]
        /\ h.closed = IF h.failure = "none" THEN FALSE ELSE TRUE
    BY <2>1, <2>2, <2>5, AdmitIs
  <2>7. Fed(h)
    BY <2>6 DEF Fed
  <2>8. Len(h.pending) < Len(p)
    BY <2>1, <2>3, <2>4, <2>6
  <2>9. View(h, correct) = View(g, correct)
    <3>1. s \in Text /\ left \in Text
      BY <2>1, <2>4, CleanIsText
    <3>2. View(g, correct) = ReadOn(From(o), s \o left, correct)
      BY <2>4, <2>5 DEF View
    <3>3. View(g, correct) = ReadOn(Judged(r0, correct), left, correct)
      BY <1>0, <2>1, <3>1, <3>2, FromTyped, ReadOnConcat
    <3>4. Judged(r0, correct) \in Reading
      BY <1>0, <2>1, <3>1, FromTyped, ReadTyped
    <3>5. CASE h.failure = "none"
      <4>1. Judged(r0, correct) = From(Read(h.released))
        BY <2>6, <3>5 DEF From
      <4>. QED BY <2>6, <3>3, <3>5, <4>1 DEF View
    <3>6. CASE h.failure # "none"
      <4>1. Judged(r0, correct).failure # "none"
        BY <2>6, <3>6
      <4>2. ReadOn(Judged(r0, correct), left, correct) = Judged(r0, correct)
        BY <3>1, <3>4, <4>1, ReadNothing
      <4>3. View(h, correct) = Judged(r0, correct)
        BY <2>6, <3>6 DEF View
      <4>. QED BY <3>3, <4>2, <4>3
    <3>. QED BY <3>5, <3>6
  <2>. QED BY <1>2, <2>6, <2>7, <2>8, <2>9 DEF n, h
<1>. QED BY <1>1, <1>2

\* The loop ends when no sentence is left that has ended, or on a failure.
Drained(g) == g.closed \/ SentenceEnd(g.pending) = 0

\* Draining a gate judges every sentence that has ended, and is not seen by a reader.
LEMMA DrainIs ==
  ASSUME NEW g, Fed(g), NEW correct \in BOOLEAN
  PROVE  LET h == Drain(g, correct)
         IN  /\ Fed(h) /\ View(h, correct) = View(g, correct) /\ Drained(h)
             /\ Grown(g.released, h.released, correct) /\ Ended(g.released, h.released)
<1> DEFINE n == Len(g.pending)
           S == {x \in GateState : Fed(x)}
           step == [x \in Nat \X S |-> DrainNext(x[2], correct)]
<1>0. n \in Nat /\ g \in S /\ g \in GateState
  <2>1. g \in GateState /\ g.pending \in CleanText
    BY DEF Fed, GateState
  <2>. QED BY <2>1, LenProperties DEF CleanText
<1>1. \A x \in S : DrainNext(x, correct) \in S
  BY DrainNextIs DEF Fed
<1> HIDE DEF n
<1>2. step \in [Nat \X S -> S]
  <2> HIDE DEF S
  <2>. QED BY <1>1
<1>3. PICK f : Iterates(f, n, S, g, step)
  <2>1. n \in Nat /\ g \in S
    BY <1>0
  <2> HIDE DEF step, S
  <2>. QED BY <1>2, <2>1, Recursion, Zenon
<1>4. f \in [0..n -> S] /\ f[0] = g /\ \A i \in 1..n : f[i] = step[<<i, f[i - 1]>>]
  <2> HIDE DEF step, S
  <2>. QED BY <1>3 DEF Iterates
<1>5. \A i \in 1..n : f[i] = DrainNext(f[i - 1], correct)
  <2> HIDE DEF S
  <2> TAKE i \in 1..n
  <2>1. i \in Nat /\ i - 1 \in 0..n
    BY <1>0
  <2>2. f[i - 1] \in S
    BY <1>4, <2>1
  <2>3. step[<<i, f[i - 1]>>] = DrainNext(f[i - 1], correct)
    BY <2>1, <2>2
  <2>. QED BY <1>4, <2>3
<1> HIDE DEF step
<1>6. Drain(g, correct) = f[n]
  <2> DEFINE Is(x) == x = [k \in 0..n |-> IF k = 0 THEN g ELSE DrainNext(x[k - 1], correct)]
             c == CHOOSE x : Is(x)
  <2>1. Is(f)
    <3> HIDE DEF S
    <3>1. \A i \in 0..n : f[i] = IF i = 0 THEN g ELSE DrainNext(f[i - 1], correct)
      <4> TAKE i \in 0..n
      <4>1. CASE i = 0
        BY <1>4, <4>1
      <4>2. CASE i # 0
        <5>1. i \in 1..n
          BY <1>0, <4>2
        <5>. QED BY <1>5, <4>2, <5>1
      <4>. QED BY <4>1, <4>2
    <3>2. f = [i \in 0..n |-> f[i]]
      BY <1>4
    <3>. QED BY <3>1, <3>2
  <2>2. Is(c)
    <3> SUFFICES \E x : Is(x)
      BY Zenon
    <3>. QED BY <2>1
  <2>3. Drain(g, correct) = c[n]
    BY DEF Drain, n
  <2> DEFINE G == {k \in Nat : k <= n => c[k] = f[k]}
  <2> HIDE DEF c, S
  <2>4. 0 \in G
    BY <1>0, <1>4, <2>2
  <2>5. ASSUME NEW k \in Nat, k \in G PROVE k + 1 \in G
    <3> SUFFICES ASSUME k + 1 <= n PROVE c[k + 1] = f[k + 1]
      OBVIOUS
    <3>1. k + 1 \in 1..n /\ k + 1 # 0 /\ (k + 1) - 1 = k /\ k <= n /\ k + 1 \in 0..n
      BY <1>0
    <3>2. c[k + 1] = DrainNext(c[k], correct)
      BY <2>2, <3>1
    <3>3. f[k + 1] = DrainNext(f[k], correct)
      BY <1>5, <3>1
    <3>. QED BY <2>5, <3>1, <3>2, <3>3
  <2>6. n \in G
    <3> HIDE DEF G
    <3>. QED BY <1>0, <2>4, <2>5, Induction
  <2>. QED BY <1>0, <2>3, <2>6
<1> DEFINE Good(k) == /\ View(f[k], correct) = View(g, correct)
                      /\ Grown(g.released, f[k].released, correct)
                      /\ Ended(g.released, f[k].released)
                      /\ Drained(f[k]) \/ Len(f[k].pending) + k <= n
           H == {k \in Nat : k <= n => Good(k)}
<1>7. 0 \in H
  <2>1. g.released \in Seq(Text)
    BY <1>0 DEF GateState
  <2>2. Good(0)
    BY <1>0, <1>4, <2>1, GrownSame DEF n
  <2>. QED BY <2>2
<1>8. ASSUME NEW k \in Nat, k \in H PROVE k + 1 \in H
  <2> HIDE DEF Good
  <2> SUFFICES ASSUME k + 1 <= n PROVE Good(k + 1)
    OBVIOUS
  <2>1. k + 1 \in 1..n /\ (k + 1) - 1 = k /\ k <= n /\ k \in 0..n /\ k + 1 \in 0..n
    BY <1>0
  <2> DEFINE x == f[k]
             y == f[k + 1]
  <2>2. y = DrainNext(x, correct) /\ x \in S /\ y \in S
    BY <1>4, <1>5, <2>1
  <2>3. Good(k)
    BY <1>8, <2>1
  <2>4. /\ View(x, correct) = View(g, correct)
        /\ Grown(g.released, x.released, correct)
        /\ Ended(g.released, x.released)
        /\ Drained(x) \/ Len(x.pending) + k <= n
    BY <2>3 DEF Good
  <2> HIDE DEF x, y, H
  <2>5. /\ View(y, correct) = View(x, correct)
        /\ Grown(x.released, y.released, correct) /\ Ended(x.released, y.released)
        /\ x.closed \/ SentenceEnd(x.pending) = 0 => y = x
        /\ ~ (x.closed \/ SentenceEnd(x.pending) = 0) => Len(y.pending) < Len(x.pending)
    BY <2>2, DrainNextIs
  <2>6. x.released \in Seq(Text) /\ y.released \in Seq(Text) /\ g.released \in Seq(Text)
    BY <1>0, <2>2 DEF GateState
  <2>7. Grown(g.released, y.released, correct) /\ Ended(g.released, y.released)
    BY <2>4, <2>5, <2>6, GrownTransitive
  <2>8. Len(x.pending) \in Nat /\ Len(y.pending) \in Nat
    <3>1. x.pending \in CleanText /\ y.pending \in CleanText
      BY <2>2 DEF GateState
    <3>. QED BY <3>1, LenProperties DEF CleanText
  <2>9. Drained(y) \/ Len(y.pending) + (k + 1) <= n
    <3>1. CASE Drained(x)
      BY <2>5, <3>1 DEF Drained
    <3>2. CASE ~ Drained(x)
      <4>1. Len(y.pending) < Len(x.pending) /\ Len(x.pending) + k <= n
        BY <2>4, <2>5, <3>2 DEF Drained
      <4> DEFINE a == Len(x.pending)
                 b == Len(y.pending)
      <4>2. a \in Nat /\ b \in Nat /\ b < a /\ a + k <= n
        BY <2>8, <4>1
      <4> HIDE DEF a, b
      <4>3. b + (k + 1) <= n
        BY <1>0, <4>2
      <4>. QED BY <4>3 DEF b
    <3>. QED BY <3>1, <3>2
  <2>. QED BY <2>4, <2>5, <2>7, <2>9 DEF Good, y
<1>9. Good(n)
  <2>1. n \in H
    <3> HIDE DEF H
    <3>. QED BY <1>0, <1>7, <1>8, Induction
  <2>. QED BY <1>0, <2>1
<1>10. f[n] \in S
  BY <1>0, <1>4
<1>11. Drained(f[n])
  <2> SUFFICES ASSUME ~ Drained(f[n]) PROVE FALSE
    OBVIOUS
  <2>1. f[n].pending \in CleanText
    BY <1>10 DEF GateState
  <2>2. Len(f[n].pending) \in Nat
    BY <2>1, LenProperties DEF CleanText
  <2>3. Len(f[n].pending) = 0
    BY <1>0, <1>9, <2>2
  <2>4. Unended(f[n].pending)
    <3>1. 1..(Len(f[n].pending) - 1) = {}
      BY <2>3
    <3>. QED BY <3>1 DEF Unended
  <2>5. SentenceEnd(f[n].pending) = 0
    BY <2>1, <2>4, SentenceEndIs
  <2>. QED BY <2>5 DEF Drained
<1>. QED BY <1>6, <1>9, <1>10, <1>11

\* Whatever is fed, the gate comes to the reading that the text leads to.
LEMMA GateFeedIs ==
  ASSUME NEW g, Fed(g), NEW x \in CleanText, NEW correct \in BOOLEAN
  PROVE  LET h == GateFeed(g, x, correct)
         IN  /\ Fed(h) /\ View(h, correct) = ReadOn(View(g, correct), x, correct)
             /\ (Drained(g) \/ ~ g.closed => Drained(h))
             /\ Grown(g.released, h.released, correct) /\ Ended(g.released, h.released)
<1>0. /\ g \in GateState /\ g.released \in Seq(Text) /\ g.pending \in CleanText /\ x \in Text
      /\ Read(g.released) \in Seq(Text)
  <2>1. g \in GateState /\ g.released \in Seq(Text) /\ g.pending \in CleanText /\ x \in Text
    BY CleanIsText DEF Fed, GateState
  <2>2. <<>> \in Text
    BY ShortTexts
  <2>. QED BY <2>1, <2>2, ReadAppend
<1>1. CASE g.closed
  <2>1. GateFeed(g, x, correct) = g
    BY <1>1 DEF GateFeed
  <2>2. View(g, correct).failure # "none"
    BY <1>1 DEF Fed, View
  <2>3. View(g, correct) \in Reading
    <3>1. <<>> \in Text
      BY ShortTexts
    <3>. QED BY <1>0, <1>1, <3>1 DEF Fed, View, Reading, GateState
  <2>4. ReadOn(View(g, correct), x, correct) = View(g, correct)
    BY <1>0, <2>2, <2>3, ReadNothing
  <2>. QED BY <1>0, <1>1, <2>1, <2>4, GrownSame
<1>2. CASE ~ g.closed
  <2> DEFINE k == [g EXCEPT !.pending = g.pending \o x]
  <2>1. g.pending \o x \in CleanText
    BY <1>0, ConcatProperties DEF CleanText
  <2>2. /\ Fed(k) /\ k.pending = g.pending \o x /\ k.released = g.released /\ k.failure = "none"
        /\ g.failure = "none"
    BY <1>0, <1>2, <2>1 DEF Fed, GateState
  <2>3. GateFeed(g, x, correct) = Drain(k, correct)
    BY <1>2 DEF GateFeed
  <2> HIDE DEF k
  <2>4. View(k, correct) = ReadOn(From(Read(g.released)), g.pending \o x, correct)
    BY <2>2 DEF View
  <2>5. g.pending \in Text
    BY <1>0, CleanIsText
  <2>6. ReadOn(From(Read(g.released)), g.pending \o x, correct)
          = ReadOn(ReadOn(From(Read(g.released)), g.pending, correct), x, correct)
    BY <1>0, <2>5, FromTyped, ReadOnConcat
  <2>7. View(g, correct) = ReadOn(From(Read(g.released)), g.pending, correct)
    BY <2>2 DEF View
  <2> DEFINE h == Drain(k, correct)
  <2>8. /\ Fed(h) /\ View(h, correct) = View(k, correct) /\ Drained(h)
        /\ Grown(k.released, h.released, correct) /\ Ended(k.released, h.released)
    BY <2>2, DrainIs
  <2> HIDE DEF h
  <2>. QED BY <2>2, <2>3, <2>4, <2>6, <2>7, <2>8 DEF h
<1>. QED BY <1>1, <1>2

----------------------------------------------------------------------------
(* Dashes                                                                  *)

\* A sequence of one.
LEMMA OneAppended == ASSUME NEW S, NEW c \in S PROVE <<c>> = Append(<<>>, c)
OBVIOUS

\* A sequence of three.
LEMMA ThreeAppended ==
  ASSUME NEW S, NEW a \in S, NEW b \in S
  PROVE  /\ <<a, b>> = Append(<<a>>, b)
         /\ <<a, b, a>> = Append(<<a, b>>, a)
         /\ <<a, b, a>> \in Seq(S)
OBVIOUS

\* Reading on one symbol.
LEMMA ReadOnOne ==
  ASSUME NEW r \in Reading, NEW c \in Alphabet, NEW correct \in BOOLEAN
  PROVE  ReadOn(r, <<c>>, correct) = ReadOne(r, c, correct)
<1> DEFINE e == <<>>
<1>1. e \in Text
  BY ShortTexts
<1>2. <<c>> = Append(e, c)
  BY OneAppended
<1>3. ReadOn(r, e, correct) = r
  BY ReadOnEmpty
<1> HIDE DEF e
<1>4. ReadOn(r, Append(e, c), correct) = ReadOne(ReadOn(r, e, correct), c, correct)
  BY <1>1, ReadOnAppend
<1>. QED BY <1>2, <1>3, <1>4

\* What a dash becomes is read as the dash was.
LEMMA ReadDash ==
  ASSUME NEW r \in Reading, NEW correct \in BOOLEAN
  PROVE  /\ <<" ", "=", " ">> \in Text
         /\ ReadOn(r, <<" ", "=", " ">>, correct) = ReadOne(r, "-", correct)
<1>1. " " \in Alphabet /\ "=" \in Alphabet /\ <<" ">> \in Text /\ <<>> \in Text
  <2>1. <<" ">> \in Text
    BY ShortTexts
  <2>2. <<>> \in Text
    BY ShortTexts
  <2>. QED BY <2>1, <2>2, LettersAre DEF Alphabet
<1> DEFINE space == " "
           hyphen == "="
           one == <<space>>
           two == <<space, hyphen>>
           three == <<space, hyphen, space>>
<1>2. /\ one = Append(<<>>, space) /\ two = Append(one, hyphen) /\ three = Append(two, space)
      /\ space \in Alphabet /\ hyphen \in Alphabet /\ one \in Text
  <2> HIDE DEF space, hyphen
  <2>1. space \in Alphabet /\ hyphen \in Alphabet
    BY <1>1 DEF space, hyphen
  <2>2. one = Append(<<>>, space)
    BY <2>1, OneAppended
  <2>3. two = Append(one, hyphen) /\ three = Append(two, space)
    BY <2>1, ThreeAppended
  <2>4. one \in Text
    BY <1>1 DEF space
  <2>. QED BY <2>1, <2>2, <2>3, <2>4
<1> HIDE DEF space, hyphen, one, two, three
<1>3. two \in Text
  BY <1>2, TextAppend
<1>4. three \in Text
  BY <1>2, <1>3, TextAppend
<1> DEFINE a == ReadOn(r, one, correct)
           b == ReadOn(r, two, correct)
           c == ReadOn(r, three, correct)
<1>5. a = ReadOne(r, space, correct)
  BY <1>2, ReadOnOne DEF one
<1>6. b = ReadOne(a, hyphen, correct)
  BY <1>2, ReadOnAppend
<1>7. c = ReadOne(b, space, correct)
  BY <1>2, <1>3, ReadOnAppend
<1> HIDE DEF a, b, c
<1>8. /\ ReadOne(r, space, correct) = Spaced(r, correct)
      /\ ReadOne(a, hyphen, correct) = Inscribed(a, "=")
      /\ ReadOne(b, space, correct) = Spaced(b, correct)
      /\ ReadOne(r, "-", correct) = Spaced(Inscribed(Spaced(r, correct), "="), correct)
  BY DEF ReadOne, White, space, hyphen
<1>9. three \in Text /\ c = ReadOne(r, "-", correct)
  BY <1>4, <1>5, <1>6, <1>7, <1>8
<1>10. three = <<" ", "=", " ">>
  BY DEF three, space, hyphen
<1>. QED BY <1>9, <1>10 DEF c

\* Only white space lies between position k and a dash, before or after it.
DashBehind(t, k) ==
  \E j \in 1..Len(t) : j <= k /\ t[j] = "-" /\ \A i \in (j + 1)..k : t[i] \in White

\* A dash is the next symbol after place k that is not white.
DashAhead(t, k) ==
  \E j \in 1..Len(t) : j > k /\ t[j] = "-" /\ \A i \in (k + 1)..(j - 1) : t[i] \in White

\* BesideDash, one place further: the dash lies behind the place or ahead of it.
LEMMA BesideDashIs ==
  ASSUME NEW t \in Text, NEW k \in Nat, k + 1 \in 1..Len(t), t[k + 1] # "-"
  PROVE  /\ BesideDash(t, k + 1) <=> /\ t[k + 1] \in White
                                     /\ DashBehind(t, k) \/ DashAhead(t, k + 1)
         /\ DashBehind(t, k + 1) <=> t[k + 1] \in White /\ DashBehind(t, k)
         /\ DashAhead(t, k) <=> t[k + 1] \in White /\ DashAhead(t, k + 1)
<1> DEFINE n == Len(t)
<1>0. n \in Nat /\ DOMAIN t = 1..n /\ k + 1 \in 1..n
  BY LenProperties DEF Text
<1> HIDE DEF n
<1>1. ASSUME NEW j \in 1..n
      PROVE  /\ j <= k => /\ j <= k + 1 /\ j # k + 1
                          /\ (k + 1)..j = {} /\ j..(k + 1) = {j} \cup ((j + 1)..k) \cup {k + 1}
                          /\ (j + 1)..(k + 1) = ((j + 1)..k) \cup {k + 1}
                          /\ j \notin (j + 1)..k
             /\ j > k + 1 => /\ j > k /\ j # k + 1
                             /\ j..(k + 1) = {}
                             /\ (k + 1)..j = {j} \cup ((k + 2)..(j - 1)) \cup {k + 1}
                             /\ (k + 1)..(j - 1) = ((k + 2)..(j - 1)) \cup {k + 1}
                             /\ j \notin (k + 2)..(j - 1)
             /\ j <= k \/ j = k + 1 \/ j > k + 1
             /\ k + 1 + 1 = k + 2
  BY <1>0
<1>2. ASSUME BesideDash(t, k + 1)
      PROVE  t[k + 1] \in White /\ (DashBehind(t, k) \/ DashAhead(t, k + 1))
  <2>1. PICK j \in 1..n : t[j] = "-" /\ \A i \in ((k + 1)..j) \cup (j..(k + 1)) : i # j => t[i] \in White
    BY <1>0, <1>2 DEF BesideDash
  <2>2. CASE j <= k
    <3>1. t[k + 1] \in White /\ \A i \in (j + 1)..k : t[i] \in White
      BY <1>1, <2>1, <2>2
    <3>. QED BY <2>1, <2>2, <3>1 DEF DashBehind, n
  <2>3. CASE j > k + 1
    <3>1. t[k + 1] \in White /\ \A i \in (k + 2)..(j - 1) : t[i] \in White
      BY <1>1, <2>1, <2>3
    <3>2. \A i \in (k + 1 + 1)..(j - 1) : t[i] \in White
      BY <1>1, <3>1
    <3>. QED BY <2>1, <2>3, <3>1, <3>2 DEF DashAhead, n
  <2>. QED BY <1>1, <2>1, <2>2, <2>3
<1>3. ASSUME t[k + 1] \in White, DashBehind(t, k) PROVE BesideDash(t, k + 1)
  <2>1. PICK j \in 1..n : j <= k /\ t[j] = "-" /\ \A i \in (j + 1)..k : t[i] \in White
    BY <1>3 DEF DashBehind, n
  <2>2. \A i \in ((k + 1)..j) \cup (j..(k + 1)) : i # j => t[i] \in White
    BY <1>1, <1>3, <2>1
  <2>. QED BY <1>0, <2>1, <2>2 DEF BesideDash
<1>4. ASSUME t[k + 1] \in White, DashAhead(t, k + 1) PROVE BesideDash(t, k + 1)
  <2>1. PICK j \in 1..n : j > k + 1 /\ t[j] = "-" /\ \A i \in (k + 1 + 1)..(j - 1) : t[i] \in White
    BY <1>4 DEF DashAhead, n
  <2>2. \A i \in ((k + 1)..j) \cup (j..(k + 1)) : i # j => t[i] \in White
    BY <1>1, <1>4, <2>1
  <2>. QED BY <1>0, <2>1, <2>2 DEF BesideDash
<1>5. DashBehind(t, k + 1) <=> t[k + 1] \in White /\ DashBehind(t, k)
  <2>1. ASSUME NEW j \in 1..n, j <= k + 1, t[j] = "-", \A i \in (j + 1)..(k + 1) : t[i] \in White
        PROVE  j <= k /\ t[k + 1] \in White /\ \A i \in (j + 1)..k : t[i] \in White
    <3>1. j <= k
      BY <1>1, <2>1
    <3>. QED BY <1>1, <2>1, <3>1
  <2>2. ASSUME NEW j \in 1..n, j <= k, t[k + 1] \in White, \A i \in (j + 1)..k : t[i] \in White
        PROVE  j <= k + 1 /\ \A i \in (j + 1)..(k + 1) : t[i] \in White
    BY <1>1, <2>2
  <2>. QED BY <2>1, <2>2 DEF DashBehind, n
<1>6. DashAhead(t, k) <=> t[k + 1] \in White /\ DashAhead(t, k + 1)
  <2>1. ASSUME NEW j \in 1..n, j > k, t[j] = "-", \A i \in (k + 1)..(j - 1) : t[i] \in White
        PROVE  j > k + 1 /\ t[k + 1] \in White /\ \A i \in (k + 1 + 1)..(j - 1) : t[i] \in White
    <3>1. j > k + 1
      BY <1>1, <2>1
    <3>. QED BY <1>1, <2>1, <3>1
  <2>2. ASSUME NEW j \in 1..n, j > k + 1, t[k + 1] \in White,
               \A i \in (k + 1 + 1)..(j - 1) : t[i] \in White
        PROVE  j > k /\ \A i \in (k + 1)..(j - 1) : t[i] \in White
    BY <1>1, <2>2
  <2>. QED BY <2>1, <2>2 DEF DashAhead, n
<1>. QED BY <1>2, <1>3, <1>4, <1>5, <1>6

\* Replacing the dashes of a text does not change how it reads.
LEMMA SanitizeIs ==
  ASSUME NEW r \in Reading, NEW t \in Text, NEW correct \in BOOLEAN
  PROVE  /\ sanitize_dashes(t) \in CleanText
         /\ ReadOn(r, sanitize_dashes(t), correct) = ReadOn(r, t, correct)
<1> DEFINE n == Len(t)
           A == Alphabet \ {"-"}
           E(i) == CASE t[i] = "-" -> <<" ", "=", " ">>
                     [] t[i] # "-" /\ BesideDash(t, i) -> <<>>
                     [] OTHER -> <<t[i]>>
           Pieces(k) == [i \in 1..k |-> E(i)]
           F(k) == FlattenSeq(Pieces(k))
           T(k) == [i \in 1..k |-> t[i]]
           Q(k) == ReadOn(r, F(k), correct)
           R(k) == ReadOn(r, T(k), correct)
           Good(k) == /\ F(k) \in CleanText
                      /\ R(k) = Q(k) \/ R(k) = Spaced(Q(k), correct)
                      /\ ~ DashAhead(t, k) => R(k) = Q(k)
                      /\ DashBehind(t, k) => R(k) = Q(k) /\ Spaced(R(k), correct) = R(k)
           G == {k \in Nat : k <= n => Good(k)}
<1>0. n \in Nat /\ DOMAIN t = 1..n /\ \A i \in 1..n : t[i] \in Alphabet
  BY LenProperties, ElementOfSeq DEF Text
<1>1. sanitize_dashes(t) = F(n) /\ t = T(n)
  BY <1>0 DEF sanitize_dashes, Text
<1>2. \A i \in 1..n : E(i) \in CleanText
  <2>1. <<>> \in CleanText
    BY EmptySeq DEF CleanText
  <2>2. <<" ", "=", " ">> \in CleanText
    <3>1. " " \in A /\ "=" \in A
      BY LettersAre DEF Alphabet
    <3> HIDE DEF A
    <3>2. <<" ", "=", " ">> \in Seq(A)
      BY <3>1, ThreeAppended
    <3>. QED BY <3>2 DEF CleanText, A
  <2>3. \A c \in Alphabet : c # "-" => <<c>> \in CleanText
    BY DEF CleanText
  <2>. QED BY <1>0, <2>1, <2>2, <2>3
<1> HIDE DEF n, E
<1>3. ASSUME NEW k \in Nat, k <= n PROVE T(k) \in Text
  BY <1>0, <1>3 DEF Text
<1>4. ASSUME NEW k \in Nat, k + 1 <= n
      PROVE  /\ F(k) \in CleanText
             /\ F(k + 1) = F(k) \o E(k + 1)
             /\ F(k + 1) \in CleanText
             /\ T(k + 1) = Append(T(k), t[k + 1])
  <2>1. Pieces(k + 1) \in [1..(k + 1) -> CleanText] /\ Pieces(k) \in [1..k -> CleanText]
    BY <1>0, <1>2, <1>4
  <2>2. (\A i \in 1..k : Pieces(k + 1)[i] = Pieces(k)[i]) /\ Pieces(k + 1)[k + 1] = E(k + 1)
    OBVIOUS
  <2> DEFINE p == Pieces(k + 1)
             q == Pieces(k)
  <2> HIDE DEF p, q
  <2>3. /\ p \in [1..(k + 1) -> Seq(A)] /\ q \in [1..k -> Seq(A)]
        /\ (\A i \in 1..k : p[i] = q[i]) /\ p[k + 1] = E(k + 1)
    BY <2>1, <2>2 DEF p, q, CleanText
  <2> HIDE DEF A
  <2>4. FlattenSeq(q) \in Seq(A) /\ FlattenSeq(p) \in Seq(A) /\ FlattenSeq(p) = FlattenSeq(q) \o p[k + 1]
    BY <2>3, SpreadAppend
  <2>5. T(k + 1) = Append(T(k), t[k + 1])
    BY <1>0, <1>4
  <2>. QED BY <2>3, <2>4, <2>5 DEF p, q, A, CleanText
<1>5. 0 \in G
  <2>1. F(0) = <<>> /\ T(0) = <<>>
    <3>1. Pieces(0) = <<>> /\ T(0) = <<>>
      OBVIOUS
    <3>. QED BY <3>1, FlattenEmpty
  <2>2. <<>> \in CleanText
    BY EmptySeq DEF CleanText
  <2>3. ~ DashBehind(t, 0)
    BY <1>0 DEF DashBehind
  <2> HIDE DEF F, T
  <2>. QED BY <2>1, <2>2, <2>3
<1>6. ASSUME NEW k \in Nat, k \in G PROVE k + 1 \in G
  <2> SUFFICES ASSUME k + 1 <= n PROVE Good(k + 1)
    OBVIOUS
  <2> DEFINE c == t[k + 1]
             q == Q(k)
             s == R(k)
  <2>0. k <= n /\ k + 1 \in 1..n /\ c \in Alphabet
    BY <1>0
  <2>1. Good(k)
    <3> HIDE DEF Good
    <3>. QED BY <1>6, <2>0
  <2>2. /\ F(k) \in CleanText /\ F(k) \in Text /\ F(k + 1) = F(k) \o E(k + 1)
        /\ F(k + 1) \in CleanText
        /\ T(k) \in Text /\ T(k + 1) = Append(T(k), c)
    <3> HIDE DEF F, T
    <3>. QED BY <1>3, <1>4, <2>0, CleanIsText
  <2>3. E(k + 1) \in Text
    BY <1>2, <2>0, CleanIsText
  <2> HIDE DEF F, T, Good, c
  <2>4. q \in Reading /\ s \in Reading
    BY <2>2, ReadTyped
  <2>5. Q(k + 1) = ReadOn(q, E(k + 1), correct) /\ R(k + 1) = ReadOne(s, c, correct)
    <3> DEFINE f == F(k)
               u == T(k)
               e == E(k + 1)
    <3>1. /\ f \in Text /\ e \in Text /\ u \in Text
          /\ F(k + 1) = f \o e /\ T(k + 1) = Append(u, c)
      BY <2>2, <2>3
    <3> HIDE DEF f, u, e
    <3>2. ReadOn(r, f \o e, correct) = ReadOn(ReadOn(r, f, correct), e, correct)
      BY <3>1, ReadOnConcat
    <3>3. ReadOn(r, Append(u, c), correct) = ReadOne(ReadOn(r, u, correct), c, correct)
      BY <2>0, <3>1, ReadOnAppend
    <3>. QED BY <3>1, <3>2, <3>3 DEF f, u, e
  <2> DEFINE ahead == DashAhead(t, k)
             behind == DashBehind(t, k)
  <2>6. /\ s = q \/ s = Spaced(q, correct)
        /\ ~ ahead => s = q
        /\ behind => s = q /\ Spaced(s, correct) = s
    BY <2>1 DEF Good
  <2> HIDE DEF Q, R, q, s
  <2>7. Spaced(s, correct) = Spaced(q, correct)
    BY <2>4, <2>6, SpacedTwice
  <2> DEFINE q1 == Q(k + 1)
             s1 == R(k + 1)
  <2> SUFFICES /\ s1 = q1 \/ s1 = Spaced(q1, correct)
               /\ ~ DashAhead(t, k + 1) => s1 = q1
               /\ DashBehind(t, k + 1) => s1 = q1 /\ Spaced(s1, correct) = s1
    BY <2>2 DEF Good
  <2> HIDE DEF q1, s1
  <2>8. q1 = ReadOn(q, E(k + 1), correct) /\ s1 = ReadOne(s, c, correct)
    BY <2>5 DEF q1, s1
  <2>9. CASE c = "-"
    <3>1. E(k + 1) = <<" ", "=", " ">>
      BY <2>9 DEF E, c
    <3>2. q1 = ReadOne(q, "-", correct)
      BY <2>4, <2>8, <3>1, ReadDash
    <3>3. s1 = ReadOne(s, "-", correct)
      BY <2>8, <2>9
    <3>4. s1 = q1
      BY <2>7, <3>2, <3>3 DEF ReadOne
    <3>5. Spaced(s1, correct) = s1
      <4>1. Spaced(s, correct) \in Reading /\ "=" \in Alphabet
        BY <2>4, ReadingTypes DEF Alphabet
      <4>2. Inscribed(Spaced(s, correct), "=") \in Reading
        BY <4>1, ReadingTypes
      <4>3. s1 = Spaced(Inscribed(Spaced(s, correct), "="), correct)
        BY <3>3 DEF ReadOne
      <4>. QED BY <4>2, <4>3, SpacedTwice
    <3>. QED BY <3>4, <3>5
  <2> DEFINE beside == BesideDash(t, k + 1)
             ahead1 == DashAhead(t, k + 1)
             behind1 == DashBehind(t, k + 1)
  <2>10. c # "-" =>
           /\ beside <=> c \in White /\ (behind \/ ahead1)
           /\ behind1 <=> c \in White /\ behind
           /\ ahead <=> c \in White /\ ahead1
    BY <2>0, BesideDashIs DEF n, c
  <2>11. c # "-" => E(k + 1) = IF beside THEN <<>> ELSE <<c>>
    BY DEF E, c
  <2>12. ReadOn(q, <<>>, correct) = q /\ ReadOn(q, <<c>>, correct) = ReadOne(q, c, correct)
    BY <2>0, <2>4, ReadOnOne, ReadOnEmpty
  <2> HIDE DEF beside, ahead1, behind1, ahead, behind
  <2>13. CASE c # "-" /\ c \in White
    <3>1. s1 = Spaced(q, correct)
      BY <2>7, <2>8, <2>13 DEF ReadOne
    <3>2. CASE beside
      <4>1. q1 = q
        BY <2>8, <2>11, <2>12, <2>13, <3>2
      <4>. QED BY <2>6, <2>7, <2>10, <2>13, <3>1, <3>2, <4>1 DEF ahead1, behind1
    <3>3. CASE ~ beside
      <4>1. q1 = Spaced(q, correct)
        BY <2>8, <2>11, <2>12, <2>13, <3>3 DEF ReadOne
      <4>. QED BY <2>10, <2>13, <3>1, <3>3, <4>1 DEF behind1
    <3>. QED BY <3>2, <3>3
  <2>14. CASE c # "-" /\ c \notin White
    <3>1. ~ beside /\ ~ ahead /\ ~ behind1
      BY <2>10, <2>14
    <3>2. s1 = q1
      BY <2>6, <2>8, <2>11, <2>12, <2>14, <3>1
    <3>. QED BY <3>1, <3>2 DEF behind1
  <2>. QED BY <2>9, <2>13, <2>14
<1>7. n \in G
  <2> HIDE DEF G
  <2>. QED BY <1>0, <1>5, <1>6, Induction
<1>8. Good(n)
  <2> HIDE DEF Good
  <2>. QED BY <1>0, <1>7
<1>9. ~ DashAhead(t, n)
  BY <1>0 DEF DashAhead, n
<1> HIDE DEF F, T
<1>. QED BY <1>1, <1>8, <1>9

----------------------------------------------------------------------------
(* The end of a text                                                       *)

\* The sentences of the reading are those that were released.
ViewIsRead(g, correct) ==
  /\ View(g, correct) \in Reading
  /\ View(g, correct).out = Read(g.released)
  /\ View(g, correct).failure = g.failure

\* A gate with no sentence left to judge has shown all that has been read.
LEMMA DrainedView ==
  ASSUME NEW g, Fed(g), Drained(g), NEW correct \in BOOLEAN
  PROVE  /\ ViewIsRead(g, correct)
         /\ g.closed => Judged(View(g, correct), correct) = View(g, correct)
         /\ ~ g.closed => View(g, correct).cur = Said(g.pending)
<1>0. /\ g \in GateState /\ g.pending \in CleanText /\ g.released \in Seq(Text)
      /\ Read(g.released) \in Seq(Text)
  <2>1. g \in GateState /\ g.pending \in CleanText /\ g.released \in Seq(Text)
    BY DEF Fed, GateState
  <2>2. <<>> \in Text
    BY ShortTexts
  <2>. QED BY <2>1, <2>2, ReadAppend
<1>1. CASE g.closed
  <2>1. View(g, correct) = [out |-> Read(g.released), cur |-> <<>>, gap |-> FALSE, failure |-> g.failure]
    BY <1>1 DEF Fed, View
  <2>2. <<>> \in Text
    BY ShortTexts
  <2>3. g.failure \in GateFailures
    BY <1>0 DEF GateState
  <2> DEFINE v == View(g, correct)
  <2>4. v \in Reading /\ v.out = Read(g.released) /\ v.failure = g.failure /\ v.cur = <<>>
    BY <1>0, <2>1, <2>2, <2>3 DEF Reading
  <2>5. Judged(v, correct) = v
    BY <2>4 DEF Judged
  <2>. QED BY <1>1, <2>4, <2>5 DEF ViewIsRead
<1>2. CASE ~ g.closed
  <2>1. g.failure = "none" /\ Unended(g.pending)
    BY <1>0, <1>2, SentenceEndIs DEF Fed, Drained
  <2>2. View(g, correct) = ReadOn(From(Read(g.released)), g.pending, correct)
    BY <2>1 DEF View
  <2>3. View(g, correct) \in Reading
    BY <1>0, <2>2, CleanIsText, FromTyped, ReadTyped
  <2>4. /\ View(g, correct).out = Read(g.released) /\ View(g, correct).failure = "none"
        /\ View(g, correct).cur = Said(g.pending)
    BY <1>0, <2>1, <2>2, ReadSentence
  <2>. QED BY <1>2, <2>1, <2>3, <2>4 DEF ViewIsRead
<1>. QED BY <1>1, <1>2

\* At the end of the value what is left is judged as a sentence.
LEMMA FinishIs ==
  ASSUME NEW g, Fed(g), Drained(g), NEW correct \in BOOLEAN
  PROVE  LET h == GateFinish(g, correct)
             r == Judged(View(g, correct), correct)
         IN  /\ h \in GateState /\ h.closed
             /\ Read(h.released) = r.out /\ h.failure = r.failure
             /\ Grown(g.released, h.released, correct)
             /\ \A i \in 1..(Len(h.released) - 1) : i \in 1..Len(g.released)
<1> DEFINE h == GateFinish(g, correct)
           v == View(g, correct)
           o == Read(g.released)
           p == g.pending
<1>0. /\ g \in GateState /\ p \in CleanText /\ p \in Text /\ g.released \in Seq(Text)
      /\ o \in Seq(Text) /\ Len(o) = Len(g.released) /\ Len(g.released) \in Nat
  <2>1. g \in GateState /\ p \in CleanText /\ g.released \in Seq(Text)
    BY DEF Fed, GateState
  <2>2. <<>> \in Text
    BY ShortTexts
  <2>. QED BY <2>1, <2>2, ReadAppend, CleanIsText
<1>1. v \in Reading /\ v.out = o /\ v.failure = g.failure
  BY DrainedView DEF ViewIsRead
<1>2. \A i \in 1..(Len(g.released) - 1) : i \in 1..Len(g.released)
  BY <1>0
<1>3. CASE g.closed
  <2>1. h = g /\ Judged(v, correct) = v
    BY <1>3, DrainedView DEF GateFinish
  <2> HIDE DEF h, v
  <2>. QED BY <1>0, <1>1, <1>2, <1>3, <2>1, GrownSame DEF h, v
<1>4. CASE ~ g.closed
  <2> DEFINE k == [g EXCEPT !.closed = TRUE]
             a == Admit(k, p, correct)
  <2>1. v.cur = Said(p) /\ g.failure = "none" /\ v.failure = "none"
    BY <1>1, <1>4, DrainedView DEF Fed
  <2>2. /\ k \in GateState /\ k.pending = p /\ k.released = g.released
        /\ k.failure = "none" /\ k.closed = TRUE
    BY <1>0, <2>1 DEF GateState
  <2>3. h = [a EXCEPT !.pending = <<>>]
    BY <1>4 DEF GateFinish
  <2>4. <<>> \in CleanText
    BY EmptySeq DEF CleanText
  <2>5. CASE Strip(p) = <<>>
    <3>1. a = k
      BY <2>2, <2>5 DEF Admit
    <3>2. v.cur = <<>>
      BY <1>0, <2>1, <2>5, StripEmpty, SaidType
    <3>3. Judged(v, correct) = v
      BY <3>2 DEF Judged
    <3> HIDE DEF k, a, h, v
    <3>4. h \in GateState /\ h.released = g.released /\ h.closed = TRUE /\ h.failure = "none"
      BY <2>2, <2>3, <2>4, <3>1 DEF GateState
    <3>. QED BY <1>0, <1>1, <1>2, <2>1, <3>3, <3>4, GrownSame DEF h, v
  <2>6. CASE Strip(p) # <<>>
    <3> DEFINE r0 == [out |-> o, cur |-> Said(p), gap |-> FALSE, failure |-> "none"]
    <3> HIDE DEF k
    <3>1. /\ a \in GateState /\ Grown(g.released, a.released, correct)
          /\ Judged(r0, correct) = [out |-> Read(a.released), cur |-> <<>>, gap |-> FALSE, failure |-> a.failure]
          /\ a.closed = TRUE
      <4> DEFINE r1 == [out |-> Read(k.released), cur |-> Said(p), gap |-> FALSE, failure |-> "none"]
      <4>1. /\ a \in GateState /\ Grown(k.released, a.released, correct)
            /\ Judged(r1, correct)
                 = [out |-> Read(a.released), cur |-> <<>>, gap |-> FALSE, failure |-> a.failure]
            /\ a.closed = IF a.failure = "none" THEN k.closed ELSE TRUE
        BY <1>0, <2>2, <2>6, AdmitIs
      <4>2. r1 = r0
        BY <2>2
      <4> HIDE DEF a, r0, r1
      <4>. QED BY <2>2, <4>1, <4>2
    <3>2. Said(p) # <<>>
      BY <1>0, <2>6, StripEmpty, SaidType
    <3>3. Judged(v, correct) = Judged(r0, correct)
      BY <1>1, <2>1, <3>2 DEF Judged
    <3>4. a.released = g.released \/ a.released = Append(g.released, Strip(p))
      <4> DEFINE why == IF Len(k.released) >= MaxSentences THEN "sentences"
                        ELSE SentenceCheck(Strip(p), correct)
      <4>1. a = IF why # "none" THEN [k EXCEPT !.failure = why, !.closed = TRUE]
                ELSE [k EXCEPT !.released = Append(@, Strip(p))]
        BY <2>6 DEF Admit
      <4> HIDE DEF why, a
      <4>. QED BY <2>2, <4>1 DEF GateState
    <3>5. \A i \in 1..(Len(a.released) - 1) : i \in 1..Len(g.released)
      <4>1. Strip(p) \in Text
        BY <1>0, StripType
      <4>2. Len(Append(g.released, Strip(p))) = Len(g.released) + 1
        BY <1>0, <4>1, AppendProperties
      <4> DEFINE n == Len(g.released)
                 m == Len(a.released)
      <4>3. n \in Nat /\ (m = n \/ m = n + 1)
        BY <1>0, <3>4, <4>2
      <4> HIDE DEF n, m
      <4>4. \A i \in 1..(m - 1) : i \in 1..n
        BY <4>3
      <4>. QED BY <4>4 DEF n, m
    <3> HIDE DEF a, h, v, r0
    <3>6. h \in GateState /\ h.released = a.released /\ h.closed = TRUE /\ h.failure = a.failure
      BY <2>3, <2>4, <3>1 DEF GateState
    <3>. QED BY <3>1, <3>3, <3>5, <3>6 DEF h, v
  <2>. QED BY <2>5, <2>6
<1>. QED BY <1>3, <1>4

\* The decoded value is a text, as long as the value.
LEMMA PlainIs ==
  ASSUME NEW value \in Seq(Letters)
  PROVE  /\ Plain(value) \in Text /\ Len(Plain(value)) = Len(value) /\ Len(value) \in Nat
         /\ \A i \in 1..Len(value) : /\ value[i] \in Letters /\ Plain(value)[i] \in Alphabet
                                     /\ Plain(value)[i] = IF value[i] = "u" THEN "-" ELSE value[i]
<1>1. Len(value) \in Nat /\ \A i \in 1..Len(value) : value[i] \in Letters
  BY LenProperties, ElementOfSeq
<1>2. \A s \in Letters : (IF s = "u" THEN "-" ELSE s) \in Alphabet
  BY DEF Letters, Alphabet
<1>. QED BY <1>1, <1>2 DEF Plain, Text

\* What the whole value gives is what a reader makes of it.
LEMMA ReferenceIs ==
  ASSUME NEW value \in Seq(Letters), NEW correct \in BOOLEAN
  PROVE  Read(Reference(value, correct))
           = Judged(ReadOn(From(<<>>), Plain(value), correct), correct).out
<1> DEFINE empty == [pending |-> <<>>, released |-> <<>>, failure |-> "none", closed |-> FALSE]
           x == sanitize_dashes(Plain(value))
           g == GateFeed(empty, x, correct)
<1>1. From(<<>>) \in Reading
  BY FromTyped, EmptySeq
<1>2. x \in CleanText /\ ReadOn(From(<<>>), x, correct) = ReadOn(From(<<>>), Plain(value), correct)
  BY <1>1, PlainIs, SanitizeIs
<1>3. Fed(empty) /\ ~ empty.closed
  <2>1. <<>> \in CleanText
    BY EmptySeq DEF CleanText
  <2>2. <<>> \in Seq(Text)
    BY EmptySeq
  <2>. QED BY <2>1, <2>2 DEF Fed, GateState, GateFailures
<1>4. View(empty, correct) = From(<<>>)
  BY <1>1, ReadEmpty, ReadOnEmpty DEF View
<1> HIDE DEF empty, x
<1>5. Fed(g) /\ Drained(g) /\ View(g, correct) = ReadOn(From(<<>>), x, correct)
  BY <1>2, <1>3, <1>4, GateFeedIs
<1> HIDE DEF g
<1>6. Read(GateFinish(g, correct).released) = Judged(View(g, correct), correct).out
  BY <1>5, FinishIs
<1>7. Reference(value, correct) = GateFinish(g, correct).released
  BY DEF Reference, g, empty, x
<1>. QED BY <1>2, <1>5, <1>6, <1>7

----------------------------------------------------------------------------
(* What has been read stays read                                           *)

\* a is a start of b.
Starts(a, b) == Len(a) <= Len(b) /\ \A i \in 1..Len(a) : b[i] = a[i]

\* A start of a start is a start.
LEMMA StartsTransitive ==
  ASSUME NEW S, NEW a \in Seq(S), NEW b \in Seq(S), NEW c \in Seq(S), Starts(a, b), Starts(b, c)
  PROVE  Starts(a, c)
<1>1. Len(a) \in Nat /\ Len(b) \in Nat /\ Len(c) \in Nat
  BY LenProperties
<1>2. Len(a) <= Len(c) /\ \A i \in 1..Len(a) : i \in 1..Len(b)
  BY <1>1 DEF Starts
<1>. QED BY <1>2 DEF Starts

\* A sequence starts itself.
LEMMA StartsItself == ASSUME NEW S, NEW a \in Seq(S) PROVE Starts(a, a)
<1>1. Len(a) \in Nat
  BY LenProperties
<1>. QED BY <1>1 DEF Starts

\* No step of a reader takes back a sentence.
LEMMA OutGrows ==
  ASSUME NEW r \in Reading, NEW correct \in BOOLEAN
  PROVE  /\ Starts(r.out, Judged(r, correct).out)
         /\ \A c \in Alphabet : Starts(r.out, ReadOne(r, c, correct).out)
         /\ \A t \in Text : Starts(r.out, ReadOn(r, t, correct).out)
<1>1. ASSUME NEW s \in Reading PROVE Starts(s.out, Judged(s, correct).out)
  <2>0. s.out \in Seq(Text) /\ s.cur \in Text
    BY DEF Reading
  <2>1. CASE Judged(s, correct).out = s.out
    BY <2>0, <2>1, StartsItself
  <2>2. CASE Judged(s, correct).out = Append(s.out, s.cur)
    <3>1. /\ Len(Append(s.out, s.cur)) = Len(s.out) + 1 /\ Len(s.out) \in Nat
          /\ \A i \in 1..Len(s.out) : Append(s.out, s.cur)[i] = s.out[i]
      BY <2>0, AppendProperties, LenProperties
    <3>2. Len(s.out) <= Len(s.out) + 1
      BY <3>1
    <3>. QED BY <2>2, <3>1, <3>2 DEF Starts
  <2>. QED BY <2>1, <2>2 DEF Judged, From
<1>2. ASSUME NEW s \in Reading PROVE Starts(s.out, Spaced(s, correct).out)
  <2>0. s.out \in Seq(Text)
    BY DEF Reading
  <2>1. [s EXCEPT !.gap = TRUE].out = s.out
    BY DEF Reading
  <2>2. Starts(s.out, s.out) /\ Starts(s.out, Judged(s, correct).out)
    BY <1>1, <2>0, StartsItself
  <2>3. Spaced(s, correct) \in {s, Judged(s, correct), [s EXCEPT !.gap = TRUE]}
    BY DEF Spaced
  <2>. QED BY <2>1, <2>2, <2>3
<1>3. ASSUME NEW s \in Reading, NEW c \in Alphabet
      PROVE  Inscribed(s, c).out = s.out /\ Inscribed(s, c) \in Reading /\ Spaced(s, correct) \in Reading
  <2>1. Inscribed(s, c).out = s.out
    BY DEF Inscribed, Reading
  <2>. QED BY <2>1, ReadingTypes
<1>4. ASSUME NEW s \in Reading, NEW c \in Alphabet PROVE Starts(s.out, ReadOne(s, c, correct).out)
  <2>0. \A x \in Reading : x.out \in Seq(Text)
    BY DEF Reading
  <2>1. CASE c = "-"
    <3> DEFINE a == Spaced(s, correct)
               b == Inscribed(a, "=")
               d == Spaced(b, correct)
    <3>0. "=" \in Alphabet
      BY DEF Alphabet
    <3>1. a \in Reading /\ Starts(s.out, a.out)
      BY <1>2, ReadingTypes
    <3> HIDE DEF a
    <3>2. b \in Reading /\ b.out = a.out
      BY <1>3, <3>0, <3>1
    <3> HIDE DEF b
    <3>3. d \in Reading /\ Starts(b.out, d.out)
      BY <1>2, <3>2, ReadingTypes
    <3>4. Starts(s.out, d.out)
      BY <2>0, <3>1, <3>2, <3>3, StartsTransitive
    <3>. QED BY <2>1, <3>4 DEF ReadOne, a, b
  <2>2. CASE c # "-" /\ c \in White
    BY <1>2, <2>2 DEF ReadOne
  <2>3. CASE c # "-" /\ c \notin White
    BY <1>3, <2>0, <2>3, StartsItself DEF ReadOne
  <2>. QED BY <2>1, <2>2, <2>3
<1>5. ASSUME NEW t \in Text PROVE Starts(r.out, ReadOn(r, t, correct).out)
  <2> DEFINE G == {s \in Text : Starts(r.out, ReadOn(r, s, correct).out)}
  <2>0. \A x \in Reading : x.out \in Seq(Text)
    BY DEF Reading
  <2>1. <<>> \in G
    BY <2>0, ReadOnEmpty, ShortTexts, StartsItself
  <2>2. ASSUME NEW s \in Text, NEW c \in Alphabet, s \in G PROVE Append(s, c) \in G
    <3> DEFINE a == ReadOn(r, s, correct)
               b == ReadOn(r, Append(s, c), correct)
    <3>1. a \in Reading /\ b = ReadOne(a, c, correct) /\ Append(s, c) \in Text /\ b \in Reading
      BY ReadOnAppend, TextAppend, ReadTyped
    <3>2. Starts(r.out, a.out)
      BY <2>2
    <3> HIDE DEF a, b
    <3>3. Starts(a.out, b.out)
      BY <1>4, <3>1
    <3>4. Starts(r.out, b.out)
      BY <2>0, <3>1, <3>2, <3>3, StartsTransitive
    <3>. QED BY <3>1, <3>4 DEF b
  <2> HIDE DEF G
  <2>3. \A s \in Seq(Alphabet) : s \in G
    BY <2>1, <2>2, TextInduction DEF Text
  <2>. QED BY <2>3 DEF G, Text
<1>. QED BY <1>1, <1>4, <1>5

----------------------------------------------------------------------------
(* The streamer                                                            *)

\* The symbols of a message.
Signs == Letters \cup Marks \cup {"\\", "h", "\"", "{", "key", "}"}

\* The first k symbols of the value as the message has them, where the next
\* one starts, and what they are once decoded.
Written(value, k) == FlattenSeq([i \in 1..k |-> Escaped[value[i]]])
\* Where the symbols after the k-th of a value start in its message.
Start(value, k) == 3 + Len(Written(value, k))
\* The first k symbols of a value, decoded.
Heard(value, k) == [i \in 1..k |-> Plain(value)[i]]

\* The symbols a letter is written with.
LEMMA EscapedIs ==
  ASSUME NEW s \in Letters
  PROVE  /\ Escaped[s] \in Seq(Signs) /\ Len(Escaped[s]) \in Nat /\ Len(Escaped[s]) >= 1
         /\ s \in {"q", "n"} => Escaped[s] = <<"\\", s>> /\ Len(Escaped[s]) = 2
         /\ s = "u" => Escaped[s] = <<"\\", "u", "h", "h">> /\ Len(Escaped[s]) = 4
         /\ s \notin {"q", "n", "u"} => Escaped[s] = <<s>> /\ Len(Escaped[s]) = 1
<1>0. \A a, b, c, d \in Signs : <<a>> \in Seq(Signs) /\ <<a, b>> \in Seq(Signs) /\ <<a, b, c, d>> \in Seq(Signs)
  OBVIOUS
<1>1. s \in Signs /\ "\\" \in Signs /\ "u" \in Signs /\ "h" \in Signs
  BY DEF Signs, Letters
<1>2. CASE s \in {"q", "n"}
  <2>1. Escaped[s] = <<"\\", s>>
    BY <1>2 DEF Escaped
  <2>2. Len(<<"\\", s>>) = 2
    OBVIOUS
  <2>3. s # "u" /\ <<"\\", s>> \in Seq(Signs)
    BY <1>0, <1>1, <1>2
  <2> DEFINE e == Escaped[s]
  <2> HIDE DEF e
  <2>4. e = <<"\\", s>> /\ Len(e) = 2 /\ e \in Seq(Signs)
    BY <2>1, <2>2, <2>3 DEF e
  <2>5. Len(e) \in Nat /\ Len(e) >= 1
    BY <2>4
  <2>. QED BY <1>2, <2>3, <2>4, <2>5 DEF e
<1>3. CASE s = "u"
  <2>1. Escaped[s] = <<"\\", "u", "h", "h">>
    BY <1>3 DEF Escaped
  <2>2. Len(<<"\\", "u", "h", "h">>) = 4
    OBVIOUS
  <2>3. <<"\\", "u", "h", "h">> \in Seq(Signs)
    BY <1>0, <1>1
  <2> DEFINE e == Escaped[s]
  <2> HIDE DEF e
  <2>4. e = <<"\\", "u", "h", "h">> /\ Len(e) = 4 /\ e \in Seq(Signs)
    BY <2>1, <2>2, <2>3 DEF e
  <2>5. Len(e) \in Nat /\ Len(e) >= 1
    BY <2>4
  <2>. QED BY <1>3, <2>4, <2>5 DEF e
<1>4. CASE s \notin {"q", "n", "u"}
  <2>1. Escaped[s] = <<s>>
    BY <1>4 DEF Escaped
  <2>2. Len(<<s>>) = 1
    OBVIOUS
  <2>3. <<s>> \in Seq(Signs)
    BY <1>0, <1>1
  <2> DEFINE e == Escaped[s]
  <2> HIDE DEF e
  <2>4. e = <<s>> /\ Len(e) = 1 /\ e \in Seq(Signs)
    BY <2>1, <2>2, <2>3 DEF e
  <2>5. Len(e) \in Nat /\ Len(e) >= 1
    BY <2>4
  <2>. QED BY <1>4, <2>4, <2>5 DEF e
<1>. QED BY <1>2, <1>3, <1>4

\* What is written of a value, one letter more.
LEMMA WrittenIs ==
  ASSUME NEW value \in Seq(Letters)
  PROVE  /\ Written(value, 0) = <<>>
         /\ \A k \in Nat : k + 1 <= Len(value) =>
              /\ Written(value, k) \in Seq(Signs) /\ Written(value, k + 1) \in Seq(Signs)
              /\ Written(value, k + 1) = Written(value, k) \o Escaped[value[k + 1]]
<1> DEFINE n == Len(value)
           P(k) == [i \in 1..k |-> Escaped[value[i]]]
<1>0. n \in Nat /\ \A i \in 1..n : Escaped[value[i]] \in Seq(Signs)
  BY PlainIs, EscapedIs
<1> HIDE DEF n
<1>1. P(0) = <<>>
  OBVIOUS
<1>2. ASSUME NEW k \in Nat, k + 1 <= n
      PROVE  /\ Written(value, k) \in Seq(Signs) /\ Written(value, k + 1) \in Seq(Signs)
             /\ Written(value, k + 1) = Written(value, k) \o Escaped[value[k + 1]]
  <2> DEFINE p == P(k + 1)
             q == P(k)
  <2>1. /\ p \in [1..(k + 1) -> Seq(Signs)] /\ q \in [1..k -> Seq(Signs)]
        /\ (\A i \in 1..k : p[i] = q[i]) /\ p[k + 1] = Escaped[value[k + 1]]
    BY <1>0, <1>2
  <2>2. Written(value, k) = FlattenSeq(q) /\ Written(value, k + 1) = FlattenSeq(p)
    BY DEF Written
  <2> HIDE DEF p, q
  <2>3. FlattenSeq(q) \in Seq(Signs) /\ FlattenSeq(p) \in Seq(Signs) /\ FlattenSeq(p) = FlattenSeq(q) \o p[k + 1]
    BY <2>1, SpreadAppend
  <2>. QED BY <2>1, <2>2, <2>3
<1>3. Written(value, 0) = <<>>
  BY <1>1, FlattenEmpty DEF Written
<1>. QED BY <1>2, <1>3 DEF n

\* A sequence starts every longer one.
LEMMA ConcatStarts ==
  ASSUME NEW S, NEW x \in Seq(S), NEW y \in Seq(S)
  PROVE  /\ x \o y \in Seq(S) /\ Starts(x, x \o y)
         /\ Len(x) \in Nat /\ Len(y) \in Nat /\ Len(x \o y) = Len(x) + Len(y)
         /\ \A j \in 1..Len(y) : (x \o y)[Len(x) + j] = y[j]
<1> DEFINE a == Len(x)
           b == Len(y)
           z == x \o y
<1>1. /\ a \in Nat /\ b \in Nat /\ z \in Seq(S) /\ Len(z) = a + b
      /\ \A i \in 1..(a + b) : z[i] = IF i <= a THEN x[i] ELSE y[i - a]
  BY ConcatProperties, LenProperties
<1> HIDE DEF a, b, z
<1>2. a <= a + b /\ \A i \in 1..a : i \in 1..(a + b) /\ i <= a
  BY <1>1
<1>3. \A j \in 1..b : a + j \in 1..(a + b) /\ ~ (a + j <= a) /\ (a + j) - a = j
  BY <1>1
<1>4. (\A i \in 1..a : z[i] = x[i]) /\ \A j \in 1..b : z[a + j] = y[j]
  BY <1>1, <1>2, <1>3
<1>. QED BY <1>1, <1>2, <1>4 DEF Starts, a, b, z

\* What is written of a value starts what is written of more of it.
LEMMA WrittenStarts ==
  ASSUME NEW value \in Seq(Letters), NEW m \in Nat, m <= Len(value)
  PROVE  Written(value, m) \in Seq(Signs) /\ \A k \in 0..m : Starts(Written(value, k), Written(value, m))
<1> DEFINE W(k) == Written(value, k)
           n == Len(value)
           G == {i \in Nat : i <= n => W(i) \in Seq(Signs) /\ \A k \in 0..i : W(k) \in Seq(Signs) /\ Starts(W(k), W(i))}
<1>0. n \in Nat
  BY LenProperties
<1>1. 0 \in G
  <2>1. W(0) \in Seq(Signs) /\ 0..0 = {0}
    <3>1. <<>> \in Seq(Signs)
      BY EmptySeq
    <3>. QED BY <3>1, WrittenIs
  <2>2. Starts(W(0), W(0))
    BY <2>1, StartsItself
  <2> HIDE DEF W
  <2>. QED BY <2>1, <2>2
<1>2. ASSUME NEW i \in Nat, i \in G PROVE i + 1 \in G
  <2> SUFFICES ASSUME i + 1 <= n
               PROVE  W(i + 1) \in Seq(Signs) /\ \A k \in 0..(i + 1) : W(k) \in Seq(Signs) /\ Starts(W(k), W(i + 1))
    OBVIOUS
  <2>1. i <= n /\ value[i + 1] \in Letters /\ 0..(i + 1) = (0..i) \cup {i + 1}
    <3>1. i + 1 \in 1..n
      BY <1>0
    <3>. QED BY <1>0, <3>1, PlainIs
  <2>2. Escaped[value[i + 1]] \in Seq(Signs)
    BY <2>1, EscapedIs
  <2>3. W(i) \in Seq(Signs) /\ W(i + 1) \in Seq(Signs) /\ W(i + 1) = W(i) \o Escaped[value[i + 1]]
    BY WrittenIs
  <2> HIDE DEF W
  <2>4. Starts(W(i), W(i + 1)) /\ Starts(W(i + 1), W(i + 1))
    <3> DEFINE x == W(i)
               y == W(i + 1)
               e == Escaped[value[i + 1]]
    <3>1. x \in Seq(Signs) /\ e \in Seq(Signs) /\ y \in Seq(Signs) /\ y = x \o e
      BY <2>2, <2>3
    <3> HIDE DEF x, y, e
    <3>2. Starts(x, x \o e) /\ Starts(y, y)
      BY <3>1, ConcatStarts, StartsItself
    <3>. QED BY <3>1, <3>2 DEF x, y
  <2>5. \A k \in 0..i : W(k) \in Seq(Signs) /\ Starts(W(k), W(i))
    BY <1>2, <2>1
  <2>6. \A k \in 0..i : Starts(W(k), W(i + 1))
    BY <2>3, <2>4, <2>5, StartsTransitive
  <2>. QED BY <2>1, <2>3, <2>4, <2>5, <2>6
<1>3. m \in G
  <2> HIDE DEF G
  <2>. QED BY <1>1, <1>2, Induction
<1>. QED BY <1>3

\* The symbols of a message, place by place.
LEMMA RawIs ==
  ASSUME NEW m \in Messages
  PROVE  LET v == m.value
         IN  /\ v \in Seq(Letters) /\ Raw(m) \in Seq(Signs) /\ Len(Raw(m)) \in Nat
             /\ Start(v, 0) = 3
             /\ \A k \in 0..Len(v) : Start(v, k) \in Nat /\ Start(v, k) >= 3
             /\ Raw(m)[Start(v, Len(v))] = "\""
             /\ \A k \in Nat : k + 1 <= Len(v) =>
                  /\ Start(v, k + 1) = Start(v, k) + Len(Escaped[v[k + 1]])
                  /\ \A j \in 1..Len(Escaped[v[k + 1]]) :
                       Raw(m)[Start(v, k) + j - 1] = Escaped[v[k + 1]][j]
<1> DEFINE v == m.value
           n == Len(v)
           head == <<"{", "key">>
           W(k) == Written(v, k)
           tail == <<"\"", m.later>> \o (IF m.whole THEN <<"}">> ELSE <<>>)
           L(k) == Len(W(k))
<1>0. v \in Seq(Letters) /\ n \in Nat /\ m.later \in Signs
  <2>1. v \in Values /\ m.later \in Later
    BY DEF Messages
  <2>2. v \in Seq(Letters) /\ m.later \in Signs
    BY <2>1, StreamAssumption DEF Signs
  <2>. QED BY <2>2, LenProperties
<1>1. \A a, b \in Signs : <<a>> \in Seq(Signs) /\ <<a, b>> \in Seq(Signs) /\ Len(<<a, b>>) = 2 /\ <<a, b>>[1] = a
  OBVIOUS
<1>2. "{" \in Signs /\ "key" \in Signs /\ "\"" \in Signs /\ "}" \in Signs
  BY DEF Signs
<1>3. head \in Seq(Signs) /\ Len(head) = 2
  BY <1>1, <1>2
<1>4. tail \in Seq(Signs) /\ Len(tail) \in Nat /\ Len(tail) >= 1 /\ tail[1] = "\""
  <2> DEFINE a == <<"\"", m.later>>
             b == IF m.whole THEN <<"}">> ELSE <<>>
  <2>1. a \in Seq(Signs) /\ Len(a) = 2 /\ a[1] = "\""
    BY <1>0, <1>1, <1>2
  <2>2. <<>> \in Seq(Signs)
    BY EmptySeq
  <2>3. b \in Seq(Signs)
    BY <1>1, <1>2, <2>2
  <2> HIDE DEF a, b
  <2>4. a \o b \in Seq(Signs) /\ Len(a \o b) = Len(a) + Len(b) /\ Starts(a, a \o b) /\ Len(b) \in Nat
    BY <2>1, <2>3, ConcatStarts
  <2>5. 1 \in 1..Len(a) /\ Len(a \o b) \in Nat /\ Len(a \o b) >= 1
    <3> DEFINE x == Len(a)
               y == Len(b)
               z == Len(a \o b)
    <3>1. x = 2 /\ y \in Nat /\ z = x + y
      BY <2>1, <2>4
    <3> HIDE DEF x, y, z
    <3>2. 1 \in 1..x /\ z \in Nat /\ z >= 1
      BY <3>1
    <3>. QED BY <3>2 DEF x, z
  <2>6. (a \o b)[1] = "\""
    BY <2>1, <2>4, <2>5 DEF Starts
  <2>. QED BY <2>4, <2>5, <2>6 DEF a, b
<1>5. W(n) \in Seq(Signs) /\ \A k \in 0..n : Starts(W(k), W(n)) /\ W(k) \in Seq(Signs) /\ L(k) \in Nat
  <2>1. \A k \in 0..n : k \in Nat /\ k <= n /\ n <= n
    BY <1>0
  <2>. QED BY <1>0, <2>1, WrittenStarts, LenProperties
<1> DEFINE w == W(n)
           l == Len(w)
<1>6. w \in Seq(Signs) /\ l \in Nat
  BY <1>5, LenProperties
<1>7. Raw(m) = (head \o w) \o tail
  <2> DEFINE a == <<"\"", m.later>>
             b == IF m.whole THEN <<"}">> ELSE <<>>
  <2>1. Raw(m) = ((head \o w) \o a) \o b /\ tail = a \o b
    BY DEF Raw, Written
  <2>2. a \in Seq(Signs) /\ b \in Seq(Signs)
    <3>1. a \in Seq(Signs)
      BY <1>0, <1>1, <1>2
    <3>2. <<>> \in Seq(Signs)
      BY EmptySeq
    <3>. QED BY <1>1, <1>2, <3>1, <3>2
  <2> HIDE DEF a, b, w, head
  <2>3. head \o w \in Seq(Signs)
    BY <1>3, <1>6, ConcatProperties
  <2> DEFINE hw == head \o w
  <2> HIDE DEF hw
  <2>4. (hw \o a) \o b = hw \o (a \o b)
    <3>1. hw \in Seq(Signs)
      BY <2>3 DEF hw
    <3>. QED BY <2>2, <3>1, ConcatAssociative, SMTT(30)
  <2>. QED BY <2>1, <2>4 DEF hw
<1> DEFINE quote == "\""
<1> HIDE DEF quote
<1> HIDE DEF head, tail, w
<1> DEFINE hw == head \o w
           raw == hw \o tail
<1>8. /\ hw \in Seq(Signs) /\ Len(hw) = 2 + l
      /\ \A j \in 1..l : hw[2 + j] = w[j]
  <2>0. head \in Seq(Signs) /\ w \in Seq(Signs)
    BY <1>3, <1>6
  <2>1. /\ hw \in Seq(Signs) /\ Len(hw) = Len(head) + Len(w)
        /\ \A j \in 1..Len(w) : hw[Len(head) + j] = w[j]
    BY <2>0, ConcatStarts, SMTT(30)
  <2> HIDE DEF hw, l
  <2>2. Len(head) = 2 /\ Len(w) = l
    BY <1>3 DEF l
  <2>. QED BY <2>1, <2>2
<1> HIDE DEF hw
<1>9. /\ raw \in Seq(Signs) /\ Starts(hw, raw) /\ Len(raw) \in Nat
      /\ \A j \in 1..Len(tail) : raw[Len(hw) + j] = tail[j]
  <2>1. hw \in Seq(Signs) /\ tail \in Seq(Signs)
    BY <1>4, <1>8
  <2> HIDE DEF hw
  <2>2. /\ hw \o tail \in Seq(Signs) /\ Starts(hw, hw \o tail)
        /\ \A j \in 1..Len(tail) : (hw \o tail)[Len(hw) + j] = tail[j]
    BY <2>1, ConcatStarts
  <2>. QED BY <2>2, LenProperties
<1> HIDE DEF raw, l
<1>10. raw[3 + l] = quote
  <2>1. 1 \in 1..Len(tail) /\ (2 + l) + 1 = 3 + l
    <3> DEFINE lt == Len(tail)
    <3>1. lt \in Nat /\ lt >= 1 /\ l \in Nat
      BY <1>4, <1>6
    <3> HIDE DEF lt
    <3>2. 1 \in 1..lt /\ (2 + l) + 1 = 3 + l
      BY <3>1
    <3>. QED BY <3>2 DEF lt
  <2>2. tail[1] = quote
    BY <1>4 DEF quote
  <2>. QED BY <1>8, <1>9, <2>1, <2>2
<1>11. \A j \in 1..l : raw[2 + j] = w[j]
  <2> TAKE j \in 1..l
  <2>1. 2 + j \in 1..(2 + l)
    BY <1>6
  <2>2. raw[2 + j] = hw[2 + j]
    BY <1>8, <1>9, <2>1 DEF Starts
  <2>. QED BY <1>8, <2>2
<1> HIDE DEF W
<1>12. ASSUME NEW k \in Nat, k + 1 <= n
       PROVE  /\ L(k + 1) = L(k) + Len(Escaped[v[k + 1]])
              /\ \A j \in 1..Len(Escaped[v[k + 1]]) :
                   raw[(3 + L(k)) + j - 1] = Escaped[v[k + 1]][j]
  <2> DEFINE e == Escaped[v[k + 1]]
  <2>1. k + 1 \in 1..n /\ k + 1 \in 0..n /\ k \in 0..n
    BY <1>0, <1>12
  <2>2. e \in Seq(Signs)
    <3>1. v[k + 1] \in Letters
      BY <1>0, <2>1, PlainIs
    <3>. QED BY <3>1, EscapedIs
  <2>3. W(k + 1) = W(k) \o e /\ W(k) \in Seq(Signs) /\ Starts(W(k + 1), w) /\ L(k) \in Nat
    BY <1>0, <1>5, <1>12, <2>1, WrittenIs DEF W, w
  <2> HIDE DEF e
  <2>4. /\ Len(e) \in Nat /\ L(k + 1) = L(k) + Len(e)
        /\ \A j \in 1..Len(e) : W(k + 1)[L(k) + j] = e[j]
    BY <2>2, <2>3, ConcatStarts DEF L
  <2>5. L(k + 1) <= l /\ \A i \in 1..L(k + 1) : w[i] = W(k + 1)[i]
    BY <2>3 DEF Starts, L, l
  <2> DEFINE lk == L(k)
             lk1 == L(k + 1)
             le == Len(e)
  <2>6. lk \in Nat /\ le \in Nat /\ lk1 = lk + le /\ lk1 <= l /\ l \in Nat
    BY <1>6, <2>3, <2>4, <2>5
  <2>7. \A j \in 1..le : W(k + 1)[lk + j] = e[j]
    BY <2>4
  <2>8. \A i \in 1..lk1 : w[i] = W(k + 1)[i]
    BY <2>5
  <2> HIDE DEF lk, lk1, le
  <2>9. \A j \in 1..le : raw[(3 + lk) + j - 1] = e[j]
    <3> TAKE j \in 1..le
    <3>1. lk + j \in 1..lk1 /\ lk + j \in 1..l /\ (3 + lk) + j - 1 = 2 + (lk + j)
      BY <2>6
    <3>. QED BY <1>11, <2>7, <2>8, <3>1
  <2>. QED BY <2>4, <2>9 DEF e, lk, le
<1>13. raw = Raw(m) /\ \A k : Start(v, k) = 3 + L(k)
  BY <1>7 DEF raw, hw, Start, L, W
<1>14. L(0) = 0
  <2>1. W(0) = <<>>
    BY <1>0, WrittenIs DEF W
  <2>. QED BY <2>1, EmptySeq DEF L
<1>15. \A k \in 0..n : 3 + L(k) \in Nat /\ 3 + L(k) >= 3
  BY <1>5
<1>16. \A k \in Nat : k + 1 <= n =>
         /\ 3 + L(k + 1) = (3 + L(k)) + Len(Escaped[v[k + 1]])
         /\ \A j \in 1..Len(Escaped[v[k + 1]]) : raw[(3 + L(k)) + j - 1] = Escaped[v[k + 1]][j]
  <2> TAKE k \in Nat
  <2> HAVE k + 1 <= n
  <2>1. k \in 0..n /\ k + 1 \in 1..n
    BY <1>0
  <2>2. L(k) \in Nat /\ Len(Escaped[v[k + 1]]) \in Nat
    <3>1. v[k + 1] \in Letters
      BY <1>0, <2>1, PlainIs
    <3>. QED BY <1>5, <2>1, <3>1, EscapedIs
  <2> DEFINE a == L(k)
             b == L(k + 1)
             c == Len(Escaped[v[k + 1]])
  <2>3. a \in Nat /\ c \in Nat /\ b = a + c
    BY <1>12, <2>2
  <2> HIDE DEF a, b, c
  <2>4. 3 + b = (3 + a) + c
    BY <2>3
  <2>. QED BY <1>12, <2>4 DEF a, b, c
<1> HIDE DEF n, v
<1>17. Start(v, 0) = 3 /\ raw[Start(v, n)] = quote
  <2>1. Start(v, n) = 3 + l
    BY <1>13 DEF l, w, L
  <2> HIDE DEF L
  <2>2. Start(v, 0) = 3
    BY <1>13, <1>14
  <2>3. raw[Start(v, n)] = raw[3 + l]
    BY <2>1
  <2>. QED BY <1>10, <2>2, <2>3
<1>18. \A k \in 0..n : Start(v, k) \in Nat /\ Start(v, k) >= 3
  BY <1>13, <1>15
<1>19. \A k \in Nat : k + 1 <= n =>
         /\ Start(v, k + 1) = Start(v, k) + Len(Escaped[v[k + 1]])
         /\ \A j \in 1..Len(Escaped[v[k + 1]]) : raw[Start(v, k) + j - 1] = Escaped[v[k + 1]][j]
  <2> TAKE k \in Nat
  <2> HAVE k + 1 <= n
  <2> DEFINE e == Escaped[v[k + 1]]
             a == 3 + L(k)
             c == 3 + L(k + 1)
  <2>1. c = a + Len(e) /\ \A j \in 1..Len(e) : raw[a + j - 1] = e[j]
    BY <1>16
  <2>2. Start(v, k) = a /\ Start(v, k + 1) = c
    BY <1>13
  <2> HIDE DEF a, c, e
  <2>3. Start(v, k + 1) = Start(v, k) + Len(e) /\ \A j \in 1..Len(e) : raw[Start(v, k) + j - 1] = e[j]
    BY <2>1, <2>2
  <2>. QED BY <2>3 DEF e
<1>. QED BY <1>0, <1>9, <1>13, <1>17, <1>18, <1>19 DEF n, v, quote

\* One turn of the loop decodes the next symbol, or finds that it has not all
\* arrived, or comes to the closing quote.
LEMMA DecodeNextIs ==
  ASSUME NEW m \in Messages, NEW b \in 0..Len(Raw(m)), NEW k \in 0..Len(m.value),
         NEW r, r.cursor = Start(m.value, k), ~ r.done
  PROVE  LET d == DecodeNext(SubSeq(Raw(m), 1, b), r)
             v == m.value
         IN  \/ d = r
             \/ /\ k < Len(v) /\ Start(v, k + 1) <= b + 1
                /\ d = [r EXCEPT !.cursor = Start(v, k + 1), !.text = Append(@, Plain(v)[k + 1])]
             \/ /\ k = Len(v) /\ Start(v, k) + 1 <= b + 1
                /\ d = [r EXCEPT !.cursor = Start(v, k) + 1, !.done = TRUE]
<1> DEFINE v == m.value
           n == Len(v)
           raw == Raw(m)
           buffer == SubSeq(raw, 1, b)
           i == r.cursor
           escaped == i <= Len(buffer) /\ buffer[i] = "\\"
           unicode == escaped /\ i < Len(buffer) /\ buffer[i + 1] = "u"
           unit == IF unicode THEN 4 ELSE IF escaped THEN 2 ELSE 1
           symbol == IF unicode THEN "-" ELSE buffer[i + unit - 1]
           d == DecodeNext(buffer, r)
           s == v[k + 1]
           e == Escaped[s]
           i1 == Start(v, k + 1)
           read == [r EXCEPT !.cursor = i + unit, !.text = Append(@, symbol)]
           ended == [r EXCEPT !.cursor = i + 1, !.done = TRUE]
<1>0. /\ v \in Seq(Letters) /\ n \in Nat /\ raw \in Seq(Signs) /\ Len(raw) \in Nat /\ k \in 0..n
  BY RawIs, LenProperties
<1>1. b \in Nat /\ Len(buffer) = b /\ \A j \in 1..b : buffer[j] = raw[j]
  <2> HIDE DEF raw
  <2>1. b \in Nat /\ b <= Len(raw)
    BY <1>0 DEF raw
  <2>2. \A j \in 1..b : raw[j] \in Signs
    <3>1. \A j \in 1..b : j \in 1..Len(raw)
      BY <1>0, <2>1
    <3>. QED BY <1>0, <3>1, ElementOfSeq
  <2>3. /\ Len(SubSeq(raw, 1, b)) = IF 1 <= b THEN b - 1 + 1 ELSE 0
        /\ \A j \in 1..(b - 1 + 1) : SubSeq(raw, 1, b)[j] = raw[1 + j - 1]
    BY <1>0, <2>1, <2>2, SubSeqProperties
  <2>. QED BY <2>1, <2>3
<1> DEFINE past == i + unit - 1 > Len(buffer)
           quoted == buffer[i] = "\""
<1>2. (past => d = r) /\ (~ past /\ quoted => d = ended) /\ (~ past /\ ~ quoted => d = read)
  <2>1. d = IF r.done \/ past THEN r ELSE IF quoted THEN ended ELSE read
    BY DEF DecodeNext
  <2>2. ~ r.done
    OBVIOUS
  <2> HIDE DEF d, past, quoted, ended, read
  <2>. QED BY <2>1, <2>2
<1>3. i \in Nat /\ i >= 3 /\ i = Start(v, k)
  BY RawIs
<1>4. CASE k = n
  <2>1. raw[i] = "\""
    BY <1>3, <1>4, RawIs
  <2> HIDE DEF d, raw, buffer, i, ended, read, past, quoted
  <2>2. CASE i <= b
    <3>1. buffer[i] = "\""
      <4>1. i \in 1..b
        BY <1>1, <1>3, <2>2
      <4>2. buffer[i] = raw[i]
        BY <1>1, <4>1
      <4>. QED BY <2>1, <4>2
    <3>2. ~ escaped
      BY <3>1
    <3> HIDE DEF escaped
    <3>3. unit = 1
      BY <3>2
    <3> HIDE DEF unit
    <3>4. d = ended /\ i + 1 <= b + 1
      <4>1. ~ past
        BY <1>1, <1>3, <2>2, <3>3 DEF past
      <4>2. quoted
        BY <3>1 DEF quoted
      <4>3. i + 1 <= b + 1
        BY <1>1, <1>3, <2>2
      <4>. QED BY <1>2, <4>1, <4>2, <4>3
    <3>. QED BY <1>3, <1>4, <3>4 DEF d, ended, buffer, raw, i
  <2>3. CASE i > b
    <3>1. ~ escaped
      BY <1>1, <1>3, <2>3
    <3> HIDE DEF escaped
    <3>2. unit = 1
      BY <3>1
    <3> HIDE DEF unit
    <3>3. past
      BY <1>1, <1>3, <2>3, <3>2 DEF past
    <3>4. d = r
      BY <1>2, <3>3
    <3>. QED BY <3>4 DEF d, buffer, raw
  <2>. QED BY <1>1, <1>3, <2>2, <2>3
<1>5. CASE k # n
  <2>1. k + 1 <= n /\ k + 1 \in 1..n /\ k \in Nat /\ k < n
    BY <1>0, <1>5
  <2>2. s \in Letters /\ Plain(v)[k + 1] = IF s = "u" THEN "-" ELSE s
    BY <1>0, <2>1, PlainIs
  <2>3. i1 = i + Len(e) /\ \A j \in 1..Len(e) : raw[i + j - 1] = e[j]
    <3> HIDE DEF e, i, i1, raw
    <3>1. /\ Start(v, k + 1) = Start(v, k) + Len(e)
          /\ \A j \in 1..Len(e) : raw[Start(v, k) + j - 1] = e[j]
      BY <2>1, RawIs DEF e, raw
    <3>. QED BY <1>3, <3>1 DEF i1
  <2>4. "\\" \notin Letters /\ "\"" \notin Letters
    BY DEF Letters
  <2> DEFINE p == Plain(v)[k + 1]
  <2> SUFFICES d = r \/ (i1 <= b + 1 /\ i + unit = i1 /\ symbol = p /\ d = read)
    <3> HIDE DEF p, unit, symbol, d, i1
    <3>1. i + unit = i1 /\ symbol = p => read = [r EXCEPT !.cursor = i1, !.text = Append(@, p)]
      OBVIOUS
    <3>. QED BY <2>1, <3>1 DEF d, i1, p
  <2> HIDE DEF d, raw, buffer, i, i1, ended, read, p, s, past, quoted
  <2>5. CASE i > b
    <3>1. ~ escaped
      BY <1>1, <1>3, <2>5
    <3> HIDE DEF escaped
    <3>2. unit = 1
      BY <3>1
    <3> HIDE DEF unit
    <3>3. past
      BY <1>1, <1>3, <2>5, <3>2 DEF past
    <3>. QED BY <1>2, <3>3
  <2>6. CASE i <= b /\ s \notin {"q", "n", "u"}
    <3>1. Len(e) = 1 /\ e[1] = s
      <4>1. e = <<s>> /\ Len(e) = 1
        BY <2>2, <2>6, EscapedIs
      <4> HIDE DEF e
      <4>. QED BY <4>1
    <3> HIDE DEF e
    <3>2. buffer[i] = s /\ i1 = i + 1
      <4>1. 1 \in 1..Len(e) /\ i + 1 - 1 = i /\ i \in 1..b
        BY <1>3, <2>6, <3>1
      <4>2. raw[i + 1 - 1] = e[1] /\ i1 = i + Len(e)
        BY <2>3, <4>1 DEF e
      <4>. QED BY <1>1, <3>1, <4>1, <4>2
    <3>3. ~ escaped
      BY <2>2, <2>4, <3>2
    <3> HIDE DEF escaped
    <3>4. unit = 1 /\ ~ unicode
      BY <3>3
    <3> HIDE DEF unicode, unit
    <3>5. symbol = s
      <4>1. i + unit - 1 = i
        BY <1>3, <3>4
      <4>. QED BY <3>2, <3>4, <4>1
    <3>6. p = s
      BY <2>2, <2>6 DEF p
    <3> HIDE DEF symbol
    <3>7. d = read
      <4>1. ~ past
        BY <1>1, <1>3, <2>6, <3>4 DEF past
      <4>2. ~ quoted
        BY <2>2, <2>4, <3>2 DEF quoted
      <4>. QED BY <1>2, <4>1, <4>2
    <3>. QED BY <1>1, <1>3, <2>6, <3>2, <3>4, <3>5, <3>6, <3>7
  <2>7. CASE i <= b /\ s \in {"q", "n", "u"}
    <3>1. /\ e[1] = "\\" /\ e[2] = s /\ Len(e) = (IF s = "u" THEN 4 ELSE 2)
          /\ 1 \in 1..Len(e) /\ 2 \in 1..Len(e)
      <4>1. CASE s = "u"
        <5>1. e = <<"\\", "u", "h", "h">> /\ Len(e) = 4
          BY <2>2, <4>1, EscapedIs
        <5> HIDE DEF e
        <5>. QED BY <4>1, <5>1
      <4>2. CASE s # "u"
        <5>1. e = <<"\\", s>> /\ Len(e) = 2
          BY <2>2, <2>7, <4>2, EscapedIs
        <5> HIDE DEF e
        <5>. QED BY <4>2, <5>1
      <4>. QED BY <4>1, <4>2
    <3>2. i + 1 - 1 = i /\ i + 2 - 1 = i + 1 /\ i \in 1..b /\ (i + 1 <= b => i + 1 \in 1..b)
      BY <1>1, <1>3, <2>7
    <3>3. buffer[i] = "\\" /\ (i + 1 <= b => buffer[i + 1] = s)
      <4>1. raw[i + 1 - 1] = e[1] /\ raw[i + 2 - 1] = e[2]
        BY <2>3, <3>1
      <4>. QED BY <1>1, <3>1, <3>2, <4>1
    <3>4. escaped
      BY <1>1, <2>7, <3>3
    <3> DEFINE wide == i + 1 <= b /\ s = "u"
    <3>5. unicode <=> wide
      BY <1>1, <1>3, <3>3, <3>4
    <3> HIDE DEF escaped, unicode
    <3>6. i1 = i + (IF s = "u" THEN 4 ELSE 2)
      BY <2>3, <3>1
    <3>7. unit = IF wide THEN 4 ELSE 2
      BY <3>4, <3>5
    <3>8. p = IF s = "u" THEN "-" ELSE s
      BY <2>2 DEF p
    <3>9. symbol = IF wide THEN "-" ELSE buffer[i + unit - 1]
      BY <3>5
    <3> HIDE DEF unit, symbol
    <3>10. CASE i + unit - 1 > b
      <4>1. past
        BY <1>1, <3>10 DEF past
      <4>. QED BY <1>2, <4>1
    <3>11. CASE ~ (i + unit - 1 > b)
      <4>1. unit \in Nat /\ unit >= 2
        BY <3>7
      <4>2. i + 1 <= b
        BY <1>1, <1>3, <3>11, <4>1
      <4>3. unit = (IF s = "u" THEN 4 ELSE 2) /\ i + unit = i1
        BY <3>6, <3>7, <4>2
      <4>4. i1 <= b + 1
        BY <1>1, <1>3, <3>11, <4>1, <4>3
      <4>5. symbol = p
        <5>1. CASE s = "u"
          BY <3>8, <3>9, <4>2, <5>1
        <5>2. CASE s # "u"
          <6>1. i + unit - 1 = i + 1
            BY <1>3, <4>3, <5>2
          <6>. QED BY <3>3, <3>8, <3>9, <4>2, <5>2, <6>1
        <5>. QED BY <5>1, <5>2
      <4>6. "\\" # "\""
        OBVIOUS
      <4>7. d = read
        <5>1. ~ past
          BY <1>1, <3>11 DEF past
        <5>2. ~ quoted
          BY <3>3, <4>6 DEF quoted
        <5>. QED BY <1>2, <5>1, <5>2
      <4>. QED BY <4>3, <4>4, <4>5, <4>7
    <3>. QED BY <3>10, <3>11
  <2>. QED BY <1>1, <1>3, <2>5, <2>6, <2>7
<1>. QED BY <1>4, <1>5

\* What has been decoded of a value, one letter more.
LEMMA HeardIs ==
  ASSUME NEW value \in Seq(Letters)
  PROVE  /\ Heard(value, 0) = <<>> /\ Heard(value, Len(value)) = Plain(value)
         /\ \A k \in 0..Len(value) : Heard(value, k) \in Text
         /\ \A k \in Nat : k + 1 <= Len(value) =>
              /\ Heard(value, k + 1) = Append(Heard(value, k), Plain(value)[k + 1])
              /\ Plain(value)[k + 1] \in Alphabet
<1> DEFINE n == Len(value)
           P == Plain(value)
<1>1. P \in Text /\ Len(P) = n /\ n \in Nat /\ \A i \in 1..n : P[i] \in Alphabet
  BY PlainIs
<1> HIDE DEF n, P
<1>2. \A k : Heard(value, k) = [i \in 1..k |-> P[i]]
  BY DEF Heard, P
<1>3. [i \in 1..0 |-> P[i]] = <<>>
  OBVIOUS
<1>4. [i \in 1..n |-> P[i]] = P
  BY <1>1 DEF Text
<1>5. \A k \in 0..n : [i \in 1..k |-> P[i]] \in Text
  BY <1>1 DEF Text
<1>6. ASSUME NEW k \in Nat, k + 1 <= n
      PROVE  [i \in 1..(k + 1) |-> P[i]] = Append([i \in 1..k |-> P[i]], P[k + 1]) /\ P[k + 1] \in Alphabet
  BY <1>1, <1>6
<1>. QED BY <1>2, <1>3, <1>4, <1>5, <1>6 DEF n, P

\* Whatever has arrived, what is decoded from the next symbol's start on is
\* what comes next of the value.
LEMMA DecodedIs ==
  ASSUME NEW m \in Messages, NEW b \in 0..Len(Raw(m)), NEW k \in 0..Len(m.value),
         Start(m.value, k) <= b + 1
  PROVE  LET v == m.value
             d == Decoded(SubSeq(Raw(m), 1, b), Start(v, k))
         IN  /\ d.text \in Text /\ d.cursor \in 0..(b + 1) /\ d.done \in BOOLEAN
             /\ \E j \in k..Len(v) :
                  /\ Heard(v, j) = Heard(v, k) \o d.text
                  /\ d.done => j = Len(v)
                  /\ ~ d.done => d.cursor = Start(v, j)
<1> DEFINE v == m.value
           n == Len(v)
           a == Start(v, k)
           buffer == SubSeq(Raw(m), 1, b)
           l == Len(buffer)
           Follows(x) == \E j \in k..n : /\ Heard(v, j) = Heard(v, k) \o x.text
                                         /\ x.done => j = n
                                         /\ ~ x.done => x.cursor = Start(v, j)
           S == {x \in [text : Text, cursor : 0..(b + 1), done : BOOLEAN] : Follows(x)}
           start == [text |-> <<>>, cursor |-> a, done |-> FALSE]
           step == [x \in Nat \X S |-> DecodeNext(buffer, x[2])]
<1>0. /\ v \in Seq(Letters) /\ n \in Nat /\ b \in Nat /\ a \in 0..(b + 1) /\ k \in 0..n /\ k \in k..n
  <2>1. v \in Seq(Letters) /\ n \in Nat /\ Len(Raw(m)) \in Nat /\ a \in Nat
    BY RawIs, LenProperties
  <2> HIDE DEF a
  <2>2. a <= b + 1
    BY DEF a
  <2>. QED BY <2>1, <2>2
<1>1. l \in Nat
  <2>1. b \in Nat /\ \A i \in 1..b : Raw(m)[i] \in Signs
    <3> DEFINE raw == Raw(m)
    <3>1. raw \in Seq(Signs) /\ Len(raw) \in Nat /\ b \in 0..Len(raw)
      BY RawIs
    <3> HIDE DEF raw
    <3>2. \A i \in 1..b : i \in 1..Len(raw)
      BY <3>1
    <3>. QED BY <1>0, <3>1, <3>2, ElementOfSeq DEF raw
  <2>2. buffer \in Seq(Signs)
    <3> DEFINE raw == Raw(m)
    <3>1. raw \in Seq(Signs)
      BY RawIs
    <3>2. \A i \in 1..b : raw[i] \in Signs
      BY <2>1
    <3> HIDE DEF raw
    <3>3. SubSeq(raw, 1, b) \in Seq(Signs)
      BY <1>0, <3>1, <3>2, SubSeqProperties
    <3>. QED BY <3>3 DEF raw
  <2>. QED BY <2>2, LenProperties
<1>2. start \in S
  <2>1. <<>> \in Text
    BY ShortTexts
  <2>2. Heard(v, k) = Heard(v, k) \o <<>>
    <3>1. Heard(v, k) \in Text
      BY <1>0, HeardIs
    <3>. QED BY <3>1, ConcatEmptySeq DEF Text
  <2> HIDE DEF a, v, n
  <2>3. start \in [text : Text, cursor : 0..(b + 1), done : BOOLEAN]
    BY <1>0, <2>1
  <2>4. start.text = <<>> /\ start.cursor = Start(v, k) /\ start.done = FALSE
    BY DEF a
  <2> HIDE DEF start
  <2>5. Follows(start)
    BY <1>0, <2>2, <2>4
  <2>. QED BY <2>3, <2>5
<1>3. ASSUME NEW x \in S PROVE DecodeNext(buffer, x) \in S
  <2> DEFINE d == DecodeNext(buffer, x)
  <2>1. x \in [text : Text, cursor : 0..(b + 1), done : BOOLEAN] /\ Follows(x)
    OBVIOUS
  <2>2. PICK j \in k..n : /\ Heard(v, j) = Heard(v, k) \o x.text
                          /\ x.done => j = n
                          /\ ~ x.done => x.cursor = Start(v, j)
    BY <2>1
  <2>3. j \in 0..n
    BY <1>0
  <2>4. CASE x.done
    <3>1. d = x
      BY <2>4 DEF DecodeNext
    <3>. QED BY <3>1
  <2>5. CASE ~ x.done
    <3>1. \/ d = x
          \/ /\ j < n /\ Start(v, j + 1) <= b + 1
             /\ d = [x EXCEPT !.cursor = Start(v, j + 1), !.text = Append(@, Plain(v)[j + 1])]
          \/ /\ j = n /\ Start(v, j) + 1 <= b + 1
             /\ d = [x EXCEPT !.cursor = Start(v, j) + 1, !.done = TRUE]
      <4>1. x.cursor = Start(m.value, j) /\ ~ x.done /\ j \in 0..Len(m.value)
        BY <2>2, <2>3, <2>5
      <4> DEFINE o == DecodeNext(SubSeq(Raw(m), 1, b), x)
      <4>2. \/ o = x
            \/ /\ j < Len(m.value) /\ Start(m.value, j + 1) <= b + 1
               /\ o = [x EXCEPT !.cursor = Start(m.value, j + 1), !.text = Append(@, Plain(m.value)[j + 1])]
            \/ /\ j = Len(m.value) /\ Start(m.value, j) + 1 <= b + 1
               /\ o = [x EXCEPT !.cursor = Start(m.value, j) + 1, !.done = TRUE]
        BY <4>1, DecodeNextIs, ZenonT(40)
      <4>3. d = o
        OBVIOUS
      <4> HIDE DEF d, o
      <4>. QED BY <4>2, <4>3
    <3> HIDE DEF d, v, n, S, Follows
    <3>2. CASE d = x
      BY <3>2 DEF d
    <3>3. CASE /\ j < n /\ Start(v, j + 1) <= b + 1
               /\ d = [x EXCEPT !.cursor = Start(v, j + 1), !.text = Append(@, Plain(v)[j + 1])]
      <4> DEFINE c == Plain(v)[j + 1]
                 t == Append(x.text, c)
                 a1 == Start(v, j + 1)
      <4>1. j \in Nat /\ j + 1 <= n /\ j + 1 \in k..n /\ j + 1 \in 0..n
        BY <1>0, <2>3, <3>3
      <4>2. c \in Alphabet /\ Heard(v, j + 1) = Append(Heard(v, j), c) /\ Heard(v, k) \in Text
        BY <1>0, <4>1, HeardIs DEF n
      <4>3. a1 \in Nat
        BY <4>1, RawIs DEF v, n
      <4> HIDE DEF c, a1
      <4>4. x.text \in Text /\ t \in Text
        BY <2>1, <4>2, TextAppend
      <4>5. Heard(v, k) \o t = Append(Heard(v, k) \o x.text, c)
        <5> DEFINE h == Heard(v, k)
                   y == x.text
        <5>1. h \in Seq(Alphabet) /\ y \in Seq(Alphabet) /\ <<c>> \in Seq(Alphabet) /\ c \in Alphabet
          BY <4>2, <4>4, ShortTexts DEF Text
        <5> HIDE DEF h, y
        <5>2. h \o y \in Seq(Alphabet)
          BY <5>1, ConcatProperties
        <5>3. Append(y, c) = y \o <<c>> /\ Append(h \o y, c) = (h \o y) \o <<c>>
          BY <5>1, <5>2, AppendIsConcat
        <5>4. h \o Append(y, c) = Append(h \o y, c)
          BY <5>1, <5>3, ConcatAssociative
        <5>. QED BY <5>4 DEF h, y
      <4> HIDE DEF t
      <4>6. d = [x EXCEPT !.cursor = a1, !.text = t]
        BY <3>3 DEF a1, t, c
      <4>7. a1 \in 0..(b + 1)
        BY <1>0, <3>3, <4>3 DEF a1
      <4>8. /\ d \in [text : Text, cursor : 0..(b + 1), done : BOOLEAN]
            /\ d.text = t /\ d.cursor = a1 /\ d.done = x.done
        BY <2>1, <4>4, <4>6, <4>7
      <4>9. Heard(v, j + 1) = Heard(v, k) \o d.text
        BY <2>2, <4>2, <4>5, <4>8
      <4>10. Follows(d)
        BY <2>5, <4>1, <4>8, <4>9 DEF Follows, a1
      <4>. QED BY <4>8, <4>10 DEF S, d
    <3>4. CASE /\ j = n /\ Start(v, j) + 1 <= b + 1
               /\ d = [x EXCEPT !.cursor = Start(v, j) + 1, !.done = TRUE]
      <4> DEFINE a1 == Start(v, j)
      <4>1. a1 \in Nat
        BY <2>3, RawIs DEF v, n
      <4>2. a1 + 1 <= b + 1 /\ d = [x EXCEPT !.cursor = a1 + 1, !.done = TRUE]
        BY <3>4
      <4> HIDE DEF a1
      <4>3. a1 + 1 \in 0..(b + 1)
        BY <1>0, <4>1, <4>2
      <4>4. /\ d \in [text : Text, cursor : 0..(b + 1), done : BOOLEAN]
            /\ d.text = x.text /\ d.done = TRUE
        BY <2>1, <4>2, <4>3
      <4>5. Follows(d)
        BY <2>2, <3>4, <4>4 DEF Follows
      <4>. QED BY <4>4, <4>5 DEF S, d
    <3>. QED BY <3>1, <3>2, <3>3, <3>4
  <2>. QED BY <2>4, <2>5
<1> HIDE DEF l, buffer, S, start
<1>4. step \in [Nat \X S -> S]
  BY <1>3
<1>5. PICK f : Iterates(f, l, S, start, step)
  <2> HIDE DEF step
  <2>. QED BY <1>1, <1>2, <1>4, Recursion, Zenon
<1>6. f \in [0..l -> S] /\ f[0] = start /\ \A i \in 1..l : f[i] = step[<<i, f[i - 1]>>]
  <2> HIDE DEF step
  <2>. QED BY <1>5 DEF Iterates
<1>7. \A i \in 1..l : f[i] = DecodeNext(buffer, f[i - 1])
  <2> TAKE i \in 1..l
  <2>1. i \in Nat /\ i - 1 \in 0..l
    BY <1>1
  <2>2. f[i - 1] \in S
    BY <1>6, <2>1
  <2>3. step[<<i, f[i - 1]>>] = DecodeNext(buffer, f[i - 1])
    BY <2>1, <2>2
  <2>. QED BY <1>6, <2>3
<1> HIDE DEF step, a, v, n
<1>8. Decoded(buffer, a) = f[l]
  <2> DEFINE Is(x) == x = [i \in 0..l |-> IF i = 0 THEN start ELSE DecodeNext(buffer, x[i - 1])]
             c == CHOOSE x : Is(x)
  <2>1. Is(f)
    <3>1. \A i \in 0..l : f[i] = IF i = 0 THEN start ELSE DecodeNext(buffer, f[i - 1])
      <4> TAKE i \in 0..l
      <4>1. CASE i = 0
        BY <1>6, <4>1
      <4>2. CASE i # 0
        <5>1. i \in 1..l
          BY <1>1, <4>2
        <5>. QED BY <1>7, <4>2, <5>1
      <4>. QED BY <4>1, <4>2
    <3>2. f = [i \in 0..l |-> f[i]]
      BY <1>6
    <3>. QED BY <3>1, <3>2
  <2>2. Is(c)
    <3> SUFFICES \E x : Is(x)
      BY Zenon
    <3>. QED BY <2>1
  <2>3. Decoded(buffer, a) = c[l]
    BY DEF Decoded, l, start
  <2> DEFINE G == {i \in Nat : i <= l => c[i] = f[i]}
  <2> HIDE DEF c
  <2>4. 0 \in G
    BY <1>1, <1>6, <2>2
  <2>5. ASSUME NEW i \in Nat, i \in G PROVE i + 1 \in G
    <3> SUFFICES ASSUME i + 1 <= l PROVE c[i + 1] = f[i + 1]
      OBVIOUS
    <3>1. i + 1 \in 1..l /\ i + 1 # 0 /\ (i + 1) - 1 = i /\ i <= l /\ i + 1 \in 0..l
      BY <1>1
    <3>2. c[i + 1] = DecodeNext(buffer, c[i])
      BY <2>2, <3>1
    <3>3. f[i + 1] = DecodeNext(buffer, f[i])
      BY <1>7, <3>1
    <3>. QED BY <2>5, <3>1, <3>2, <3>3
  <2>6. l \in G
    <3> HIDE DEF G
    <3>. QED BY <1>1, <2>4, <2>5, Induction
  <2>. QED BY <1>1, <2>3, <2>6
<1>9. f[l] \in S
  BY <1>1, <1>6
<1>10. LET d == Decoded(buffer, a)
       IN  /\ d.text \in Text /\ d.cursor \in 0..(b + 1) /\ d.done \in BOOLEAN
           /\ \E j \in k..n : /\ Heard(v, j) = Heard(v, k) \o d.text
                              /\ d.done => j = n
                              /\ ~ d.done => d.cursor = Start(v, j)
  BY <1>8, <1>9 DEF S
<1>. QED BY <1>10 DEF a, v, n, buffer

----------------------------------------------------------------------------
(* Where a stream stands                                                   *)

(***************************************************************************)
(* k symbols of the value have been decoded: the streamer stands before    *)
(* the next one, or the value is done; the gate has come to the reading of *)
(* these k symbols, or closed on it. c is the cursor, d that the value is  *)
(* done, g the gate.                                                       *)
(***************************************************************************)
Heeded(req, k) == ReadOn(From(<<>>), Heard(req.message.value, k), req.correct)

\* What the reading of the first k symbols comes to, d that the value is done.
Result(req, k, d) == IF d THEN Judged(Heeded(req, k), req.correct) ELSE Heeded(req, k)

\* The bounds, the place in the message, what has been shown, and the gate.
Position(req, k, c, d, g) ==
  /\ k \in 0..Len(req.message.value)
  /\ d => k = Len(req.message.value)
  /\ ~ d => c = Start(req.message.value, k) \/ (c = 0 /\ k = 0)
  /\ Read(g.released) = Result(req, k, d).out
  /\ Grown(<<>>, g.released, req.correct)
  /\ \A i \in 1..Len(g.released) : i < Len(g.released) \/ ~ d => Last(g.released[i]) = "."
  /\ ~ g.closed => ~ d /\ Fed(g) /\ Drained(g) /\ View(g, req.correct) = Heeded(req, k)
  /\ g.closed /\ g.failure # "incomplete" =>
       g.failure = Result(req, k, d).failure /\ (d \/ g.failure # "none")

\* The requests of a stream.
Requests == [message : Messages, correct : Verdicts]

\* The gate a request starts with.
NewGate == [pending |-> <<>>, released |-> <<>>, failure |-> "none", closed |-> FALSE]

\* The types of a request.
LEMMA RequestIs ==
  ASSUME NEW req \in Requests
  PROVE  /\ req.message \in Messages /\ req.correct \in BOOLEAN
         /\ req.message.value \in Seq(Letters) /\ Len(req.message.value) \in Nat
         /\ \A k \in 0..Len(req.message.value) : Heeded(req, k) \in Reading
<1>1. req.message \in Messages /\ req.correct \in BOOLEAN
  BY DEF Requests, Verdicts
<1>2. req.message.value \in Seq(Letters) /\ Len(req.message.value) \in Nat
  BY <1>1, RawIs, LenProperties
<1>3. From(<<>>) \in Reading
  BY FromTyped, EmptySeq
<1>4. \A k \in 0..Len(req.message.value) : Heard(req.message.value, k) \in Text
  BY <1>2, HeardIs
<1>. QED BY <1>1, <1>2, <1>3, <1>4, ReadTyped DEF Heeded

\* A stream starts before the first symbol of the value.
LEMMA PositionStarts ==
  ASSUME NEW req \in Requests
  PROVE  Position(req, 0, 0, FALSE, NewGate) /\ NewGate \in GateState
<1>0. req.correct \in BOOLEAN /\ req.message.value \in Seq(Letters) /\ Len(req.message.value) \in Nat
  BY RequestIs
<1>1. From(<<>>) \in Reading
  BY FromTyped, EmptySeq
<1>2. Fed(NewGate) /\ ~ NewGate.closed /\ NewGate.released = <<>> /\ NewGate \in GateState
  <2>1. <<>> \in CleanText
    BY EmptySeq DEF CleanText
  <2>2. <<>> \in Seq(Text)
    BY EmptySeq
  <2>. QED BY <2>1, <2>2 DEF Fed, GateState, GateFailures, NewGate
<1>3. Drained(NewGate)
  <2>1. NewGate.pending = <<>> /\ <<>> \in CleanText
    BY EmptySeq DEF CleanText, NewGate
  <2>2. Unended(<<>>)
    BY DEF Unended
  <2>. QED BY <2>1, <2>2, SentenceEndIs DEF Drained
<1>4. View(NewGate, req.correct) = From(<<>>) /\ Heeded(req, 0) = From(<<>>)
  <2>1. Heard(req.message.value, 0) = <<>>
    BY <1>0, HeardIs
  <2>2. ReadOn(From(<<>>), <<>>, req.correct) = From(<<>>)
    BY <1>0, <1>1, ReadOnEmpty
  <2>. QED BY <2>1, <2>2, ReadEmpty DEF View, Heeded, NewGate
<1>5. Grown(<<>>, <<>>, req.correct)
  <2>1. <<>> \in Seq(Text)
    BY EmptySeq
  <2>. QED BY <2>1, GrownSame
<1>6. Read(<<>>) = From(<<>>).out
  BY ReadEmpty DEF From
<1>7. 0 \in 0..Len(req.message.value) /\ 1..Len(<<>>) = {}
  BY <1>0
<1>. QED BY <1>2, <1>3, <1>4, <1>5, <1>6, <1>7 DEF Position, Result

\* What the streamer found is fed to the gate, which is finished at the end.
LEMMA PositionMoves ==
  ASSUME NEW req \in Requests, NEW k, NEW c, NEW g, Position(req, k, c, FALSE, g), ~ g.closed,
         NEW j \in k..Len(req.message.value), NEW text \in Text,
         Heard(req.message.value, j) = Heard(req.message.value, k) \o text,
         NEW d \in BOOLEAN, d => j = Len(req.message.value),
         NEW c1, ~ d => c1 = Start(req.message.value, j)
  PROVE  LET a == IF text = <<>> THEN g ELSE GateFeed(g, sanitize_dashes(text), req.correct)
             h == IF d THEN GateFinish(a, req.correct) ELSE a
         IN  /\ Position(req, j, c1, d, h) /\ h \in GateState
             /\ Grown(g.released, h.released, req.correct)
<1> DEFINE v == req.message.value
           ok == req.correct
           x == sanitize_dashes(text)
           a == IF text = <<>> THEN g ELSE GateFeed(g, x, ok)
           h == IF d THEN GateFinish(a, ok) ELSE a
<1>0. ok \in BOOLEAN /\ v \in Seq(Letters) /\ Len(v) \in Nat /\ k \in 0..Len(v) /\ j \in 0..Len(v)
  BY RequestIs DEF Position
<1>1. /\ Fed(g) /\ Drained(g) /\ View(g, ok) = Heeded(req, k) /\ g \in GateState
      /\ Grown(<<>>, g.released, ok)
      /\ \A i \in 1..Len(g.released) : Last(g.released[i]) = "."
  BY DEF Position, Fed
<1>2. Heeded(req, j) = ReadOn(Heeded(req, k), text, ok) /\ Heeded(req, k) \in Reading /\ Heeded(req, j) \in Reading
  <2>1. From(<<>>) \in Reading
    BY FromTyped, EmptySeq
  <2>2. Heard(v, k) \in Text
    BY <1>0, HeardIs
  <2> DEFINE f == From(<<>>)
             y == Heard(v, k)
  <2>3. f \in Reading /\ y \in Text /\ Heard(v, j) = y \o text
    BY <2>1, <2>2
  <2> HIDE DEF f, y
  <2>4. ReadOn(f, y \o text, ok) = ReadOn(ReadOn(f, y, ok), text, ok)
    BY <1>0, <2>3, ReadOnConcat
  <2>5. Heeded(req, k) = ReadOn(f, y, ok) /\ Heeded(req, j) = ReadOn(f, Heard(v, j), ok)
    BY DEF Heeded, f, y
  <2>6. Heeded(req, k) \in Reading /\ Heeded(req, j) \in Reading
    BY <1>0, RequestIs
  <2>. QED BY <2>3, <2>4, <2>5, <2>6
<1>3. /\ Fed(a) /\ Drained(a) /\ View(a, ok) = Heeded(req, j)
      /\ Grown(g.released, a.released, ok) /\ Ended(g.released, a.released)
  <2>0. g.released \in Seq(Text)
    BY <1>1 DEF GateState
  <2>1. CASE text = <<>>
    <3>1. a = g /\ ReadOn(Heeded(req, k), text, ok) = Heeded(req, k)
      BY <1>0, <1>2, <2>1, ReadOnEmpty
    <3> HIDE DEF a
    <3>. QED BY <1>1, <1>2, <2>0, <3>1, GrownSame
  <2>2. CASE text # <<>>
    <3>1. x \in CleanText /\ ReadOn(View(g, ok), x, ok) = ReadOn(View(g, ok), text, ok)
      BY <1>0, <1>1, <1>2, SanitizeIs
    <3> DEFINE b == GateFeed(g, x, ok)
    <3> HIDE DEF x
    <3>2. /\ Fed(b) /\ Drained(b) /\ View(b, ok) = ReadOn(View(g, ok), x, ok)
          /\ Grown(g.released, b.released, ok) /\ Ended(g.released, b.released)
      BY <1>0, <1>1, <3>1, GateFeedIs
    <3>3. a = b
      BY <2>2 DEF x
    <3> HIDE DEF a, b
    <3>. QED BY <1>1, <1>2, <3>1, <3>2, <3>3
  <2>. QED BY <2>1, <2>2
<1> HIDE DEF a, x
<1>4. a \in GateState /\ a.released \in Seq(Text) /\ g.released \in Seq(Text) /\ <<>> \in Seq(Text)
  <2>1. a \in GateState /\ a.released \in Seq(Text) /\ g.released \in Seq(Text)
    BY <1>1, <1>3 DEF Fed, GateState
  <2>. QED BY <2>1, EmptySeq
<1>5. Grown(<<>>, a.released, ok)
  BY <1>1, <1>3, <1>4, GrownTransitive
<1>6. \A i \in 1..Len(a.released) : Last(a.released[i]) = "."
  <2> TAKE i \in 1..Len(a.released)
  <2> DEFINE n == Len(g.released)
             l == Len(a.released)
  <2>1. n \in Nat /\ l \in Nat /\ i \in 1..l
    BY <1>4, LenProperties
  <2> HIDE DEF n, l
  <2>2. i \in 1..n \/ i \in (n + 1)..l
    BY <2>1
  <2>3. CASE i \in 1..n
    BY <1>1, <1>3, <2>3 DEF n, Grown
  <2>4. CASE i \in (n + 1)..l
    BY <1>3, <2>4 DEF n, l, Ended
  <2>. QED BY <2>2, <2>3, <2>4
<1>7. View(a, ok).out = Read(a.released) /\ View(a, ok).failure = a.failure
  BY <1>0, <1>3, DrainedView DEF ViewIsRead
<1>8. CASE ~ d
  <2>1. h = a
    BY <1>8
  <2>2. Result(req, j, d) = Heeded(req, j)
    BY <1>8 DEF Result
  <2>3. a.closed => a.failure # "none"
    BY <1>3 DEF Fed
  <2> HIDE DEF h
  <2>4. Position(req, j, c1, d, h)
    BY <1>0, <1>3, <1>5, <1>6, <1>7, <1>8, <2>1, <2>2, <2>3 DEF Position
  <2>. QED BY <1>3, <1>4, <2>1, <2>4 DEF h, a, x
<1>9. CASE d
  <2>1. h = GateFinish(a, ok)
    BY <1>9
  <2>2. Result(req, j, d) = Judged(View(a, ok), ok)
    BY <1>3, <1>9 DEF Result
  <2> HIDE DEF h
  <2>3. /\ h \in GateState /\ h.closed
        /\ Read(h.released) = Result(req, j, d).out /\ h.failure = Result(req, j, d).failure
        /\ Grown(a.released, h.released, ok)
        /\ \A i \in 1..(Len(h.released) - 1) : i \in 1..Len(a.released)
    BY <1>0, <1>3, <2>1, <2>2, FinishIs
  <2>4. h.released \in Seq(Text)
    BY <2>3 DEF GateState
  <2>5. Grown(<<>>, h.released, ok) /\ Grown(g.released, h.released, ok)
    BY <1>3, <1>4, <1>5, <2>3, <2>4, GrownTransitive
  <2>6. ASSUME NEW i \in 1..Len(h.released), i < Len(h.released) PROVE Last(h.released[i]) = "."
    <3> DEFINE n == Len(h.released)
    <3>1. n \in Nat
      BY <2>4, LenProperties
    <3> HIDE DEF n
    <3>2. i \in 1..(n - 1)
      BY <2>6, <3>1 DEF n
    <3>3. i \in 1..Len(a.released)
      BY <2>3, <3>2 DEF n
    <3>. QED BY <1>6, <2>3, <3>3 DEF Grown
  <2>7. Position(req, j, c1, d, h)
    BY <1>0, <1>9, <2>3, <2>5, <2>6 DEF Position
  <2>. QED BY <2>3, <2>5, <2>7 DEF h, a, x
<1>. QED BY <1>8, <1>9

\* A stream that ends leaves what was shown.
LEMMA PositionEnds ==
  ASSUME NEW req \in Requests, NEW k, NEW c, NEW d \in BOOLEAN, NEW g, NEW h,
         Position(req, k, c, d, g), g.closed \in BOOLEAN,
         h.released = g.released, h.closed = TRUE,
         h.failure = IF g.failure = "none" /\ ~ g.closed THEN "incomplete" ELSE g.failure
  PROVE  Position(req, k, c, d, h)
<1>1. CASE g.closed
  BY <1>1 DEF Position
<1>2. CASE ~ g.closed
  <2>1. g.failure = "none"
    BY <1>2 DEF Position, Fed
  <2>2. h.failure = "incomplete"
    BY <1>2, <2>1
  <2>. QED BY <2>2 DEF Position
<1>. QED BY <1>1, <1>2

----------------------------------------------------------------------------
(* The invariant                                                           *)

\* What may be kept for the next request.
Kept(req) ==
  {t \in {sanitize_dashes(Plain(req.message.value))} : ExplanationFailure(t, req.correct) = "none"}

\* The invariant: the gate has come to the reading of a number of symbols of the
\* value, the streamer stands after them, and only an answer whose value is done
\* and on which the gate found nothing is faultless.
StreamInv ==
  /\ request \in Requests
  /\ pos \in 0..Len(Raw(request.message))
  /\ cursor \in 0..(pos + 1)
  /\ done \in BOOLEAN /\ closed \in BOOLEAN
  /\ pending \in CleanText /\ released \in Seq(Text) /\ failure \in GateFailures \cup {"incomplete"}
  /\ deltas = released
  /\ \E k \in 0..Len(request.message.value) : Position(request, k, cursor, done, TheGate)
  /\ cache \subseteq Kept(request)
  /\ finals # <<>> =>
       \E f : /\ finals = <<f>>
              /\ f.outcome = "none" /\ f.valid => done /\ closed /\ failure = "none"

\* Sentences shown one by one add up to what was released.
LEMMA GrownSplit ==
  ASSUME NEW a \in Seq(Text), NEW b \in Seq(Text), NEW correct, Grown(a, b, correct)
  PROVE  a \o SubSeq(b, Len(a) + 1, Len(b)) = b
<1> DEFINE n == Len(a)
           l == Len(b)
<1>1. n \in Nat /\ l \in Nat /\ n <= l /\ \A i \in 1..n : b[i] = a[i]
  BY LenProperties DEF Grown
<1> HIDE DEF n, l
<1>2. a = SubSeq(b, 1, n)
  <2>1. \A i \in 1..n : b[i] \in Text
    BY <1>1, ElementOfSeq DEF l, n
  <2>2. /\ SubSeq(b, 1, n) \in Seq(Text)
        /\ Len(SubSeq(b, 1, n)) = IF 1 <= n THEN n - 1 + 1 ELSE 0
        /\ \A i \in 1..(n - 1 + 1) : SubSeq(b, 1, n)[i] = b[1 + i - 1]
    BY <1>1, <2>1, SubSeqProperties
  <2> DEFINE c == SubSeq(b, 1, n)
  <2> HIDE DEF c
  <2>3. c \in Seq(Text) /\ Len(c) = n /\ \A i \in 1..n : c[i] = a[i]
    BY <1>1, <2>2 DEF c
  <2>4. a = c
    BY <2>3, SeqEqual DEF n
  <2>. QED BY <2>4 DEF c
<1>3. SubSeq(b, 1, n) \o SubSeq(b, n + 1, l) = SubSeq(b, 1, l)
  <2>1. 1 \in 1..(Len(b) + 1) /\ n \in (1 - 1)..Len(b) /\ l \in n..Len(b)
    BY <1>1 DEF l
  <2>. QED BY <2>1, ConcatAdjacentSubSeq
<1>4. SubSeq(b, 1, l) = b
  BY SubSeqFull DEF l
<1>. QED BY <1>2, <1>3, <1>4 DEF n, l

\* The invariant holds at first.
LEMMA StreamInvInit == Init => StreamInv
<1> SUFFICES ASSUME Init PROVE StreamInv
  OBVIOUS
<1>1. request \in Requests
  BY DEF Init, Requests
<1>2. Position(request, 0, 0, FALSE, NewGate)
  BY <1>1, PositionStarts
<1>3. TheGate = NewGate /\ cursor = 0 /\ done = FALSE /\ pos = 0
  BY DEF Init, TheGate, NewGate
<1>4. 0 \in 0..Len(request.message.value) /\ Len(Raw(request.message)) \in Nat
  <2>1. request.message \in Messages /\ Len(request.message.value) \in Nat
    BY <1>1, RequestIs
  <2>2. Len(Raw(request.message)) \in Nat
    BY <2>1, RawIs
  <2> DEFINE n == Len(request.message.value)
  <2> HIDE DEF n
  <2>3. n \in Nat
    BY <2>1 DEF n
  <2>4. 0 \in 0..n
    BY <2>3
  <2>. QED BY <2>2, <2>4 DEF n
<1>5. <<>> \in CleanText
  BY EmptySeq DEF CleanText
<1>6. <<>> \in Seq(Text)
  BY EmptySeq
<1>7. pos \in 0..Len(Raw(request.message)) /\ cursor \in 0..(pos + 1)
  BY <1>3, <1>4
<1>8. pending = <<>> /\ released = <<>> /\ failure = "none" /\ closed = FALSE
      /\ deltas = <<>> /\ finals = <<>> /\ cache = {}
  BY DEF Init
<1>. QED BY <1>1, <1>2, <1>3, <1>4, <1>5, <1>6, <1>7, <1>8 DEF StreamInv, GateFailures

\* What the streamer finds in the symbols that have arrived.
LEMMA StreamerIs ==
  ASSUME NEW b \in 0..Len(Raw(request.message)), NEW k,
         request \in Requests, pos \in Nat, pos <= b, cursor \in 0..(pos + 1), done = FALSE,
         Position(request, k, cursor, FALSE, TheGate)
  PROVE  LET fed == StreamerFeed(SubSeq(Raw(request.message), 1, b))
             v == request.message.value
         IN  /\ fed.text \in Text /\ fed.cursor \in 0..(b + 1) /\ fed.done \in BOOLEAN
             /\ \/ fed = [text |-> <<>>, cursor |-> cursor, done |-> FALSE]
                \/ \E j \in k..Len(v) :
                     /\ Heard(v, j) = Heard(v, k) \o fed.text
                     /\ fed.done => j = Len(v)
                     /\ ~ fed.done => fed.cursor = Start(v, j)
<1> DEFINE m == request.message
           v == m.value
           buffer == SubSeq(Raw(m), 1, b)
           start == IF cursor = 0 THEN FieldStart(buffer) ELSE cursor
           fed == StreamerFeed(buffer)
           idle == [text |-> <<>>, cursor |-> cursor, done |-> FALSE]
<1>0. /\ m \in Messages /\ v \in Seq(Letters) /\ Len(v) \in Nat /\ k \in 0..Len(v)
      /\ Len(Raw(m)) \in Nat /\ b \in Nat /\ Start(v, 0) = 3
      /\ cursor = Start(v, k) \/ (cursor = 0 /\ k = 0)
      /\ Start(v, k) >= 3 /\ Start(v, k) \in Nat
  <2>1. m \in Messages /\ v \in Seq(Letters) /\ Len(v) \in Nat
    BY RequestIs
  <2>2. k \in 0..Len(v) /\ (cursor = Start(v, k) \/ (cursor = 0 /\ k = 0))
    BY DEF Position
  <2>3. Len(Raw(m)) \in Nat /\ Start(v, 0) = 3 /\ Start(v, k) >= 3 /\ Start(v, k) \in Nat
    BY <2>1, <2>2, RawIs
  <2> DEFINE l == Len(Raw(m))
  <2>4. b \in 0..l /\ l \in Nat
    BY <2>3
  <2> HIDE DEF l
  <2>5. b \in Nat
    BY <2>4
  <2>. QED BY <2>1, <2>2, <2>3, <2>5
<1>1. Len(buffer) = b
  <2> DEFINE raw == Raw(m)
  <2>1. raw \in Seq(Signs) /\ Len(raw) \in Nat /\ b \in 0..Len(raw)
    BY <1>0, RawIs
  <2> HIDE DEF raw
  <2>2. \A i \in 1..b : raw[i] \in Signs
    <3>1. \A i \in 1..b : i \in 1..Len(raw)
      BY <2>1
    <3>. QED BY <2>1, <3>1, ElementOfSeq
  <2>3. Len(SubSeq(raw, 1, b)) = IF 1 <= b THEN b - 1 + 1 ELSE 0
    BY <1>0, <2>1, <2>2, SubSeqProperties
  <2>. QED BY <1>0, <2>3 DEF raw
<1>2. fed = IF start = 0 THEN idle ELSE Decoded(buffer, start)
  BY DEF StreamerFeed
<1> HIDE DEF buffer, fed, m, v
<1>3. CASE start = 0
  <2>1. <<>> \in Text
    BY ShortTexts
  <2>2. fed = idle
    BY <1>2, <1>3
  <2> HIDE DEF start, idle
  <2>3. idle.text = <<>> /\ idle.cursor = cursor /\ idle.done = FALSE
    BY DEF idle
  <2>4. cursor \in 0..(b + 1)
    BY <1>0
  <2>5. fed.text \in Text /\ fed.cursor \in 0..(b + 1) /\ fed.done \in BOOLEAN
    BY <2>1, <2>2, <2>3, <2>4
  <2>. QED BY <2>2, <2>5 DEF fed, buffer, m, idle
<1>4. CASE start # 0
  <2>1. start = Start(v, k) /\ start <= b + 1
    <3>1. CASE cursor = 0
      <4>1. FieldStart(buffer) = (IF b >= 2 THEN 3 ELSE 0)
        BY <1>1 DEF FieldStart
      <4>2. b >= 2 /\ start = 3 /\ k = 0
        BY <1>0, <1>4, <3>1, <4>1
      <4>3. 3 <= b + 1
        BY <1>0, <4>2
      <4>. QED BY <1>0, <4>2, <4>3
    <3>2. CASE cursor # 0
      <4>1. start = cursor /\ cursor = Start(v, k)
        BY <1>0, <3>2
      <4>2. cursor <= b + 1
        BY <1>0
      <4>. QED BY <4>1, <4>2
    <3>. QED BY <3>1, <3>2
  <2>2. fed = Decoded(buffer, Start(v, k))
    BY <1>2, <1>4, <2>1
  <2> HIDE DEF start
  <2>3. Start(v, k) <= b + 1
    BY <2>1
  <2> DEFINE d == Decoded(buffer, Start(v, k))
  <2>4. /\ d.text \in Text /\ d.cursor \in 0..(b + 1) /\ d.done \in BOOLEAN
        /\ \E j \in k..Len(v) : /\ Heard(v, j) = Heard(v, k) \o d.text
                                /\ d.done => j = Len(v)
                                /\ ~ d.done => d.cursor = Start(v, j)
    <3>1. m \in Messages /\ b \in 0..Len(Raw(m)) /\ k \in 0..Len(m.value) /\ Start(m.value, k) <= b + 1
      BY <1>0, <2>3 DEF m, v
    <3>. QED BY <3>1, DecodedIs DEF buffer, v
  <2> HIDE DEF d
  <2>5. fed = d
    BY <2>2 DEF d
  <2>. QED BY <2>4, <2>5 DEF fed, buffer, m, v
<1>. QED BY <1>3, <1>4

\* A piece keeps the invariant, and adds to what is shown.
LEMMA StreamInvPiece ==
  ASSUME StreamInv, NEW n \in 1..MaxPiece, Piece(n)
  PROVE  /\ StreamInv'
         /\ Grown(deltas, deltas', request.correct)
<1> DEFINE ok == request.correct
           buffer == SubSeq(Raw(request.message), 1, pos + n)
           fed == StreamerFeed(buffer)
           afterFeed == IF fed.text = <<>> THEN TheGate
                        ELSE GateFeed(TheGate, sanitize_dashes(fed.text), ok)
           g == IF fed.done THEN GateFinish(afterFeed, ok) ELSE afterFeed
           b == pos + n
           l == Len(Raw(request.message))
<1>0. /\ request \in Requests /\ request.message \in Messages /\ ok \in BOOLEAN
      /\ l \in Nat /\ n \in Nat /\ n >= 1
  <2>1. request \in Requests
    BY DEF StreamInv
  <2>2. request.message \in Messages /\ ok \in BOOLEAN
    BY <2>1, RequestIs
  <2>3. l \in Nat
    BY <2>2, RawIs
  <2>. QED BY <2>1, <2>2, <2>3, StreamAssumption
<1>1. /\ pos \in 0..l /\ cursor \in 0..(pos + 1)
      /\ done \in BOOLEAN /\ closed \in BOOLEAN
      /\ pending \in CleanText /\ released \in Seq(Text) /\ failure \in GateFailures \cup {"incomplete"}
      /\ deltas = released
      /\ cache \subseteq Kept(request)
  BY DEF StreamInv
<1>2. PICK k \in 0..Len(request.message.value) : Position(request, k, cursor, done, TheGate)
  BY DEF StreamInv
<1>3. /\ finals = <<>> /\ pos' = b /\ request' = request /\ finals' = finals /\ cache' = cache
      /\ b <= l
      /\ closed => UNCHANGED <<cursor, done, gate, deltas>>
      /\ ~ closed => /\ cursor' = fed.cursor
                     /\ done' = fed.done
                     /\ GateBecomes(g)
                     /\ deltas' = deltas \o SubSeq(g.released, Len(released) + 1, Len(g.released))
  BY DEF Piece
<1> HIDE DEF fed, afterFeed, g
<1>4. b \in 0..l /\ pos \in Nat /\ pos <= b /\ cursor \in Nat /\ \A i \in 0..(pos + 1) : i \in 0..(b + 1)
  <2> HIDE DEF l
  <2>. QED BY <1>0, <1>1, <1>3
<1>5. pos' \in 0..Len(Raw(request.message))' /\ Kept(request)' = Kept(request)
  BY <1>3, <1>4 DEF Kept
<1>6. CASE closed
  <2>1. /\ cursor' = cursor /\ done' = done /\ pending' = pending /\ released' = released
        /\ failure' = failure /\ closed' = closed /\ deltas' = deltas
    BY <1>3, <1>6 DEF gate
  <2>2. TheGate' = TheGate
    BY <2>1 DEF TheGate
  <2>3. Position(request', k, cursor', done', TheGate')
    BY <1>2, <1>3, <2>1, <2>2
  <2>4. cursor' \in 0..(pos' + 1)
    BY <1>1, <1>3, <1>4, <2>1
  <2>5. StreamInv'
    BY <1>0, <1>1, <1>2, <1>3, <1>5, <2>1, <2>3, <2>4 DEF StreamInv
  <2>6. Grown(deltas, deltas', ok)
    BY <1>1, <2>1, GrownSame
  <2>. QED BY <2>5, <2>6
<1>7. CASE ~ closed
  <2>0. TheGate.closed = FALSE /\ TheGate.released = released
    BY <1>1, <1>7 DEF TheGate
  <2>1. done = FALSE
    BY <1>1, <1>2, <2>0 DEF Position
  <2>2. Position(request, k, cursor, FALSE, TheGate)
    BY <1>2, <2>1
  <2>3. /\ fed.text \in Text /\ fed.cursor \in 0..(b + 1) /\ fed.done \in BOOLEAN
        /\ \/ fed = [text |-> <<>>, cursor |-> cursor, done |-> FALSE]
           \/ \E j \in k..Len(request.message.value) :
                /\ Heard(request.message.value, j) = Heard(request.message.value, k) \o fed.text
                /\ fed.done => j = Len(request.message.value)
                /\ ~ fed.done => fed.cursor = Start(request.message.value, j)
    BY <1>0, <1>1, <1>4, <2>1, <2>2, StreamerIs DEF fed
  <2>4. \E j \in 0..Len(request.message.value) :
          /\ Position(request, j, fed.cursor, fed.done, g) /\ g \in GateState
          /\ Grown(released, g.released, ok)
    <3>1. CASE fed = [text |-> <<>>, cursor |-> cursor, done |-> FALSE]
      <4>1. fed.text = <<>> /\ fed.cursor = cursor /\ fed.done = FALSE
        BY <3>1
      <4>2. g = TheGate
        BY <4>1 DEF g, afterFeed
      <4>3. g \in GateState
        BY <2>0, <2>2, <4>2 DEF Position, Fed
      <4>. QED BY <1>1, <1>2, <2>0, <2>1, <4>1, <4>2, <4>3, GrownSame
    <3>2. ASSUME NEW j \in k..Len(request.message.value),
                 /\ Heard(request.message.value, j) = Heard(request.message.value, k) \o fed.text
                 /\ fed.done => j = Len(request.message.value)
                 /\ ~ fed.done => fed.cursor = Start(request.message.value, j)
          PROVE  /\ j \in 0..Len(request.message.value)
                 /\ Position(request, j, fed.cursor, fed.done, g) /\ g \in GateState
                 /\ Grown(released, g.released, ok)
      <4>1. j \in 0..Len(request.message.value)
        BY <1>2
      <4>2. /\ Position(request, j, fed.cursor, fed.done, g) /\ g \in GateState
            /\ Grown(TheGate.released, g.released, ok)
        BY <1>0, <2>0, <2>2, <2>3, <3>2, PositionMoves DEF g, afterFeed
      <4>. QED BY <2>0, <4>1, <4>2
    <3>. QED BY <2>3, <3>1, <3>2
  <2>5. PICK j \in 0..Len(request.message.value) :
          /\ Position(request, j, fed.cursor, fed.done, g) /\ g \in GateState
          /\ Grown(released, g.released, ok)
    BY <2>4
  <2>6. /\ cursor' = fed.cursor /\ done' = fed.done /\ pending' = g.pending /\ released' = g.released
        /\ failure' = g.failure /\ closed' = g.closed
        /\ deltas' = deltas \o SubSeq(g.released, Len(released) + 1, Len(g.released))
    BY <1>3, <1>7 DEF GateBecomes
  <2>7. /\ g.pending \in CleanText /\ g.released \in Seq(Text) /\ g.failure \in GateFailures
        /\ g.closed \in BOOLEAN
        /\ g = [pending |-> g.pending, released |-> g.released, failure |-> g.failure, closed |-> g.closed]
    BY <2>5 DEF GateState
  <2>8. TheGate' = g
    BY <2>6, <2>7 DEF TheGate
  <2>9. deltas' = g.released
    BY <1>1, <2>5, <2>6, <2>7, GrownSplit
  <2>10. Position(request', j, cursor', done', TheGate')
    BY <1>3, <2>5, <2>6, <2>8
  <2>11. cursor' \in 0..(pos' + 1)
    BY <1>3, <2>3, <2>6
  <2>12. StreamInv'
    BY <1>0, <1>1, <1>3, <1>5, <2>3, <2>5, <2>6, <2>7, <2>9, <2>10, <2>11 DEF StreamInv
  <2>13. Grown(deltas, deltas', ok)
    BY <1>1, <2>5, <2>9
  <2>. QED BY <2>12, <2>13
<1>. QED BY <1>6, <1>7

\* The end of a stream keeps the invariant.
LEMMA StreamInvEnd ==
  ASSUME StreamInv, NEW err \in {"none", "error", "timeout"}, NEW truncated \in BOOLEAN,
         End(err, truncated)
  PROVE  StreamInv'
<1> DEFINE f == Final(err, truncated)
           ok == request.correct
           t == sanitize_dashes(Plain(request.message.value))
<1>1. /\ request \in Requests
      /\ pos \in 0..Len(Raw(request.message)) /\ cursor \in 0..(pos + 1)
      /\ done \in BOOLEAN /\ closed \in BOOLEAN
      /\ pending \in CleanText /\ released \in Seq(Text) /\ failure \in GateFailures \cup {"incomplete"}
      /\ deltas = released
      /\ cache \subseteq Kept(request)
  BY DEF StreamInv
<1>2. PICK k \in 0..Len(request.message.value) : Position(request, k, cursor, done, TheGate)
  BY DEF StreamInv
<1>3. /\ closed' = TRUE /\ failure' = IF failure = "none" /\ ~ closed THEN "incomplete" ELSE failure
      /\ finals' = <<f>>
      /\ cache' = IF f.valid THEN {t} ELSE cache
      /\ request' = request /\ pos' = pos /\ cursor' = cursor /\ done' = done
      /\ pending' = pending /\ released' = released /\ deltas' = deltas
  BY DEF End, streamer
<1>4. f.valid => /\ FieldFailures(request.message, ok) = {}
                 /\ (IF failure = "none" /\ ~ closed THEN "incomplete" ELSE failure) = "none"
  BY DEF Final
<1>5. f.valid => ExplanationFailure(t, ok) = "none"
  BY <1>4 DEF FieldFailures
<1>6. f.valid => closed /\ failure = "none" /\ done
  <2>1. f.valid => closed /\ failure = "none"
    BY <1>1, <1>4
  <2>2. closed /\ failure = "none" => done
    BY <1>1, <1>2 DEF Position, TheGate
  <2>. QED BY <2>1, <2>2
<1> HIDE DEF f, t
<1>7. cache' \subseteq Kept(request)
  BY <1>1, <1>3, <1>5 DEF Kept, t
<1>8. Position(request, k, cursor, done, TheGate')
  <2>1. /\ TheGate.closed \in BOOLEAN
        /\ TheGate'.released = TheGate.released /\ TheGate'.closed = TRUE
        /\ TheGate'.failure = IF TheGate.failure = "none" /\ ~ TheGate.closed THEN "incomplete"
                              ELSE TheGate.failure
    BY <1>1, <1>3 DEF TheGate
  <2>2. ASSUME NEW h, h.released = TheGate.released, h.closed = TRUE,
               h.failure = IF TheGate.failure = "none" /\ ~ TheGate.closed THEN "incomplete"
                           ELSE TheGate.failure
        PROVE  Position(request, k, cursor, done, h)
    BY <1>1, <1>2, <2>1, <2>2, PositionEnds
  <2>. QED BY <2>1, <2>2
<1>9. Position(request', k, cursor', done', TheGate') /\ Kept(request') = Kept(request)
  BY <1>3, <1>8
<1>10. finals' = <<f>> /\ (f.outcome = "none" /\ f.valid => done' /\ closed' /\ failure' = "none")
  BY <1>3, <1>6
<1>11. failure' \in GateFailures \cup {"incomplete"}
  BY <1>1, <1>3
<1>. QED BY <1>1, <1>2, <1>3, <1>7, <1>9, <1>10, <1>11 DEF StreamInv

\* A later request keeps the invariant.
LEMMA StreamInvAsk ==
  ASSUME StreamInv, NEW expired \in BOOLEAN, Ask(expired)
  PROVE  StreamInv'
<1> DEFINE h == Hit(CHOOSE text \in cache : TRUE)
<1>1. /\ cache' = IF expired THEN {} ELSE cache
      /\ finals' = IF expired THEN <<>> ELSE <<h>>
      /\ pos' = 0 /\ cursor' = 0 /\ done' = FALSE
      /\ pending' = <<>> /\ released' = <<>> /\ failure' = "none" /\ closed' = FALSE
      /\ deltas' = <<>> /\ request' = request
  BY DEF Ask
<1>2. h.outcome = "cache"
  BY DEF Hit
<1> HIDE DEF h
<1>3. request \in Requests /\ cache \subseteq Kept(request)
  BY DEF StreamInv
<1>4. Position(request', 0, cursor', done', TheGate')
  <2>1. Position(request, 0, 0, FALSE, NewGate)
    BY <1>3, PositionStarts
  <2>2. TheGate' = NewGate
    BY <1>1 DEF TheGate, NewGate
  <2>. QED BY <1>1, <2>1, <2>2
<1>5. 0 \in 0..Len(request'.message.value) /\ 0 \in 0..Len(Raw(request'.message))
  <2> DEFINE n == Len(request.message.value)
             l == Len(Raw(request.message))
  <2>1. request.message \in Messages /\ n \in Nat
    BY <1>3, RequestIs
  <2>2. l \in Nat
    BY <2>1, RawIs
  <2> HIDE DEF n, l
  <2>3. 0 \in 0..n /\ 0 \in 0..l
    BY <2>1, <2>2
  <2>. QED BY <1>1, <2>3 DEF n, l
<1>6. <<>> \in CleanText
  BY EmptySeq DEF CleanText
<1>7. <<>> \in Seq(Text)
  BY EmptySeq
<1>8. cache' \subseteq Kept(request')
  BY <1>1, <1>3
<1>9. finals' # <<>> => finals' = <<h>>
  BY <1>1
<1>10. pos' \in 0..Len(Raw(request'.message)) /\ cursor' \in 0..(pos' + 1)
  BY <1>1, <1>5
<1>11. h.outcome # "none"
  BY <1>2
<1>12. \E k \in 0..Len(request'.message.value) : Position(request', k, cursor', done', TheGate')
  BY <1>4, <1>5
<1>13. finals' # <<>> => \E f : /\ finals' = <<f>>
                                /\ f.outcome = "none" /\ f.valid => done' /\ closed' /\ failure' = "none"
  BY <1>9, <1>11
<1>14. failure' \in GateFailures \cup {"incomplete"}
  BY <1>1 DEF GateFailures
<1>. QED BY <1>1, <1>3, <1>6, <1>7, <1>8, <1>10, <1>12, <1>13, <1>14 DEF StreamInv

\* Every step keeps the invariant.
LEMMA StreamInvNext == StreamInv /\ [Next]_vars => StreamInv'
<1> SUFFICES ASSUME StreamInv, [Next]_vars PROVE StreamInv'
  OBVIOUS
<1>1. ASSUME NEW n \in 1..MaxPiece, Piece(n) PROVE StreamInv'
  BY <1>1, StreamInvPiece
<1>2. ASSUME NEW err \in {"none", "error", "timeout"}, NEW truncated \in BOOLEAN, End(err, truncated)
      PROVE  StreamInv'
  BY <1>2, StreamInvEnd
<1>3. ASSUME NEW expired \in BOOLEAN, Ask(expired) PROVE StreamInv'
  BY <1>3, StreamInvAsk
<1>4. CASE UNCHANGED vars
  <2>1. /\ request' = request /\ pos' = pos /\ cursor' = cursor /\ done' = done
        /\ pending' = pending /\ released' = released /\ failure' = failure /\ closed' = closed
        /\ deltas' = deltas /\ finals' = finals /\ cache' = cache
    BY <1>4 DEF vars, streamer, gate, events
  <2>2. TheGate' = TheGate
    BY <2>1 DEF TheGate
  <2>. QED BY <2>1, <2>2 DEF StreamInv
<1>. QED BY <1>1, <1>2, <1>3, <1>4 DEF Next

\* The invariant holds in every state that can be reached.
LEMMA StreamInvAlways == Spec => []StreamInv
<1>. QED BY StreamInvInit, StreamInvNext, PTL DEF Spec

----------------------------------------------------------------------------
(* What is shown is checked                                                *)

\* The invariant gives the types, the cap on the sentences included.
LEMMA StreamTyped == StreamInv => TypeOK
<1> SUFFICES ASSUME StreamInv PROVE TypeOK
  OBVIOUS
<1>1. request \in [message : Messages, correct : Verdicts]
  BY DEF StreamInv, Requests
<1>2. Symbols(pending) \subseteq Letters \cup {"="}
  <2>1. pending \in CleanText
    BY DEF StreamInv
  <2>2. \A i \in 1..Len(pending) : pending[i] \in Alphabet \ {"-"}
    BY <2>1, ElementOfSeq DEF CleanText
  <2>. QED BY <2>2 DEF Symbols, Alphabet
<1>3. Len(released) <= MaxSentences
  <2> DEFINE n == Len(released)
  <2>1. n \in Nat
    BY LenProperties DEF StreamInv
  <2>2. Grown(<<>>, released, request.correct)
    BY DEF StreamInv, Position, TheGate
  <2>3. Len(<<>>) = 0 /\ (Len(<<>>) < n => n <= MaxSentences)
    BY <2>2 DEF Grown
  <2> HIDE DEF n
  <2>4. n <= MaxSentences
    BY <2>1, <2>3, StreamAssumption
  <2>. QED BY <2>4 DEF n
<1>4. failure \in {"none", "sentences", "self_correction", "answer_leak", "incomplete"}
  BY DEF StreamInv, GateFailures
<1>5. Len(finals) <= 1
  <2>1. CASE finals = <<>>
    BY <2>1
  <2>2. CASE finals # <<>>
    <3>1. PICK f : finals = <<f>>
      BY <2>2 DEF StreamInv
    <3>2. Len(<<f>>) = 1
      OBVIOUS
    <3>. QED BY <3>1, <3>2
  <2>. QED BY <2>1, <2>2
<1>6. Cardinality(cache) <= 1
  <2> DEFINE x == sanitize_dashes(Plain(request.message.value))
  <2>1. cache \subseteq {x}
    BY DEF StreamInv, Kept
  <2> HIDE DEF x
  <2>2. cache = {} \/ cache = {x}
    BY <2>1
  <2>3. Cardinality({}) = 0 /\ Cardinality({x}) = 1
    BY FS_EmptySet, FS_Singleton
  <2>. QED BY <2>2, <2>3
<1>7. /\ pos \in 0..Len(Raw(request.message)) /\ cursor \in 0..(pos + 1)
      /\ done \in BOOLEAN /\ closed \in BOOLEAN
  BY DEF StreamInv
<1>. QED BY <1>1, <1>2, <1>3, <1>4, <1>5, <1>6, <1>7 DEF TypeOK

\* The invariant gives that every sentence sent is fit.
LEMMA StreamSentSafely == StreamInv => SentSafely
<1> SUFFICES ASSUME StreamInv, NEW i \in DOMAIN deltas
             PROVE  /\ SentenceCheck(deltas[i], request.correct) = "none"
                    /\ i < Len(deltas) \/ ~ done => Last(deltas[i]) = "."
  BY DEF SentSafely
<1>1. deltas = released /\ released \in Seq(Text) /\ DOMAIN released = 1..Len(released)
  BY LenProperties DEF StreamInv
<1>2. PICK k : Position(request, k, cursor, done, TheGate)
  BY DEF StreamInv
<1>3. TheGate.released = released
  BY DEF TheGate
<1>4. i \in 1..Len(released)
  BY <1>1
<1>5. Fit(released[i], request.correct)
  <2>1. Grown(<<>>, released, request.correct)
    BY <1>2, <1>3 DEF Position
  <2>2. \A j \in (Len(<<>>) + 1)..Len(released) : Fit(released[j], request.correct)
    BY <2>1 DEF Grown
  <2>3. Len(<<>>) + 1 = 1
    OBVIOUS
  <2>. QED BY <1>4, <2>2, <2>3
<1>6. i < Len(released) \/ ~ done => Last(released[i]) = "."
  BY <1>2, <1>3, <1>4 DEF Position
<1>. QED BY <1>1, <1>5, <1>6 DEF Fit

\* What has been heard of the value is only added to.
LEMMA HeededStarts ==
  ASSUME NEW req \in Requests, NEW k \in 0..Len(req.message.value)
  PROVE  Starts(Heeded(req, k).out, Heeded(req, Len(req.message.value)).out)
<1> DEFINE n == Len(req.message.value)
           v == req.message.value
           O(j) == Heeded(req, j).out
           G == {d \in Nat : k + d <= n => Starts(O(k), O(k + d))}
<1>0. /\ n \in Nat /\ k \in 0..n /\ v \in Seq(Letters) /\ req.correct \in BOOLEAN
      /\ \A j \in 0..n : Heeded(req, j) \in Reading
  BY RequestIs
<1>1. \A j \in 0..n : O(j) \in Seq(Text)
  BY <1>0 DEF Reading
<1>2. ASSUME NEW j \in 0..n, j + 1 <= n PROVE Starts(O(j), O(j + 1))
  <2> DEFINE c == Plain(v)[j + 1]
             h == Heard(v, j)
             r == ReadOn(From(<<>>), h, req.correct)
  <2>0. j \in Nat
    BY <1>0
  <2>1. Heard(v, j + 1) = Append(h, c) /\ c \in Alphabet /\ h \in Text
    BY <1>0, <1>2, <2>0, HeardIs
  <2>2. From(<<>>) \in Reading
    BY FromTyped, EmptySeq
  <2> HIDE DEF c, h
  <2>3. ReadOn(From(<<>>), Append(h, c), req.correct) = ReadOne(r, c, req.correct) /\ r \in Reading
    BY <1>0, <2>1, <2>2, ReadOnAppend
  <2>4. Heeded(req, j) = r /\ Heeded(req, j + 1) = ReadOne(r, c, req.correct)
    BY <2>1, <2>3 DEF Heeded, h
  <2> HIDE DEF r
  <2>5. Starts(r.out, ReadOne(r, c, req.correct).out)
    BY <1>0, <2>1, <2>3, OutGrows
  <2>. QED BY <2>4, <2>5
<1> HIDE DEF n, v, O
<1>3. 0 \in G
  <2>1. k + 0 = k /\ Starts(O(k), O(k))
    BY <1>0, <1>1, StartsItself
  <2>. QED BY <2>1
<1>4. ASSUME NEW d \in Nat, d \in G PROVE d + 1 \in G
  <2> SUFFICES ASSUME k + (d + 1) <= n PROVE Starts(O(k), O(k + (d + 1)))
    BY <1>4
  <2>1. k + d \in 0..n /\ (k + d) + 1 <= n /\ k + (d + 1) = (k + d) + 1 /\ (k + d) + 1 \in 0..n
    BY <1>0
  <2>2. Starts(O(k), O(k + d))
    BY <1>4, <2>1
  <2>3. Starts(O(k + d), O((k + d) + 1))
    BY <1>2, <2>1
  <2>4. O(k) \in Seq(Text) /\ O(k + d) \in Seq(Text) /\ O((k + d) + 1) \in Seq(Text)
    BY <1>0, <1>1, <2>1
  <2>5. Starts(O(k), O((k + d) + 1))
    BY <2>2, <2>3, <2>4, StartsTransitive
  <2>. QED BY <2>1, <2>5
<1> HIDE DEF G
<1>5. \A d \in Nat : d \in G
  BY <1>3, <1>4, Induction
<1>6. n - k \in Nat /\ k + (n - k) = n
  BY <1>0
<1>7. n - k \in G
  BY <1>5, <1>6
<1>8. Starts(O(k), O(n))
  BY <1>6, <1>7 DEF G
<1>. QED BY <1>8 DEF O, n

\* A start is a prefix.
LEMMA StartsIsPrefix ==
  ASSUME NEW S, NEW a \in Seq(S), NEW b \in Seq(S), Starts(a, b)
  PROVE  IsPrefix(a, b)
<1> DEFINE n == Len(a)
           c == SubSeq(b, 1, n)
<1>1. n \in Nat /\ Len(b) \in Nat /\ n <= Len(b) /\ \A i \in 1..n : b[i] = a[i] /\ a[i] \in S
  BY LenProperties, ElementOfSeq DEF Starts
<1> HIDE DEF n
<1>2. /\ c \in Seq(S) /\ Len(c) = (IF 1 <= n THEN n - 1 + 1 ELSE 0)
      /\ \A i \in 1..(n - 1 + 1) : c[i] = b[1 + i - 1]
  BY <1>1, SubSeqProperties
<1> HIDE DEF c
<1>3. Len(c) = n /\ \A i \in 1..n : c[i] = a[i]
  BY <1>1, <1>2
<1>4. c = a
  BY <1>2, <1>3, SeqEqual DEF n
<1>5. SubSeq(a, 1, n) = a
  BY SubSeqFull DEF n
<1>. QED BY <1>1, <1>4, <1>5 DEF IsPrefix, c, n

\* The invariant gives that where the text is cut makes no difference.
LEMMA StreamCutAnywhere == StreamInv => CutAnywhere
<1> SUFFICES ASSUME StreamInv PROVE CutAnywhere
  OBVIOUS
<1> DEFINE v == request.message.value
           ok == request.correct
           n == Len(v)
           ref == Read(Reference(v, ok))
           full == Heeded(request, n)
           shown == Read(deltas)
<1>1. /\ request \in Requests /\ deltas \in Seq(Text) /\ deltas = released
      /\ v \in Seq(Letters) /\ ok \in BOOLEAN /\ n \in Nat
      /\ \A k \in 0..n : Heeded(request, k) \in Reading
  <2>1. request \in Requests /\ deltas \in Seq(Text) /\ deltas = released
    BY DEF StreamInv
  <2>. QED BY <2>1, RequestIs
<1>2. PICK k \in 0..n : Position(request, k, cursor, done, TheGate)
  BY DEF StreamInv
<1>3. ref = Judged(full, ok).out
  <2>1. Heard(v, n) = Plain(v)
    BY <1>1, HeardIs
  <2>. QED BY <1>1, <2>1, ReferenceIs DEF Heeded
<1>4. shown = Result(request, k, done).out
  <2>1. TheGate.released = released
    BY DEF TheGate
  <2>. QED BY <1>1, <1>2, <2>1 DEF Position
<1>5. Len(shown) = Len(deltas) /\ shown \in Seq(Text) /\ n \in 0..n /\ full \in Reading
  <2>0. <<>> \in Text
    BY ShortTexts
  <2>1. Len(shown) = Len(deltas) /\ shown \in Seq(Text)
    BY <1>1, <2>0, ReadAppend
  <2> HIDE DEF n, shown
  <2>2. n \in 0..n
    BY <1>1
  <2>. QED BY <1>1, <2>1, <2>2
<1>6. Judged(full, ok) \in Reading
  BY <1>1, <1>5, ReadingTypes
<1>7. full.out \in Seq(Text) /\ ref \in Seq(Text)
  BY <1>3, <1>5, <1>6 DEF Reading
<1> HIDE DEF v, n, ref, full, shown
<1>8. CASE done
  <2>1. k = n
    BY <1>2, <1>8 DEF Position, n, v
  <2>2. shown = ref
    BY <1>3, <1>4, <1>8, <2>1 DEF Result, full
  <2>3. IsPrefix(shown, ref)
    BY <1>5, <2>2, StartsItself, StartsIsPrefix
  <2>. QED BY <1>5, <2>2, <2>3 DEF CutAnywhere, ref, shown, v
<1>9. CASE ~ done
  <2>1. shown = Heeded(request, k).out
    BY <1>4, <1>9 DEF Result
  <2>2. Starts(shown, full.out)
    <3>1. k \in 0..Len(request.message.value)
      BY DEF n, v
    <3>2. Starts(Heeded(request, k).out, Heeded(request, Len(request.message.value)).out)
      BY <1>1, <3>1, HeededStarts
    <3>. QED BY <2>1, <3>2 DEF full, n, v
  <2>3. Starts(full.out, ref)
    BY <1>1, <1>3, <1>5, OutGrows
  <2>4. IsPrefix(shown, ref)
    BY <1>5, <1>7, <2>2, <2>3, StartsTransitive, StartsIsPrefix
  <2>. QED BY <1>9, <2>4 DEF CutAnywhere, ref, shown, v
<1>. QED BY <1>8, <1>9

\* However the model's text is cut into pieces, inside an escape, a dash or
\* the space after a full stop too, what the gate releases is what the whole
\* text gives, in order and to its end once the value is done; no sentence is
\* sent that breaks a rule, and none that was still being written; and never
\* more than the cap (feed and finish of both classes, _prediction_events).
THEOREM StreamShowsWhatIsChecked == Spec => []ShownIsChecked
<1>1. StreamInv => ShownIsChecked
  BY StreamTyped, StreamSentSafely, StreamCutAnywhere DEF ShownIsChecked
<1>. QED BY <1>1, StreamInvAlways, PTL

----------------------------------------------------------------------------
(* The stream implements its contract                                      *)

\* A reader of the contract sees a fit sentence for each one shown.
LEMMA SeenFit ==
  ASSUME NEW s \in Seq(Text), Grown(<<>>, s, request.correct)
  PROVE  /\ Seen(s) \in Seq({"fit"}) /\ Len(Seen(s)) = Len(s) /\ Len(s) \in Nat
         /\ \A i \in 1..Len(s) : Seen(s)[i] = "fit"
<1>1. Len(s) \in Nat /\ DOMAIN s = 1..Len(s)
  BY LenProperties
<1>2. ASSUME NEW i \in 1..Len(s) PROVE SentenceCheck(s[i], request.correct) = "none"
  <2>1. Len(<<>>) + 1 = 1
    OBVIOUS
  <2>. QED BY <2>1 DEF Grown, Fit
<1>3. Seen(s) = [i \in 1..Len(s) |-> "fit"]
  BY <1>1, <1>2 DEF Seen
<1>. QED BY <1>1, <1>3

\* Two sequences of one thing only, one after the other.
LEMMA SameConcat ==
  ASSUME NEW S, NEW x, NEW a \in Seq(S), NEW b \in Seq(S),
         \A i \in 1..Len(a) : a[i] = x, \A i \in 1..Len(b) : b[i] = x
  PROVE  /\ a \o b \in Seq(S) /\ Len(a \o b) = Len(a) + Len(b)
         /\ \A i \in 1..(Len(a) + Len(b)) : (a \o b)[i] = x
<1>1. Len(a) \in Nat /\ Len(b) \in Nat
  BY LenProperties
<1>2. /\ a \o b \in Seq(S) /\ Len(a \o b) = Len(a) + Len(b)
      /\ \A i \in 1..(Len(a) + Len(b)) : (a \o b)[i] = IF i <= Len(a) THEN a[i] ELSE b[i - Len(a)]
  BY ConcatProperties
<1>3. ASSUME NEW i \in 1..(Len(a) + Len(b)) PROVE (a \o b)[i] = x
  <2>1. i \in 1..Len(a) \/ (~ (i <= Len(a)) /\ i - Len(a) \in 1..Len(b))
    BY <1>1
  <2>. QED BY <1>2, <2>1
<1>. QED BY <1>2, <1>3

\* Nothing is shown at first.
LEMMA ContractStarts == Init => Contract!Init
<1> SUFFICES ASSUME Init PROVE Contract!Init
  OBVIOUS
<1>1. deltas = <<>> /\ finals = <<>>
  BY DEF Init
<1>2. Seen(<<>>) = <<>>
  BY DEF Seen
<1>. QED BY <1>1, <1>2 DEF Contract!Init, SeenFinal

\* A piece that completes sentences reveals them, any other is a stutter.
LEMMA ContractPiece ==
  ASSUME StreamInv, NEW n \in 1..MaxPiece, Piece(n)
  PROVE  Contract!Reveal \/ UNCHANGED Contract!contractVars
<1> DEFINE a == Seen(deltas)
           b == Seen(deltas')
           l == Len(deltas)
           m == Len(deltas')
<1>1. /\ StreamInv' /\ Grown(deltas, deltas', request.correct)
      /\ finals = <<>> /\ finals' = <<>> /\ request' = request
  BY StreamInvPiece DEF Piece
<1>2. deltas \in Seq(Text) /\ deltas' \in Seq(Text)
  BY <1>1 DEF StreamInv
<1>3. Grown(<<>>, deltas, request.correct) /\ Grown(<<>>, deltas', request.correct)
  <2>1. /\ TheGate.released = released /\ deltas = released
        /\ (TheGate.released = released)' /\ (deltas = released)'
    BY <1>1 DEF TheGate, StreamInv
  <2>. QED BY <1>1, <2>1 DEF StreamInv, Position
<1>4. /\ a \in Seq({"fit"}) /\ Len(a) = l /\ l \in Nat /\ \A i \in 1..l : a[i] = "fit"
      /\ b \in Seq({"fit"}) /\ Len(b) = m /\ m \in Nat /\ \A i \in 1..m : b[i] = "fit"
  BY <1>2, <1>3, SeenFit
<1>5. l <= m /\ (l < m => m <= MaxSentences) /\ \A i \in 1..l : deltas'[i] = deltas[i]
  BY <1>1 DEF Grown
<1>6. SeenFinal = "none" /\ SeenFinal' = "none" /\ Seen(deltas)' = b
  BY <1>1 DEF SeenFinal, Seen
<1>7. CASE l = m
  <2>1. \A i \in 1..l : a[i] = b[i]
    BY <1>4, <1>7
  <2> HIDE DEF a, b
  <2>2. a = b
    BY <1>4, <1>7, <2>1, SeqEqual
  <2>. QED BY <1>6, <2>2 DEF Contract!contractVars, a
<1>8. CASE l < m
  <2> DEFINE more == [i \in 1..(m - l) |-> "fit"]
  <2> HIDE DEF a, b, l, m
  <2>1. m - l \in 1..(MaxSentences - l) /\ m - l \in Nat
    BY <1>4, <1>5, <1>8, StreamAssumption
  <2>2. more \in [1..(m - l) -> {"fit"}] /\ more \in Seq({"fit"}) /\ Len(more) = m - l
        /\ \A i \in 1..(m - l) : more[i] = "fit"
    BY <2>1
  <2> HIDE DEF more
  <2>3. /\ a \o more \in Seq({"fit"}) /\ Len(a \o more) = m
        /\ \A i \in 1..m : (a \o more)[i] = "fit"
    <3> DEFINE F == {"fit"}
               x == "fit"
    <3>1. a \in Seq(F) /\ more \in Seq(F) /\ Len(a) = l /\ Len(more) = m - l /\ l + (m - l) = m
      BY <1>4, <2>2
    <3>2. (\A i \in 1..Len(a) : a[i] = x) /\ (\A i \in 1..Len(more) : more[i] = x)
      BY <1>4, <2>2
    <3> HIDE DEF F, x
    <3>3. /\ a \o more \in Seq(F) /\ Len(a \o more) = Len(a) + Len(more)
          /\ \A i \in 1..(Len(a) + Len(more)) : (a \o more)[i] = x
      BY <3>1, <3>2, SameConcat
    <3>. QED BY <3>1, <3>3 DEF F, x
  <2>4. b = a \o more
    <3> DEFINE c == a \o more
    <3>1. c \in Seq({"fit"}) /\ Len(b) = Len(c) /\ \A i \in 1..Len(b) : b[i] = c[i]
      BY <1>4, <2>3
    <3> HIDE DEF c
    <3>2. b = c
      BY <1>4, <3>1, SeqEqual
    <3>. QED BY <3>2 DEF c
  <2>5. b \in Contract!Longer(a)
    <3>1. more \in [1..(m - l) -> {"fit"}] /\ m - l \in 1..(MaxSentences - Len(a))
      BY <1>4, <2>1, <2>2
    <3>. QED BY <2>4, <3>1 DEF Contract!Longer
  <2>. QED BY <1>6, <2>5 DEF Contract!Reveal, a
<1>. QED BY <1>4, <1>5, <1>7, <1>8

\* The end of a stream is the final answer, which keeps what was shown.
LEMMA ContractEnd ==
  ASSUME StreamInv, NEW err \in {"none", "error", "timeout"}, NEW truncated \in BOOLEAN,
         End(err, truncated)
  PROVE  Contract!Conclude
<1> DEFINE f == Final(err, truncated)
<1>1. /\ finals = <<>> /\ finals' = <<f>> /\ deltas' = deltas /\ request' = request
      /\ deltas = released /\ deltas \in Seq(Text)
  BY DEF End, StreamInv
<1>2. Seen(deltas)' = Seen(deltas) /\ SeenFinal = "none"
  BY <1>1 DEF Seen, SeenFinal
<1>3. f.outcome = err /\ f.explanation = released
      /\ ("consequence_explanation" \in f.fallback => released = <<>>)
  BY DEF Final
<1> HIDE DEF f
<1>4. err # "cache" /\ finals'[1] = f /\ finals' # <<>>
  BY <1>1
<1>5. CASE "consequence_explanation" \in f.fallback
  <2>1. SeenFinal' = "fallback"
    BY <1>3, <1>4, <1>5 DEF SeenFinal
  <2>2. Seen(deltas) = <<>>
    BY <1>1, <1>3, <1>5 DEF Seen
  <2>. QED BY <1>2, <2>1, <2>2 DEF Contract!Conclude, Contract!Finals
<1>6. CASE "consequence_explanation" \notin f.fallback /\ released = <<>>
  <2>1. SeenFinal' = "empty"
    BY <1>3, <1>4, <1>6 DEF SeenFinal
  <2>2. Seen(deltas) = <<>>
    BY <1>1, <1>6 DEF Seen
  <2>. QED BY <1>2, <2>1, <2>2 DEF Contract!Conclude, Contract!Finals
<1>7. CASE "consequence_explanation" \notin f.fallback /\ released # <<>>
  <2>1. SeenFinal' = "shown"
    BY <1>1, <1>3, <1>4, <1>7 DEF SeenFinal
  <2>2. Seen(deltas) # <<>>
    <3>1. DOMAIN Seen(deltas) = DOMAIN deltas
      BY DEF Seen
    <3>2. DOMAIN deltas = 1..Len(deltas) /\ Len(deltas) \in Nat /\ Len(deltas) # 0
      BY <1>1, <1>7, EmptySeq, LenProperties
    <3>3. 1 \in DOMAIN deltas
      BY <3>2
    <3>4. DOMAIN <<>> = {}
      OBVIOUS
    <3>. QED BY <3>1, <3>3, <3>4
  <2>. QED BY <1>2, <2>1, <2>2 DEF Contract!Conclude, Contract!Finals
<1>. QED BY <1>5, <1>6, <1>7

\* A later request starts from nothing, or has its answer at once.
LEMMA ContractAsk ==
  ASSUME StreamInv, NEW expired \in BOOLEAN, Ask(expired)
  PROVE  Contract!Renew
<1> DEFINE h == Hit(CHOOSE text \in cache : TRUE)
<1>1. /\ finals # <<>> /\ deltas' = <<>>
      /\ finals' = IF expired THEN <<>> ELSE <<h>>
  BY DEF Ask
<1>2. h.outcome = "cache"
  BY DEF Hit
<1> HIDE DEF h
<1>3. Seen(deltas)' = <<>>
  BY <1>1 DEF Seen
<1>4. SeenFinal # "none"
  BY <1>1 DEF SeenFinal
<1>5. SeenFinal' \in {"kept", "fallback", "empty"} \cup {"none"}
  <2>1. CASE expired
    BY <1>1, <2>1 DEF SeenFinal
  <2>2. CASE ~ expired
    <3>1. finals' # <<>> /\ finals'[1] = h
      BY <1>1, <2>2
    <3>2. SeenFinal' = "kept"
      BY <1>2, <3>1 DEF SeenFinal
    <3>. QED BY <3>2
  <2>. QED BY <2>1, <2>2
<1>. QED BY <1>3, <1>4, <1>5 DEF Contract!Renew

\* Every step of the stream is a step of its contract, or a stutter.
LEMMA ContractStep == StreamInv /\ [Next]_vars => [Contract!Next]_(Contract!contractVars)
<1> SUFFICES ASSUME StreamInv, [Next]_vars PROVE [Contract!Next]_(Contract!contractVars)
  OBVIOUS
<1>1. ASSUME NEW n \in 1..MaxPiece, Piece(n) PROVE [Contract!Next]_(Contract!contractVars)
  BY <1>1, ContractPiece DEF Contract!Next
<1>2. ASSUME NEW err \in {"none", "error", "timeout"}, NEW truncated \in BOOLEAN, End(err, truncated)
      PROVE  [Contract!Next]_(Contract!contractVars)
  BY <1>2, ContractEnd DEF Contract!Next
<1>3. ASSUME NEW expired \in BOOLEAN, Ask(expired) PROVE [Contract!Next]_(Contract!contractVars)
  BY <1>3, ContractAsk DEF Contract!Next
<1>4. CASE UNCHANGED vars
  <2>1. deltas' = deltas /\ finals' = finals /\ request' = request
    BY <1>4 DEF vars, events
  <2>. QED BY <2>1 DEF Contract!contractVars, Seen, SeenFinal
<1>. QED BY <1>1, <1>2, <1>3, <1>4 DEF Next

\* The stream takes only the steps its contract allows: sentences are shown
\* that are fit and within the cap, none is taken back, and one final answer
\* follows, whose explanation is what was shown if anything was. That the
\* answer comes at all is liveness, and not part of this theorem.
THEOREM StreamImplementsContract ==
  Spec => Contract!Init /\ [][Contract!Next]_(Contract!contractVars)
<1>. QED BY ContractStarts, ContractStep, StreamInvAlways, PTL DEF Spec

----------------------------------------------------------------------------
(* What the cache keeps is what was shown                                  *)

\* One space.
Space == <<" ">>

\* The sentences of s with a space before each but the first.
Joined(s) == FlattenSeq([i \in DOMAIN s |-> IF i = 1 THEN s[1] ELSE Space \o s[i]])

\* A space is a text, and squeezes to itself.
LEMMA SpaceIs ==
  Space \in Text /\ Space # <<>> /\ Squeeze(Space) = Space /\ " " \in White /\ " " \in Alphabet
<1>1. Space \in Text /\ " " \in White /\ " " \in Alphabet
  BY ShortTexts DEF Space, White, Alphabet, Letters
<1>2. Space # <<>>
  BY DEF Space
<1>3. Squeeze(Space) = Space
  <2> DEFINE c == " "
             e == Append(<<>>, c)
  <2>1. <<>> \in Text
    BY ShortTexts
  <2>2. c \in Alphabet /\ c \in White
    BY <1>1
  <2>3. Squeeze(e) = Squeeze(<<>>) \o Adds(<<>>, c)
    <3> HIDE DEF c
    <3>. QED BY <2>1, <2>2, SqueezeAppend
  <2>4. Adds(<<>>, c) = Space
    BY <2>2 DEF Adds, Space
  <2>5. e = Space
    BY DEF Space
  <2>6. <<>> \o Space = Space
    BY <1>1, ConcatEmptySeq DEF Text
  <2>. QED BY <2>3, <2>4, <2>5, <2>6, SqueezeEmpty
<1>. QED BY <1>1, <1>2, <1>3

\* Two texts, one after the other, are a text.
LEMMA TextConcat == ASSUME NEW x \in Text, NEW y \in Text PROVE x \o y \in Text
BY ConcatProperties DEF Text

\* Texts are joined in any order.
LEMMA TextAssociative ==
  ASSUME NEW x \in Text, NEW y \in Text, NEW z \in Text
  PROVE  (x \o y) \o z = x \o (y \o z)
<1>1. x \in Seq(Alphabet) /\ y \in Seq(Alphabet) /\ z \in Seq(Alphabet)
  BY DEF Text
<1>. QED BY <1>1, ConcatAssociative, SMTT(30)

\* One sentence more.
LEMMA JoinedAppend ==
  ASSUME NEW s \in Seq(Text), NEW x \in Text
  PROVE  /\ Joined(s) \in Text
         /\ Joined(Append(s, x)) = IF s = <<>> THEN x ELSE Joined(s) \o (Space \o x)
<1> DEFINE n == Len(s)
           u == Append(s, x)
           p == [i \in 1..(n + 1) |-> IF i = 1 THEN u[1] ELSE Space \o u[i]]
           q == [i \in 1..n |-> IF i = 1 THEN s[1] ELSE Space \o s[i]]
<1>1. /\ n \in Nat /\ DOMAIN s = 1..n /\ DOMAIN u = 1..(n + 1)
      /\ \A i \in 1..n : u[i] = s[i] /\ s[i] \in Text
      /\ u[n + 1] = x
      /\ s = <<>> <=> n = 0
  BY LenProperties, ElementOfSeq, AppendProperties, EmptySeq
<1>2. Joined(s) = FlattenSeq(q) /\ Joined(u) = FlattenSeq(p)
  BY <1>1 DEF Joined
<1> HIDE DEF n, u
<1>3. \A y \in Text : Space \o y \in Text
  BY SpaceIs, ConcatProperties DEF Text
<1>4. \A i \in 1..(n + 1) : u[i] \in Text
  <2>1. \A i \in 1..(n + 1) : i \in 1..n \/ i = n + 1
    BY <1>1
  <2>. QED BY <1>1, <2>1
<1>5. p \in [1..(n + 1) -> Text] /\ q \in [1..n -> Text] /\ \A i \in 1..n : p[i] = q[i]
  <2>1. \A i \in 1..(n + 1) : (IF i = 1 THEN u[1] ELSE Space \o u[i]) \in Text
    BY <1>3, <1>4
  <2>2. \A i \in 1..n : (IF i = 1 THEN s[1] ELSE Space \o s[i]) \in Text
    BY <1>1, <1>3
  <2>3. \A i \in 1..n : i \in 1..(n + 1)
    BY <1>1
  <2>. QED BY <1>1, <2>1, <2>2, <2>3
<1>6. p[n + 1] = IF s = <<>> THEN x ELSE Space \o x
  <2>1. n + 1 \in 1..(n + 1) /\ (n + 1 = 1 <=> n = 0)
    BY <1>1
  <2>. QED BY <1>1, <2>1
<1> HIDE DEF p, q
<1>7. FlattenSeq(q) \in Text /\ FlattenSeq(p) = FlattenSeq(q) \o p[n + 1]
  <2>1. p \in [1..(n + 1) -> Seq(Alphabet)] /\ q \in [1..n -> Seq(Alphabet)]
    BY <1>5 DEF Text
  <2>2. FlattenSeq(q) \in Seq(Alphabet) /\ FlattenSeq(p) = FlattenSeq(q) \o p[n + 1]
    <3>1. n \in Nat /\ \A i \in 1..n : p[i] = q[i]
      BY <1>1, <1>5
    <3>. QED BY <2>1, <3>1, SpreadAppend, Zenon
  <2>. QED BY <2>2 DEF Text
<1>8. CASE s = <<>>
  <2>1. q = <<>>
    BY <1>1, <1>8 DEF q
  <2>2. <<>> \o x = x
    BY ConcatEmptySeq DEF Text
  <2>. QED BY <1>2, <1>6, <1>7, <1>8, <2>1, <2>2, FlattenEmpty DEF u
<1>9. CASE s # <<>>
  BY <1>2, <1>6, <1>7, <1>9 DEF u
<1>. QED BY <1>8, <1>9

\* No sentence.
LEMMA JoinedEmpty == Joined(<<>>) = <<>>
BY FlattenEmpty DEF Joined

\* What is added to the last of the sentences is added to all.
LEMMA JoinedMore ==
  ASSUME NEW s \in Seq(Text), NEW x \in Text, NEW y \in Text
  PROVE  Joined(Append(s, x \o y)) = Joined(Append(s, x)) \o y
<1>1. x \o y \in Text /\ Space \in Text /\ Joined(s) \in Text
  BY SpaceIs, JoinedAppend, ConcatProperties DEF Text
<1>2. CASE s = <<>>
  BY <1>1, <1>2, JoinedAppend
<1>3. CASE s # <<>>
  <2> DEFINE j == Joined(s)
  <2>1. Joined(Append(s, x \o y)) = j \o (Space \o (x \o y)) /\ Joined(Append(s, x)) = j \o (Space \o x)
    BY <1>1, <1>3, JoinedAppend
  <2> HIDE DEF j
  <2>2. Space \o (x \o y) = (Space \o x) \o y /\ Space \o x \in Text
    <3>1. (Space \o x) \o y = Space \o (x \o y)
      BY <1>1, TextAssociative, SMTT(30)
    <3>2. Space \o x \in Text
      BY <1>1, TextConcat
    <3>. QED BY <3>1, <3>2
  <2>3. j \in Text
    BY <1>1 DEF j
  <2>4. j \o ((Space \o x) \o y) = (j \o (Space \o x)) \o y
    BY <2>2, <2>3, TextAssociative, SMTT(30)
  <2>. QED BY <2>1, <2>2, <2>4
<1>. QED BY <1>2, <1>3

\* The last of two texts, one after the other.
LEMMA LastOfConcat ==
  ASSUME NEW x \in Text, NEW y \in Text, y # <<>>
  PROVE  x \o y \in Text /\ x \o y # <<>> /\ Last(x \o y) = Last(y)
<1> DEFINE m == Len(x)
           n == Len(y)
           z == x \o y
<1>1. m \in Nat /\ n \in Nat /\ n # 0
  BY LenProperties, EmptySeq DEF Text
<1>2. z \in Text /\ Len(z) = m + n /\ \A i \in 1..(m + n) : z[i] = IF i <= m THEN x[i] ELSE y[i - m]
  BY ConcatProperties DEF Text
<1> HIDE DEF m, n, z
<1>3. m + n \in 1..(m + n) /\ ~ (m + n <= m) /\ (m + n) - m = n /\ m + n # 0
  BY <1>1
<1>4. z[m + n] = y[n]
  BY <1>2, <1>3
<1>5. z # <<>>
  <2>1. Len(<<>>) = 0
    OBVIOUS
  <2>. QED BY <1>2, <1>3, <2>1
<1>. QED BY <1>2, <1>4, <1>5 DEF Last, z, n

\* White space does not run from a into b.
Apart(a, b) == a = <<>> \/ Last(a) \notin White \/ b = <<>> \/ b[1] \notin White

\* Two texts white space does not run between are squeezed one by one.
LEMMA SqueezeConcat ==
  ASSUME NEW a \in Text, NEW b \in Text, Apart(a, b)
  PROVE  Squeeze(a \o b) = Squeeze(a) \o Squeeze(b)
<1> DEFINE G == {s \in Text : Apart(a, s) => Squeeze(a \o s) = Squeeze(a) \o Squeeze(s)}
<1>0. Squeeze(a) \in Text
  <2>1. \E c : c \in Alphabet
    BY SpaceIs
  <2>. QED BY <2>1, SqueezeAppend
<1>1. <<>> \in G
  <2>1. a \o <<>> = a /\ Squeeze(a) \o <<>> = Squeeze(a)
    BY <1>0, ConcatEmptySeq DEF Text
  <2>2. <<>> \in Text
    BY ShortTexts
  <2>. QED BY <2>1, <2>2, SqueezeEmpty
<1>2. ASSUME NEW s \in Text, NEW c \in Alphabet, s \in G PROVE Append(s, c) \in G
  <2> DEFINE u == Append(s, c)
  <2>1. /\ u \in Text /\ Len(s) \in Nat /\ u[Len(s) + 1] = c /\ \A i \in 1..Len(s) : u[i] = s[i]
        /\ s # <<>> => Len(s) # 0
    BY TextAppend, EmptySeq DEF Text
  <2> SUFFICES ASSUME Apart(a, u) PROVE Squeeze(a \o u) = Squeeze(a) \o Squeeze(u)
    BY <2>1
  <2>2. a \o s \in Text /\ Append(a \o s, c) = a \o u /\ Squeeze(s) \in Text
    <3>1. a \o s \in Text /\ <<c>> \in Text
      BY ShortTexts, ConcatProperties DEF Text
    <3>2. Append(a \o s, c) = (a \o s) \o <<c>> /\ u = s \o <<c>>
      BY <3>1, AppendIsConcat DEF Text
    <3>3. (a \o s) \o <<c>> = a \o (s \o <<c>>)
      BY <3>1, ConcatAssociative DEF Text
    <3>. QED BY <3>1, <3>2, <3>3, SqueezeAppend
  <2>3. u # <<>>
    <3>1. Len(u) = Len(s) + 1 /\ Len(<<>>) = 0 /\ Len(s) + 1 # 0
      BY <2>1, TextAppend
    <3>. QED BY <3>1
  <2> HIDE DEF u
  <2>4. Squeeze(a \o u) = Squeeze(a \o s) \o Adds(a \o s, c) /\ Squeeze(u) = Squeeze(s) \o Adds(s, c)
    BY <2>2, SqueezeAppend DEF u
  <2>5. Apart(a, s)
    <3>1. CASE s = <<>>
      BY <3>1 DEF Apart
    <3>2. CASE s # <<>>
      <4>1. u[1] = s[1]
        <5>1. 1 \in 1..Len(s)
          BY <2>1, <3>2
        <5>. QED BY <2>1, <5>1
      <4>. QED BY <2>3, <4>1 DEF Apart
    <3>. QED BY <3>1, <3>2
  <2>6. Squeeze(a \o s) = Squeeze(a) \o Squeeze(s)
    BY <1>2, <2>5
  <2>7. Adds(a \o s, c) = Adds(s, c)
    <3>1. CASE s # <<>>
      <4>1. Last(a \o s) = Last(s) /\ a \o s # <<>>
        BY <3>1, LastOfConcat
      <4>. QED BY <3>1, <4>1 DEF Adds
    <3>2. CASE s = <<>>
      <4>1. a \o s = a
        BY <3>2, ConcatEmptySeq DEF Text
      <4>2. u[1] = c
        BY <2>1, <3>2
      <4>3. a = <<>> \/ Last(a) \notin White \/ c \notin White
        BY <2>3, <4>2 DEF Apart
      <4>. QED BY <3>2, <4>1, <4>3 DEF Adds
    <3>. QED BY <3>1, <3>2
  <2>8. Adds(s, c) \in Text
    BY ShortTexts DEF Adds
  <2>9. (Squeeze(a) \o Squeeze(s)) \o Adds(s, c) = Squeeze(a) \o (Squeeze(s) \o Adds(s, c))
    <3> DEFINE x == Squeeze(a)
               y == Squeeze(s)
               z == Adds(s, c)
    <3>1. x \in Text /\ y \in Text /\ z \in Text
      BY <1>0, <2>2, <2>8
    <3> HIDE DEF x, y, z
    <3>2. (x \o y) \o z = x \o (y \o z)
      BY <3>1, TextAssociative, SMTT(30)
    <3>. QED BY <3>2 DEF x, y, z
  <2>. QED BY <2>4, <2>6, <2>7, <2>9
<1> HIDE DEF G
<1>3. \A s \in Seq(Alphabet) : s \in G
  BY <1>1, <1>2, TextInduction DEF Text
<1>4. b \in G
  BY <1>3 DEF Text
<1>. QED BY <1>4 DEF G

\* Reading a line of sentences is reading each of them.
LEMMA SqueezeJoined ==
  ASSUME NEW correct, NEW s \in Seq(Text), \A i \in 1..Len(s) : Fit(s[i], correct)
  PROVE  Squeeze(Joined(s)) = Joined(Read(s))
<1> DEFINE AllFit(t) == \A i \in 1..Len(t) : Fit(t[i], correct)
           Ends(t) == t = <<>> \/ (Joined(t) # <<>> /\ Last(Joined(t)) \notin White)
           G == {t \in Seq(Text) : AllFit(t) => Squeeze(Joined(t)) = Joined(Read(t)) /\ Ends(t)}
<1>1. <<>> \in G
  <2>1. <<>> \in Seq(Text)
    BY EmptySeq
  <2>2. Squeeze(Joined(<<>>)) = Joined(Read(<<>>))
    BY JoinedEmpty, SqueezeEmpty, ReadEmpty
  <2>. QED BY <2>1, <2>2
<1>2. ASSUME NEW t \in Seq(Text), NEW x \in Text, t \in G PROVE Append(t, x) \in G
  <2> DEFINE u == Append(t, x)
             j == Joined(t)
             r == Read(t)
             z == Squeeze(x)
  <2>1. /\ u \in Seq(Text) /\ Len(t) \in Nat /\ Len(u) = Len(t) + 1
        /\ u[Len(t) + 1] = x /\ \A i \in 1..Len(t) : u[i] = t[i]
    BY AppendProperties, LenProperties
  <2> SUFFICES ASSUME AllFit(u) PROVE Squeeze(Joined(u)) = Joined(Read(u)) /\ Ends(u)
    BY <2>1
  <2>2. AllFit(t) /\ Fit(x, correct)
    <3>1. Len(t) + 1 \in 1..Len(u) /\ \A i \in 1..Len(t) : i \in 1..Len(u)
      BY <2>1
    <3>. QED BY <2>1, <3>1
  <2>3. Squeeze(j) = Joined(r) /\ Ends(t)
    BY <1>2, <2>2
  <2>4. x # <<>> /\ x[1] \notin White /\ Last(x) \notin White
    BY <2>2 DEF Fit
  <2>5. /\ r \in Seq(Text) /\ Len(r) = Len(t) /\ Read(u) = Append(r, z)
        /\ z \in Text /\ j \in Text
    <3>1. r \in Seq(Text) /\ Len(r) = Len(t) /\ Read(u) = Append(r, z)
      BY ReadAppend
    <3>2. z \in Text
      <4>1. \E c : c \in Alphabet
        BY SpaceIs
      <4>. QED BY <4>1, SqueezeAppend
    <3>. QED BY <3>1, <3>2, JoinedAppend
  <2>6. /\ Joined(u) = IF t = <<>> THEN x ELSE j \o (Space \o x)
        /\ Joined(Append(r, z)) = IF r = <<>> THEN z ELSE Joined(r) \o (Space \o z)
    BY <2>5, JoinedAppend
  <2>7. t = <<>> <=> r = <<>>
    <3>1. (Len(t) = 0 <=> t = <<>>) /\ (Len(r) = 0 <=> r = <<>>)
      BY <2>5, EmptySeq
    <3>. QED BY <2>5, <3>1
  <2> HIDE DEF u, j, r, z
  <2>8. CASE t = <<>>
    <3>1. Joined(u) = x /\ Joined(Append(r, z)) = z
      BY <2>6, <2>7, <2>8
    <3>. QED BY <2>4, <2>5, <3>1 DEF z
  <2>9. CASE t # <<>>
    <3>1. Joined(u) = j \o (Space \o x) /\ Joined(Append(r, z)) = Joined(r) \o (Space \o z)
      BY <2>6, <2>7, <2>9
    <3>2. Space \o x \in Text /\ Space \o x # <<>> /\ Last(Space \o x) = Last(x)
      BY <2>4, SpaceIs, LastOfConcat
    <3>3. Joined(u) # <<>> /\ Last(Joined(u)) \notin White
      BY <2>4, <2>5, <3>1, <3>2, LastOfConcat
    <3>4. Squeeze(Space \o x) = Space \o z
      BY <2>4, SpaceIs, SqueezeConcat DEF Apart, z
    <3>5. Apart(j, Space \o x)
      BY <2>3, <2>9 DEF Apart, j
    <3>6. Squeeze(j \o (Space \o x)) = Squeeze(j) \o Squeeze(Space \o x)
      BY <2>5, <3>2, <3>5, SqueezeConcat
    <3>. QED BY <2>3, <2>5, <3>1, <3>3, <3>4, <3>6
  <2>. QED BY <2>8, <2>9
<1> HIDE DEF G
<1>3. \A t \in Seq(Text) : t \in G
  BY <1>1, <1>2, TextInduction
<1>4. s \in G
  BY <1>3
<1>. QED BY <1>4 DEF G

\* All that a reading has taken in.
Told(r) == IF r.cur = <<>> THEN Joined(r.out) ELSE Joined(Append(r.out, r.cur))

\* As long as no rule is broken, a reading loses nothing but white space.
LEMMA ReadTells ==
  ASSUME NEW t \in CleanText, NEW correct \in BOOLEAN,
         ReadOn(From(<<>>), t, correct).failure = "none"
  PROVE  Told(ReadOn(From(<<>>), t, correct)) = Said(t)
<1> DEFINE R(s) == ReadOn(From(<<>>), s, correct)
           Tells(s, r) == /\ Told(r) = Said(s)
                          /\ r.out = <<>> /\ r.cur = <<>> <=> Inked(s) = {}
                          /\ r.cur # <<>> => (r.gap <=> Last(s) \in White)
                          /\ r.cur = <<>> => ~ r.gap
                          /\ r.cur = <<>> /\ r.out # <<>> => Last(s) \in White
           G == {s \in CleanText : R(s).failure = "none" => Tells(s, R(s))}
           f == From(<<>>)
<1>0. f \in Reading
  BY FromTyped, EmptySeq
<1>1. <<>> \in G
  <2>1. <<>> \in CleanText
    BY EmptySeq DEF CleanText
  <2>2. <<>> \in Text
    BY ShortTexts
  <2>3. R(<<>>) = f
    BY <1>0, ReadOnEmpty
  <2>4. f.out = <<>> /\ f.cur = <<>> /\ f.gap = FALSE
    BY DEF From
  <2>5. Inked(<<>>) = {}
    BY DEF Inked
  <2>6. Said(<<>>) = <<>> /\ Told(f) = <<>>
    BY <2>2, <2>4, <2>5, SaidType, JoinedEmpty DEF Told
  <2> HIDE DEF f
  <2>7. Tells(<<>>, f)
    BY <2>4, <2>5, <2>6
  <2>. QED BY <2>1, <2>3, <2>7
<1>2. ASSUME NEW s \in CleanText, NEW c \in Alphabet \ {"-"}, s \in G PROVE Append(s, c) \in G
  <2> DEFINE u == Append(s, c)
             r == R(s)
             o == ReadOne(r, c, correct)
  <2>1. u \in CleanText
    BY AppendProperties DEF CleanText
  <2>2. s \in Text /\ c \in Alphabet /\ u \in Text
    BY <2>1, CleanIsText
  <2>3. R(u) = o /\ r \in Reading
    BY <1>0, <2>2, ReadOnAppend
  <2> SUFFICES ASSUME o.failure = "none" PROVE Tells(u, o)
    BY <2>1, <2>3
  <2>4. c # "-"
    OBVIOUS
  <2>5. Last(u) = c /\ Len(s) \in Nat
    BY <2>2, TextAppend DEF Last
  <2>6. Inked(u) = IF c \in White THEN Inked(s) ELSE Inked(s) \cup {Len(s) + 1}
    BY <2>2, InkedAppend
  <2> HIDE DEF u
  <2>7. o = IF c \in White THEN Spaced(r, correct) ELSE Inscribed(r, c)
    BY <2>4 DEF ReadOne
  <2>8. r.failure = "none"
    BY <2>7 DEF Spaced, Inscribed
  <2>9. Tells(s, r)
    BY <1>2, <2>8
  <2>10. r.out \in Seq(Text) /\ r.cur \in Text /\ r.gap \in BOOLEAN
    BY <2>3 DEF Reading
  <2> HIDE DEF r, o
  <2>11. CASE c \in White
    <3>1. Said(u) = Said(s) /\ Inked(u) = Inked(s) /\ o = Spaced(r, correct) /\ Last(u) \in White
      BY <2>2, <2>5, <2>6, <2>7, <2>11, SaidWhite DEF u
    <3>2. CASE r.cur = <<>>
      <4>1. o = r
        BY <3>1, <3>2 DEF Spaced
      <4>. QED BY <2>9, <3>1, <3>2, <4>1
    <3>3. CASE r.cur # <<>> /\ Last(r.cur) = "." /\ ~ r.gap
      <4>1. o = Judged(r, correct)
        BY <2>8, <3>1, <3>3 DEF Spaced
      <4> DEFINE p == Append(r.out, r.cur)
      <4>2. o = From(p)
        BY <2>8, <3>3, <4>1 DEF Judged
      <4>3. p # <<>>
        <5>1. Len(p) = Len(r.out) + 1 /\ Len(r.out) \in Nat
          BY <2>10, AppendProperties, LenProperties
        <5>2. Len(<<>>) = 0
          OBVIOUS
        <5> HIDE DEF p
        <5>. QED BY <5>1, <5>2
      <4>4. Told(r) = Joined(p)
        BY <3>3 DEF Told
      <4> HIDE DEF p
      <4>5. o.out = p /\ o.cur = <<>> /\ o.gap = FALSE
        BY <4>2 DEF From
      <4>6. Told(o) = Joined(p)
        BY <4>5 DEF Told
      <4>. QED BY <2>9, <3>1, <3>3, <4>3, <4>4, <4>5, <4>6
    <3>4. CASE r.cur # <<>> /\ ~ (Last(r.cur) = "." /\ ~ r.gap)
      <4>1. o = [r EXCEPT !.gap = TRUE]
        BY <2>8, <3>1, <3>4 DEF Spaced
      <4>2. o.out = r.out /\ o.cur = r.cur /\ o.gap = TRUE
        BY <2>3, <4>1 DEF Reading
      <4>3. Told(o) = Told(r)
        BY <4>2 DEF Told
      <4>. QED BY <2>9, <3>1, <3>4, <4>2, <4>3
    <3>. QED BY <3>2, <3>3, <3>4
  <2>12. CASE c \notin White
    <3> DEFINE base == IF r.gap THEN r.cur \o Space ELSE r.cur
    <3>1. /\ o.out = r.out /\ o.cur = base \o <<c>> /\ o.gap = FALSE
          /\ Last(u) \notin White /\ Inked(u) # {}
      <4>1. o = Inscribed(r, c)
        BY <2>7, <2>12
      <4>2. o = [r EXCEPT !.cur = (IF r.gap THEN @ \o <<" ">> ELSE @) \o <<c>>, !.gap = FALSE]
        BY <2>8, <4>1 DEF Inscribed
      <4>3. o.out = r.out /\ o.cur = base \o <<c>> /\ o.gap = FALSE
        BY <2>3, <4>2 DEF Reading, Space
      <4>. QED BY <2>5, <2>6, <2>12, <4>3
    <3>2. <<c>> \in Text /\ <<c>> # <<>> /\ Space \in Text
      BY <2>2, ShortTexts, SpaceIs
    <3> DEFINE e == <<c>>
    <3>3. Said(u) = IF Inked(s) = {} THEN e
                    ELSE (IF Last(s) \in White THEN Said(s) \o Space ELSE Said(s)) \o e
      BY <2>2, <2>12, SaidInk DEF u, Space
    <3> HIDE DEF e
    <3>4. base \in Text
      BY <2>10, <3>2, TextConcat
    <3>5. o.cur # <<>>
      BY <3>1, <3>2, <3>4, LastOfConcat DEF e
    <3>6. Told(o) = Joined(Append(r.out, base)) \o e
      <4>1. Told(o) = Joined(Append(r.out, base \o e))
        BY <3>1, <3>5 DEF Told, e
      <4> HIDE DEF base
      <4>2. Joined(Append(r.out, base \o e)) = Joined(Append(r.out, base)) \o e
        BY <2>10, <3>2, <3>4, JoinedMore DEF e
      <4>. QED BY <4>1, <4>2
    <3>7. Told(o) = Said(u)
      <4>1. CASE r.cur # <<>>
        <5>1. Told(r) = Joined(Append(r.out, r.cur)) /\ Told(r) = Said(s) /\ Inked(s) # {}
              /\ (r.gap <=> Last(s) \in White)
          BY <2>9, <4>1 DEF Told
        <5>2. CASE r.gap
          <6>1. Joined(Append(r.out, r.cur \o Space)) = Joined(Append(r.out, r.cur)) \o Space
            BY <2>10, <3>2, JoinedMore
          <6>. QED BY <3>3, <3>6, <5>1, <5>2, <6>1
        <5>3. CASE ~ r.gap
          BY <3>3, <3>6, <5>1, <5>3
        <5>. QED BY <5>2, <5>3
      <4>2. CASE r.cur = <<>>
        <5>1. base = <<>> /\ Told(r) = Joined(r.out) /\ Told(r) = Said(s)
          BY <2>9, <4>2 DEF Told
        <5>2. base \in Text /\ <<>> \o e = e
          BY <3>2, <3>4, ConcatEmptySeq DEF Text, e
        <5> HIDE DEF base
        <5>3. Joined(Append(r.out, base)) = IF r.out = <<>> THEN <<>> ELSE Joined(r.out) \o (Space \o <<>>)
          BY <2>10, <5>1, <5>2, JoinedAppend
        <5>4. Space \o <<>> = Space
          BY <3>2, ConcatEmptySeq DEF Text
        <5>5. CASE r.out = <<>>
          BY <2>9, <3>3, <3>6, <4>2, <5>2, <5>3, <5>5
        <5>6. CASE r.out # <<>>
          <6>1. Inked(s) # {} /\ Last(s) \in White
            BY <2>9, <4>2, <5>6
          <6>. QED BY <3>3, <3>6, <5>1, <5>3, <5>4, <5>6, <6>1
        <5>. QED BY <5>5, <5>6
      <4>. QED BY <4>1, <4>2
    <3>. QED BY <3>1, <3>5, <3>7
  <2>. QED BY <2>11, <2>12
<1> HIDE DEF G
<1>3. \A s \in Seq(Alphabet \ {"-"}) : s \in G
  BY <1>1, <1>2, TextInduction DEF CleanText
<1>4. t \in G
  BY <1>3 DEF CleanText
<1>. QED BY <1>4 DEF G

\* The invariant gives that what is kept passes every rule.
LEMMA StreamCacheIsValid == StreamInv => CacheIsValid
<1> SUFFICES ASSUME StreamInv, NEW text \in cache
             PROVE  ExplanationFailure(text, request.correct) = "none"
  BY DEF CacheIsValid
<1>1. text \in Kept(request)
  BY DEF StreamInv
<1>. QED BY <1>1 DEF Kept

\* An answer without a fault was shown to its end.
LEMMA FaultlessIsShown ==
  ASSUME StreamInv, finals # <<>>, finals[1].outcome = "none", finals[1].valid
  PROVE  LET r == Heeded(request, Len(request.message.value))
         IN  /\ r.failure = "none"
             /\ Read(deltas) = IF r.cur = <<>> THEN r.out ELSE Append(r.out, r.cur)
             /\ \A i \in 1..Len(deltas) : Fit(deltas[i], request.correct)
<1> DEFINE ok == request.correct
           n == Len(request.message.value)
           r == Heeded(request, n)
<1>1. PICK f : finals = <<f>> /\ (f.outcome = "none" /\ f.valid => done /\ closed /\ failure = "none")
  BY DEF StreamInv
<1>2. done /\ closed /\ failure = "none"
  <2>1. finals[1] = f
    BY <1>1
  <2>. QED BY <1>1, <2>1
<1>3. PICK k \in 0..n : Position(request, k, cursor, done, TheGate)
  BY DEF StreamInv
<1>4. /\ TheGate.released = deltas /\ TheGate.closed = TRUE /\ TheGate.failure = "none"
      /\ deltas \in Seq(Text) /\ request \in Requests
  BY <1>2 DEF TheGate, StreamInv
<1>5. k = n /\ Read(deltas) = Judged(r, ok).out /\ Judged(r, ok).failure = "none"
  <2>1. k = n
    BY <1>2, <1>3 DEF Position
  <2>2. Result(request, k, done) = Judged(r, ok)
    BY <1>2, <2>1 DEF Result
  <2>. QED BY <1>3, <1>4, <2>1, <2>2 DEF Position
<1>6. r \in Reading
  <2>1. n \in Nat /\ \A j \in 0..n : Heeded(request, j) \in Reading
    BY <1>4, RequestIs
  <2>2. n \in 0..n
    BY <1>3, <1>5
  <2>. QED BY <2>1, <2>2
<1>7. \A i \in 1..Len(deltas) : Fit(deltas[i], ok)
  <2>1. Grown(<<>>, deltas, ok) /\ Len(<<>>) + 1 = 1
    BY <1>3, <1>4 DEF Position
  <2>. QED BY <2>1 DEF Grown
<1> HIDE DEF r
<1>8. r.failure = "none"
  BY <1>5 DEF Judged
<1>9. Judged(r, ok).out = IF r.cur = <<>> THEN r.out ELSE Append(r.out, r.cur)
  <2>1. CASE r.cur = <<>>
    BY <2>1 DEF Judged
  <2>2. CASE r.cur # <<>>
    <3>1. Why(Len(r.out), r.cur, ok) = "none"
      BY <1>5, <1>8, <2>2 DEF Judged
    <3>2. Judged(r, ok) = From(Append(r.out, r.cur))
      BY <1>8, <2>2, <3>1 DEF Judged
    <3>. QED BY <2>2, <3>2 DEF From
  <2>. QED BY <2>1, <2>2
<1>. QED BY <1>5, <1>7, <1>8, <1>9 DEF r

\* The invariant gives that what is kept was shown.
LEMMA StreamCacheServes == StreamInv => CacheServesWhatWasShown
<1> SUFFICES ASSUME StreamInv, NEW text \in cache,
                    finals # <<>>, finals[1].outcome = "none", finals[1].valid
             PROVE  Squeeze(Strip(text)) = Squeeze(Joined(deltas))
  BY DEF CacheServesWhatWasShown, Joined, Space
<1> DEFINE v == request.message.value
           ok == request.correct
           r == Heeded(request, Len(v))
           x == sanitize_dashes(Plain(v))
<1>1. /\ request \in Requests /\ deltas \in Seq(Text) /\ text = x
      /\ v \in Seq(Letters) /\ ok \in BOOLEAN
  <2>1. request \in Requests /\ deltas \in Seq(Text)
    BY DEF StreamInv
  <2>2. text = x
    BY DEF StreamInv, Kept
  <2>. QED BY <2>1, <2>2, RequestIs
<1>2. /\ r.failure = "none"
      /\ Read(deltas) = IF r.cur = <<>> THEN r.out ELSE Append(r.out, r.cur)
      /\ \A i \in 1..Len(deltas) : Fit(deltas[i], ok)
  BY FaultlessIsShown
<1>3. x \in CleanText /\ ReadOn(From(<<>>), x, ok) = r
  <2>1. From(<<>>) \in Reading
    BY FromTyped, EmptySeq
  <2>2. x \in CleanText /\ ReadOn(From(<<>>), x, ok) = ReadOn(From(<<>>), Plain(v), ok)
    BY <1>1, <2>1, PlainIs, SanitizeIs
  <2>3. Heard(v, Len(v)) = Plain(v)
    BY <1>1, HeardIs
  <2>. QED BY <2>2, <2>3 DEF Heeded
<1> HIDE DEF r, x
<1>4. Told(r) = Said(x)
  BY <1>1, <1>2, <1>3, ReadTells
<1>5. Joined(Read(deltas)) = Told(r)
  BY <1>2 DEF Told
<1>6. Squeeze(Joined(deltas)) = Joined(Read(deltas))
  BY <1>1, <1>2, SqueezeJoined
<1>. QED BY <1>1, <1>4, <1>5, <1>6 DEF Said

\* The cache keeps an explanation only if it passes the rules on the whole
\* field, and what the next student is served, to a reader, is what this one
\* was shown (the end of _prediction_events, which caches a faultless answer).
THEOREM StreamCacheIsHonest == Spec => []CacheIsHonest
<1>1. StreamInv => CacheIsHonest
  BY StreamCacheIsValid, StreamCacheServes DEF CacheIsHonest
<1>. QED BY <1>1, StreamInvAlways, PTL

=============================================================================
