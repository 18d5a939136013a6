------------------------ MODULE FeedbackClientProofs ------------------------
(***************************************************************************)
(* Theorems about FeedbackClient, for every set of levels, every number of *)
(* sentences, answers and steps.                                           *)
(***************************************************************************)
EXTENDS FeedbackClient, FiniteSetTheorems, SequenceTheorems, TLAPS

----------------------------------------------------------------------------
(* Texts                                                                   *)

LEMMA ShownIsSeq ==
  ASSUME NEW t \in Contract!Shown
  PROVE  t \in Seq(Sentences) /\ Len(t) \in 0..MaxSentences
<1>1. PICK n \in 0..MaxSentences : t \in [1..n -> Sentences]
  BY DEF Contract!Shown
<1>2. n \in Nat
  BY ClientAssumption
<1>. QED BY <1>1, <1>2, SeqDef

LEMMA SeqIsShown ==
  ASSUME NEW t \in Seq(Sentences), Len(t) <= MaxSentences
  PROVE  t \in Contract!Shown
<1>1. Len(t) \in 0..MaxSentences /\ t \in [1..Len(t) -> Sentences]
  BY LenProperties, ClientAssumption
<1>. QED BY <1>1 DEF Contract!Shown

\* The first sentences of a text.
LEMMA FirstOf ==
  ASSUME NEW t \in Contract!Shown, NEW n \in 0..Len(t)
  PROVE  /\ SubSeq(t, 1, n) \in Contract!Shown
         /\ Len(SubSeq(t, 1, n)) = n
         /\ \A i \in 1..n : SubSeq(t, 1, n)[i] = t[i]
<1>1. t \in Seq(Sentences) /\ Len(t) \in Nat /\ Len(t) <= MaxSentences /\ MaxSentences \in Nat
  BY ShownIsSeq, ClientAssumption
<1>2. n \in Int /\ 1 \in Int /\ \A i \in 1..n : t[i] \in Sentences
  BY <1>1, ElementOfSeq
<1>3. /\ SubSeq(t, 1, n) \in Seq(Sentences)
      /\ Len(SubSeq(t, 1, n)) = IF 1 <= n THEN n - 1 + 1 ELSE 0
      /\ \A i \in 1..(n - 1 + 1) : SubSeq(t, 1, n)[i] = t[1 + i - 1]
  BY <1>2, SubSeqProperties
<1>4. Len(SubSeq(t, 1, n)) = n
  BY <1>1, <1>3
<1>5. \A i \in 1..n : SubSeq(t, 1, n)[i] = t[i]
  BY <1>2, <1>3
<1>6. Len(SubSeq(t, 1, n)) <= MaxSentences
  BY <1>1, <1>4
<1>7. SubSeq(t, 1, n) \in Contract!Shown
  BY <1>3, <1>6, SeqIsShown
<1>. QED BY <1>4, <1>5, <1>7

LEMMA FirstIsPrefix ==
  ASSUME NEW t \in Contract!Shown, NEW n \in 0..Len(t), NEW m \in 0..n
  PROVE  IsPrefix(SubSeq(t, 1, m), SubSeq(t, 1, n))
<1> DEFINE a == SubSeq(t, 1, m)
           b == SubSeq(t, 1, n)
<1>1. Len(t) \in Nat
  BY ShownIsSeq
<1>2. /\ a \in Contract!Shown /\ Len(a) = m /\ \A i \in 1..m : a[i] = t[i]
      /\ b \in Contract!Shown /\ Len(b) = n /\ \A i \in 1..n : b[i] = t[i]
  BY <1>1, FirstOf
<1> HIDE DEF a, b
<1>3. /\ SubSeq(a, 1, m) \in Contract!Shown /\ Len(SubSeq(a, 1, m)) = m
      /\ \A i \in 1..m : SubSeq(a, 1, m)[i] = a[i]
      /\ SubSeq(b, 1, m) \in Contract!Shown /\ Len(SubSeq(b, 1, m)) = m
      /\ \A i \in 1..m : SubSeq(b, 1, m)[i] = b[i]
  BY <1>1, <1>2, FirstOf
<1>4. \A i \in 1..m : SubSeq(a, 1, m)[i] = SubSeq(b, 1, m)[i]
  BY <1>1, <1>2, <1>3
<1>5. SubSeq(a, 1, m) = SubSeq(b, 1, m)
  BY <1>3, <1>4, ShownIsSeq, SeqEqual
<1>. QED BY <1>1, <1>2, <1>5 DEF IsPrefix, a, b

LEMMA PrefixOfItself ==
  ASSUME NEW t, Len(t) \in Nat
  PROVE  IsPrefix(t, t)
BY DEF IsPrefix

\* What a stream can release next goes on from what it has released.
LEMMA LongerGoesOn ==
  ASSUME NEW t \in Contract!Shown, NEW u \in Contract!Longer(t)
  PROVE  /\ u \in Contract!Shown /\ Len(u) > Len(t)
         /\ \A n \in 0..Len(t) : SubSeq(u, 1, n) = SubSeq(t, 1, n)
<1>1. t \in Seq(Sentences) /\ Len(t) \in Nat /\ Len(t) <= MaxSentences /\ MaxSentences \in Nat
  BY ShownIsSeq, ClientAssumption
<1>2. PICK n \in 1..(MaxSentences - Len(t)) : \E more \in [1..n -> Sentences] : u = t \o more
  BY DEF Contract!Longer
<1> PICK more \in [1..n -> Sentences] : u = t \o more
  BY <1>2
<1>3. n \in Nat /\ n >= 1 /\ n <= MaxSentences - Len(t)
  BY <1>1
<1>4. more \in Seq(Sentences) /\ Len(more) = n
  BY <1>3, SeqDef
<1>5. /\ u \in Seq(Sentences) /\ Len(u) = Len(t) + n
      /\ \A i \in 1..(Len(t) + n) : u[i] = IF i <= Len(t) THEN t[i] ELSE more[i - Len(t)]
  BY <1>1, <1>2, <1>4, ConcatProperties
<1>6. Len(u) <= MaxSentences /\ Len(u) > Len(t) /\ Len(u) \in Nat
  BY <1>1, <1>3, <1>5
<1>7. u \in Contract!Shown
  BY <1>5, <1>6, SeqIsShown
<1>8. ASSUME NEW m \in 0..Len(t) PROVE SubSeq(u, 1, m) = SubSeq(t, 1, m)
  <2>1. m \in 0..Len(u)
    BY <1>1, <1>6
  <2>2. /\ SubSeq(u, 1, m) \in Contract!Shown /\ Len(SubSeq(u, 1, m)) = m
        /\ \A i \in 1..m : SubSeq(u, 1, m)[i] = u[i]
    BY <1>7, <2>1, FirstOf
  <2>3. /\ SubSeq(t, 1, m) \in Contract!Shown /\ Len(SubSeq(t, 1, m)) = m
        /\ \A i \in 1..m : SubSeq(t, 1, m)[i] = t[i]
    BY FirstOf
  <2>4. \A i \in 1..m : u[i] = t[i]
    BY <1>1, <1>3, <1>5
  <2>5. \A i \in 1..m : SubSeq(u, 1, m)[i] = SubSeq(t, 1, m)[i]
    BY <2>2, <2>3, <2>4
  <2>. QED BY <2>2, <2>3, <2>5, ShownIsSeq, SeqEqual
<1>. QED BY <1>6, <1>7, <1>8

\* firstSentence, of a text that has one.
LEMMA AnalysisOf ==
  ASSUME NEW t \in Contract!Shown, t # <<>>
  PROVE  /\ Analysis(t) \in Contract!Shown \ {<<>>}
         /\ level = "LOW" => Len(Analysis(t)) <= 1
<1>1. t \in Seq(Sentences) /\ Len(t) \in Nat \ {0}
  BY ShownIsSeq, EmptySeq
<1>2. 1 \in 0..Len(t)
  BY <1>1
<1>3. SubSeq(t, 1, 1) \in Contract!Shown /\ Len(SubSeq(t, 1, 1)) = 1
  BY <1>2, FirstOf
<1>4. SubSeq(t, 1, 1) # <<>>
  BY <1>3, EmptySeq
<1>. QED BY <1>3, <1>4 DEF Analysis

\* What is shown of more sentences goes on from what is shown of fewer.
LEMMA AnalysisGrows ==
  ASSUME NEW t \in Contract!Shown, NEW n \in 0..Len(t), NEW m \in 1..n
  PROVE  IsPrefix(Analysis(SubSeq(t, 1, m)), Analysis(SubSeq(t, 1, n)))
<1>1. Len(t) \in Nat
  BY ShownIsSeq
<1>2. CASE level # "LOW"
  BY <1>1, <1>2, FirstIsPrefix DEF Analysis
<1>3. CASE level = "LOW"
  <2> DEFINE a == SubSeq(t, 1, m)
             b == SubSeq(t, 1, n)
  <2>1. /\ a \in Contract!Shown /\ Len(a) = m /\ \A i \in 1..m : a[i] = t[i]
        /\ b \in Contract!Shown /\ Len(b) = n /\ \A i \in 1..n : b[i] = t[i]
    BY <1>1, FirstOf
  <2> HIDE DEF a, b
  <2>2. 1 \in 0..Len(a) /\ 1 \in 0..Len(b) /\ 1 \in 1..m /\ 1 \in 1..n
    BY <1>1, <2>1
  <2>3. /\ SubSeq(a, 1, 1) \in Contract!Shown /\ Len(SubSeq(a, 1, 1)) = 1
        /\ \A i \in 1..1 : SubSeq(a, 1, 1)[i] = a[i]
        /\ SubSeq(b, 1, 1) \in Contract!Shown /\ Len(SubSeq(b, 1, 1)) = 1
        /\ \A i \in 1..1 : SubSeq(b, 1, 1)[i] = b[i]
    BY <2>1, <2>2, FirstOf
  <2>4. \A i \in 1..1 : SubSeq(a, 1, 1)[i] = SubSeq(b, 1, 1)[i]
    BY <2>1, <2>2, <2>3
  <2>5. SubSeq(a, 1, 1) = SubSeq(b, 1, 1)
    BY <2>3, <2>4, ShownIsSeq, SeqEqual
  <2>6. IsPrefix(SubSeq(a, 1, 1), SubSeq(b, 1, 1))
    BY <2>3, <2>5 DEF IsPrefix
  <2>. QED BY <1>3, <2>6 DEF Analysis, a, b
<1>. QED BY <1>2, <1>3

----------------------------------------------------------------------------
(* The invariant                                                           *)

Entry == [at: 0..Steps, verdict: {"none", "awaited", "right", "wrong", "failed"},
          shown: Contract!Shown, final: {"none", "shown", "fallback", "empty"},
          read: Nat,
          stream: {"none", "opening", "open", "json", "final", "stream_disconnected",
                   "stream_timeout", "settled", "lost"},
          previewing: BOOLEAN, log: Texts \cup {<<"no">>}]

Typed ==
  /\ level \in Levels /\ step \in 1..Steps
  /\ zone \in [state : {"idle", "correct", "incorrect"}, submitting : BOOLEAN,
               resolvedBy : Submissions \cup {0}]
  /\ current \in Submissions \cup {0}
  /\ card \in [of : Submissions \cup {0}, text : Texts]
  /\ submission \in [Submissions -> Entry]

\* Of one answer: what each stage of its stream has and has not.
Sound(x) ==
  /\ x.read <= Len(x.shown)
  /\ x.stream \in {"none", "opening", "json"} => x.shown = <<>> /\ x.final = "none"
  /\ x.final = "shown" => x.shown # <<>>
  /\ x.final \in {"fallback", "empty"} => x.shown = <<>>
  /\ x.stream = "final" => x.final # "none"
  /\ x.stream = "settled" => Judged(x)
  /\ x.previewing <=> Judged(x) /\ level # "NONE"

Latest == Cardinality(Given)

\* Of the answers: they are given one after another, only the latest is
\* current or waits for its verdict, and the current one is on screen.
InTurn ==
  /\ Given = 1..Latest
  /\ current # 0 => current = Latest /\ submission[current].at = step
  /\ \A s \in Submissions : submission[s].verdict = "awaited" => s = Latest /\ zone.submitting

\* Of the card, showing c on the answer x: while the stream of the current
\* answer goes on the card is what has been read of it, and once it has
\* settled the card is what was logged.
Fits(x, c) ==
  /\ x.at # 0 /\ Judged(x)
  /\ c.text # NONE_TEXT => x.at = step
  /\ level # "NONE" /\ x.stream # "settled" =>
       x.read > 0 /\ (current = c.of => c.text = Analysis(SoFar(x)))
  /\ current = c.of /\ x.stream = "settled" /\ x.log # <<>> => x.log = c.text

Inv ==
  /\ Typed /\ InTurn
  /\ \A s \in Submissions : Sound(submission[s])
  /\ card.of # 0 => Fits(submission[card.of], card)
  /\ OneSentenceAtLow

CardStep == card' = card \/ (CardNeverGoesBack /\ ReadTextStands)

LEMMA EmptyIsShown == <<>> \in Contract!Shown /\ <<>> \in Texts /\ Len(<<>>) = 0
<1>1. <<>> \in Seq(Sentences) /\ Len(<<>>) = 0
  BY EmptySeq
<1>2. Len(<<>>) <= MaxSentences
  BY <1>1, ClientAssumption
<1>3. <<>> \in Contract!Shown
  BY <1>1, <1>2, SeqIsShown
<1>. QED BY <1>1, <1>3 DEF Texts

LEMMA GivenNumbers ==
  ASSUME NEW k \in Nat, Given = 1..k
  PROVE  Latest = k
<1>1. Cardinality(1..k) = IF 1 > k THEN 0 ELSE k - 1 + 1
  BY FS_Interval
<1>. QED BY <1>1 DEF Latest

LEMMA LatestIsNat ==
  ASSUME Typed
  PROVE  Latest \in Nat /\ Given \subseteq Submissions
<1>1. Given \subseteq Submissions
  BY DEF Given
<1>2. IsFiniteSet(Submissions)
  BY ClientAssumption, FS_Interval DEF Submissions
<1>. QED BY <1>1, <1>2, FS_Subset, FS_CardinalityType DEF Latest

LEMMA InvInit == Init => Inv
<1> SUFFICES ASSUME Init PROVE Inv
  OBVIOUS
<1>1. NotGiven \in Entry /\ Sound(NotGiven)
  <2>1. 0 \in 0..Steps /\ <<>> \in Contract!Shown /\ Len(<<>>) = 0
    BY ClientAssumption, EmptyIsShown
  <2>2. NotGiven \in Entry
    BY <2>1 DEF NotGiven, Entry
  <2>. QED BY <2>1, <2>2 DEF NotGiven, Sound, Judged
<1>2. Typed
  BY <1>1, EmptyIsShown, ClientAssumption DEF Init, Typed, FreshZone, NoCard
<1>3. Given = {}
  BY DEF Init, Given, NotGiven
<1>4. Given = 1..0 /\ Latest = 0
  BY <1>3, FS_EmptySet DEF Latest
<1>5. InTurn
  BY <1>4 DEF InTurn, Init, NotGiven
<1>. QED BY <1>1, <1>2, <1>5, EmptyIsShown DEF Inv, Init, NoCard, OneSentenceAtLow

\* A step that writes one given answer leaves the order of the answers.
LEMMA TurnKept ==
  ASSUME Typed, InTurn, NEW s \in Submissions, NEW x, Becomes(s, x),
         x.at = submission[s].at, UNCHANGED <<step, current>>,
         \/ x.verdict = submission[s].verdict /\ zone'.submitting = zone.submitting
         \/ x.verdict # "awaited" /\ submission[s].verdict = "awaited"
  PROVE  InTurn' /\ Latest' = Latest
<1>1. submission' = [submission EXCEPT ![s] = x] /\ submission \in [Submissions -> Entry]
  BY DEF Becomes, Typed
<1>2. Given' = Given
  BY <1>1 DEF Given
<1>3. Latest' = Latest
  BY <1>2 DEF Latest
<1>4. \A t \in Submissions : submission'[t].at = submission[t].at
  BY <1>1
<1>5. \A t \in Submissions : submission'[t].verdict = "awaited" =>
        submission[t].verdict = "awaited" /\ zone'.submitting = zone.submitting
  BY <1>1 DEF InTurn
<1>. QED BY <1>2, <1>3, <1>4, <1>5 DEF InTurn, Typed

LEMMA CardIsOfGiven ==
  ASSUME Inv, card.of # 0
  PROVE  card.of \in Submissions /\ card.of <= Latest
<1>1. card.of \in Submissions /\ submission[card.of].at # 0
  BY DEF Inv, Typed, Fits
<1>2. card.of \in 1..Latest
  BY <1>1 DEF Inv, InTurn, Given
<1>. QED BY <1>1, <1>2, LatestIsNat DEF Inv

(***************************************************************************)
(* What has to be shown of a step that writes the answer s, to x, and      *)
(* leaves the card or puts a text about s on it.                           *)
(***************************************************************************)
LEMMA Written ==
  ASSUME Inv, NEW s \in Submissions, NEW x \in Entry, Becomes(s, x), Sound(x),
         x.at = submission[s].at, UNCHANGED <<level, step, current>>,
         \/ x.verdict = submission[s].verdict /\ zone' = zone
         \/ /\ x.verdict # "awaited" /\ submission[s].verdict = "awaited"
            /\ zone' \in [state : {"idle", "correct", "incorrect"}, submitting : BOOLEAN,
                           resolvedBy : Submissions \cup {0}],
         \/ card' = card /\ (card.of = s => Fits(x, card))
         \/ \E t \in Texts :
              /\ card' = [of |-> s, text |-> t] /\ Fits(x, card') /\ s = Latest
              /\ level = "LOW" => Len(t) <= 1
              /\ card.of = s => IsPrefix(card.text, t) \/ t = DISCONNECTED_FALLBACK_TEXT
  PROVE  Inv' /\ CardStep
<1>1. /\ submission' \in [Submissions -> Entry] /\ submission'[s] = x
      /\ \A t \in Submissions \ {s} : submission'[t] = submission[t]
  BY DEF Inv, Typed, Becomes
<1>2. InTurn'
  BY TurnKept DEF Inv
<1>3. \A t \in Submissions : Sound(submission[t])'
  BY <1>1 DEF Inv, Sound, Judged
<1>4. CASE card' = card /\ (card.of = s => Fits(x, card))
  <2>1. Typed'
    BY <1>1, <1>4 DEF Inv, Typed
  <2>2. card'.of # 0 => Fits(submission[card.of], card)'
    <3>1. SUFFICES ASSUME card.of # 0
                   PROVE  Fits(submission[card.of], card)'
      BY <1>4
    <3>2. Fits(submission'[card.of], card)
      <4>1. CASE card.of = s
        BY <1>1, <1>4, <4>1
      <4>2. CASE card.of # s
        BY <1>1, <3>1, <4>2 DEF Inv, Typed
      <4>. QED BY <4>1, <4>2
    <3>. QED BY <1>4, <3>2 DEF Fits, Judged, SoFar, Analysis
  <2>. QED BY <1>2, <1>3, <1>4, <2>1, <2>2 DEF Inv, OneSentenceAtLow, CardStep
<1>5. CASE \E t \in Texts :
             /\ card' = [of |-> s, text |-> t] /\ Fits(x, card') /\ s = Latest
             /\ level = "LOW" => Len(t) <= 1
             /\ card.of = s => IsPrefix(card.text, t) \/ t = DISCONNECTED_FALLBACK_TEXT
  <2>1. PICK t \in Texts :
             /\ card' = [of |-> s, text |-> t] /\ Fits(x, card') /\ s = Latest
             /\ level = "LOW" => Len(t) <= 1
             /\ card.of = s => IsPrefix(card.text, t) \/ t = DISCONNECTED_FALLBACK_TEXT
    BY <1>5
  <2>2. Typed'
    BY <1>1, <2>1 DEF Inv, Typed
  <2>3. Fits(submission[card.of], card)'
    BY <1>1, <2>1 DEF Fits, Judged, SoFar, Analysis
  <2>4. OneSentenceAtLow'
    BY <2>1 DEF OneSentenceAtLow
  <2>5. CardNeverGoesBack
    <3>1. card.of \in Nat /\ s \in Nat
      BY ClientAssumption DEF Inv, Typed, Submissions
    <3>. QED BY <2>1, <3>1, CardIsOfGiven DEF CardNeverGoesBack
  <2>6. ReadTextStands
    BY <2>1 DEF ReadTextStands
  <2>. QED BY <1>2, <1>3, <2>2, <2>3, <2>4, <2>5, <2>6 DEF Inv, CardStep
<1>. QED BY <1>4, <1>5

LEMMA SubmitKeeps ==
  ASSUME Inv, NEW s \in Submissions, Submit(s)
  PROVE  Inv' /\ CardStep
<1> DEFINE x == [NotGiven EXCEPT !.at = step, !.verdict = "awaited", !.stream = "opening"]
<1>1. /\ Latest \in Nat /\ s = Latest + 1 /\ ~zone.submitting /\ Given = 1..Latest
      /\ submission' = [submission EXCEPT ![s] = x] /\ current' = s
      /\ zone' = [zone EXCEPT !.submitting = TRUE]
      /\ UNCHANGED <<level, step, card>> /\ Typed
  BY LatestIsNat DEF Inv, Submit, Becomes, Latest, InTurn
<1>2. /\ x.at = step /\ x.verdict = "awaited" /\ x.shown = <<>> /\ x.final = "none"
      /\ x.read = 0 /\ x.stream = "opening" /\ x.previewing = FALSE /\ x.log = <<"no">>
      /\ x \in Entry /\ step # 0
  <2>1. step \in 0..Steps /\ step # 0 /\ <<>> \in Contract!Shown
    BY <1>1, EmptyIsShown, ClientAssumption DEF Typed
  <2>. QED BY <2>1 DEF NotGiven, Entry
<1> HIDE DEF x
<1>3. Sound(x)
  BY <1>2, EmptyIsShown DEF Sound, Judged
<1>4. /\ submission' \in [Submissions -> Entry] /\ submission'[s] = x
      /\ \A t \in Submissions \ {s} : submission'[t] = submission[t]
  BY <1>1, <1>2 DEF Typed
<1>5. Typed'
  BY <1>1, <1>4 DEF Typed
<1>6. Given' = 1..(Latest + 1)
  <2>1. Given' = Given \cup {s}
    BY <1>2, <1>4 DEF Given
  <2>. QED BY <1>1, <2>1
<1>7. Latest' = Latest + 1
  <2>1. Latest + 1 \in Nat
    BY <1>1
  <2>2. Cardinality(1..(Latest + 1)) = IF 1 > Latest + 1 THEN 0 ELSE (Latest + 1) - 1 + 1
    BY <2>1, FS_Interval
  <2>3. Latest' = Cardinality(1..(Latest + 1))
    BY <1>6 DEF Latest
  <2>. QED BY <1>1, <2>2, <2>3
<1>8. InTurn'
  <2>1. \A t \in Submissions \ {s} : submission[t].verdict # "awaited"
    BY <1>1 DEF Inv, InTurn
  <2>. QED BY <1>1, <1>2, <1>4, <1>6, <1>7, <2>1 DEF InTurn, Typed
<1>9. \A t \in Submissions : Sound(submission[t])'
  BY <1>1, <1>3, <1>4 DEF Inv, Sound, Judged
<1>10. card.of # 0 => card.of # s /\ Fits(submission[card.of], card)
  BY <1>1, CardIsOfGiven DEF Inv
<1>11. card'.of # 0 => Fits(submission[card.of], card)'
  BY <1>1, <1>4, <1>10, CardIsOfGiven DEF Fits, Judged, SoFar, Analysis
<1>. QED BY <1>1, <1>5, <1>8, <1>9, <1>11 DEF Inv, OneSentenceAtLow, CardStep

LEMMA LeaveKeeps ==
  ASSUME Inv, TryAgain \/ MoveOn
  PROVE  Inv' /\ CardStep
<1>1. /\ submission' = submission /\ level' = level /\ current' = 0 /\ card' = NoCard
      /\ zone'.submitting = zone.submitting
      /\ Typed
  <2>1. zone \in [state : {"idle", "correct", "incorrect"}, submitting : BOOLEAN,
                   resolvedBy : Submissions \cup {0}]
    BY DEF Inv, Typed
  <2>. QED BY <2>1 DEF TryAgain, MoveOn, FreshZone, Inv
<1>2. Typed'
  <2>1. step' \in 1..Steps
    BY <1>1, ClientAssumption DEF TryAgain, MoveOn, Typed
  <2>2. zone' \in [state : {"idle", "correct", "incorrect"}, submitting : BOOLEAN,
                   resolvedBy : Submissions \cup {0}]
    BY <1>1 DEF TryAgain, MoveOn, FreshZone, Typed
  <2>. QED BY <1>1, <2>1, <2>2, EmptyIsShown DEF Typed, NoCard
<1>3. InTurn'
  BY <1>1 DEF Inv, InTurn, Given, Latest
<1>4. \A t \in Submissions : Sound(submission[t])'
  BY <1>1 DEF Inv, Sound, Judged
<1>5. CardNeverGoesBack /\ ReadTextStands
  BY <1>1 DEF CardNeverGoesBack, ReadTextStands, NoCard
<1>. QED BY <1>1, <1>2, <1>3, <1>4, <1>5, EmptyIsShown
     DEF Inv, OneSentenceAtLow, NoCard, CardStep

LEMMA ResetKeeps ==
  ASSUME Inv, NEW s \in Submissions, AutoReset(s)
  PROVE  Inv' /\ CardStep
<1>1. /\ UNCHANGED <<level, step, current, submission, card>>
      /\ zone' = [zone EXCEPT !.state = "idle"] /\ Typed
  BY DEF AutoReset, Inv
<1>2. /\ zone'.submitting = zone.submitting
      /\ zone' \in [state : {"idle", "correct", "incorrect"}, submitting : BOOLEAN,
                     resolvedBy : Submissions \cup {0}]
  BY <1>1 DEF Typed
<1>3. Typed' /\ InTurn'
  BY <1>1, <1>2 DEF Inv, Typed, InTurn, Given, Latest
<1>. QED BY <1>1, <1>3 DEF Inv, Sound, Judged, Fits, SoFar, Analysis, OneSentenceAtLow, CardStep

\* What has been read of an answer that has been read of.
LEMMA ReadSoFar ==
  ASSUME NEW x \in Entry, x.read <= Len(x.shown), x.read > 0
  PROVE  /\ Analysis(SoFar(x)) \in Texts /\ x.shown # <<>>
         /\ level = "LOW" => Len(Analysis(SoFar(x))) <= 1
<1>1. x.shown \in Contract!Shown /\ x.read \in Nat /\ Len(x.shown) \in Nat
  BY ShownIsSeq DEF Entry
<1>2. x.read \in 0..Len(x.shown)
  BY <1>1
<1>3. SoFar(x) \in Contract!Shown /\ Len(SoFar(x)) = x.read
  BY <1>1, <1>2, FirstOf DEF SoFar
<1>4. SoFar(x) # <<>> /\ x.shown # <<>>
  BY <1>1, <1>3, EmptySeq
<1>5. Analysis(SoFar(x)) \in Contract!Shown /\ (level = "LOW" => Len(Analysis(SoFar(x))) <= 1)
  BY <1>3, <1>4, AnalysisOf
<1>. QED BY <1>4, <1>5 DEF Texts

\* An answer that awaits its verdict is the latest, and not on the card.
LEMMA Awaiting ==
  ASSUME Inv, NEW s \in Submissions, submission[s].verdict = "awaited"
  PROVE  /\ s = Latest /\ card.of # s /\ submission[s].at # 0
         /\ submission[s] \in Entry /\ Sound(submission[s])
         /\ submission[s].stream # "settled" /\ ~submission[s].previewing
<1>1. /\ s = Latest /\ submission[s] \in Entry /\ Sound(submission[s]) /\ Given = 1..Latest
      /\ ~Judged(submission[s])
  BY DEF Inv, InTurn, Typed, Judged
<1>2. s # 0 /\ s \in 1..Latest
  BY <1>1, ClientAssumption DEF Submissions
<1>. QED BY <1>1, <1>2 DEF Inv, Fits, Given, Sound

LEMMA VerdictKeeps ==
  ASSUME Inv, NEW s \in Submissions, NEW right \in BOOLEAN, Verdict(s, right)
  PROVE  Inv' /\ CardStep
<1> DEFINE v == IF right THEN "right" ELSE "wrong"
           old == submission[s]
           x == [old EXCEPT !.verdict = v, !.previewing = level # "NONE"]
<1>1. /\ old.verdict = "awaited" /\ Becomes(s, x) /\ UNCHANGED <<level, step, current>>
      /\ zone' = [state |-> IF right THEN "correct" ELSE "incorrect",
                  submitting |-> FALSE,
                  resolvedBy |-> IF right THEN s ELSE zone.resolvedBy]
      /\ IF level = "NONE" /\ ~right
          THEN card' = [of |-> s, text |-> NONE_TEXT]
          ELSE Preview(s, x)
  BY DEF Verdict
<1>2. /\ s = Latest /\ card.of # s /\ old.at # 0 /\ old \in Entry /\ Sound(old)
      /\ old.stream # "settled"
  BY <1>1, Awaiting
<1>3. /\ x \in Entry /\ x.at = old.at /\ x.shown = old.shown /\ x.final = old.final
      /\ x.read = old.read /\ x.stream = old.stream /\ x.verdict = v
      /\ x.previewing = (level # "NONE") /\ Judged(x)
  <2> DEFINE shows == level # "NONE"
  <2>1. x = [old EXCEPT !.verdict = v, !.previewing = shows] /\ old \in Entry
    BY <1>2
  <2>2. v \in {"right", "wrong"} /\ shows \in BOOLEAN
    OBVIOUS
  <2> HIDE DEF x, old, v, shows
  <2>3. /\ x \in Entry /\ x.verdict = v /\ x.previewing = shows
    BY ONLY <2>1, <2>2 DEF Entry
  <2>4. /\ x.at = old.at /\ x.shown = old.shown /\ x.final = old.final
        /\ x.read = old.read /\ x.stream = old.stream
    BY ONLY <2>1 DEF Entry
  <2>. QED BY <2>2, <2>3, <2>4 DEF Judged, shows
<1>4. zone' \in [state : {"idle", "correct", "incorrect"}, submitting : BOOLEAN,
                 resolvedBy : Submissions \cup {0}]
  BY <1>1 DEF Inv, Typed
<1> HIDE DEF x, old
<1>5. Sound(x)
  BY <1>2, <1>3 DEF Sound
<1>6. x.verdict # "awaited"
  BY <1>3
<1>7. CASE level = "NONE" /\ ~right
  <2>1. Fits(x, [of |-> s, text |-> NONE_TEXT])
    BY <1>2, <1>3, <1>7 DEF Fits
  <2>2. NONE_TEXT \in Texts /\ level # "LOW"
    BY <1>7 DEF Texts
  <2>. QED BY <1>1, <1>2, <1>3, <1>4, <1>5, <1>6, <1>7, <2>1, <2>2, Written DEF old
<1>8. CASE x.previewing /\ x.read > 0 /\ current = s /\ ~(level = "NONE" /\ ~right)
  <2> DEFINE t == Analysis(SoFar(x))
  <2>1. t \in Texts /\ (level = "LOW" => Len(t) <= 1)
    BY <1>3, <1>5, <1>8, ReadSoFar DEF Sound
  <2> HIDE DEF t
  <2>2. card' = [of |-> s, text |-> t]
    BY <1>1, <1>8 DEF Preview, t
  <2>3. s # 0 /\ old.at = step
    BY <1>8, ClientAssumption DEF Inv, InTurn, Submissions, old
  <2>4. Fits(x, card')
    BY <1>2, <1>3, <1>8, <2>2, <2>3 DEF Fits, t
  <2>. QED BY <1>1, <1>2, <1>3, <1>4, <1>5, <1>6, <2>1, <2>2, <2>4, Written DEF old
<1>9. CASE ~(level = "NONE" /\ ~right) /\ ~(x.previewing /\ x.read > 0 /\ current = s)
  <2>1. card' = card
    BY <1>1, <1>9 DEF Preview
  <2>. QED BY <1>1, <1>2, <1>3, <1>4, <1>5, <1>6, <2>1, Written DEF old
<1>. QED BY <1>7, <1>8, <1>9

LEMMA VerdictFailsKeeps ==
  ASSUME Inv, NEW s \in Submissions, VerdictFails(s)
  PROVE  Inv' /\ CardStep
<1> DEFINE old == submission[s]
           x == [old EXCEPT !.verdict = "failed"]
<1>1. /\ old.verdict = "awaited" /\ Becomes(s, x)
      /\ UNCHANGED <<level, step, zone, current, card>>
  BY DEF VerdictFails
<1>2. card.of # s /\ old \in Entry /\ Sound(old) /\ old.stream # "settled" /\ ~old.previewing
  BY <1>1, Awaiting
<1>3. /\ x \in Entry /\ x.at = old.at /\ x.shown = old.shown /\ x.final = old.final
      /\ x.read = old.read /\ x.stream = old.stream /\ x.verdict = "failed"
      /\ x.previewing = old.previewing
  BY <1>2 DEF Entry
<1> HIDE DEF x, old
<1>4. Sound(x)
  BY <1>2, <1>3 DEF Sound, Judged
<1>5. zone' \in [state : {"idle", "correct", "incorrect"}, submitting : BOOLEAN,
                 resolvedBy : Submissions \cup {0}]
  BY <1>1 DEF Inv, Typed
<1>. QED BY <1>1, <1>2, <1>3, <1>4, <1>5, Written DEF old

\* A step of the stream of s that puts nothing on the card.
LEMMA StreamMoves ==
  ASSUME Inv, NEW s \in Submissions, NEW x \in Entry, Becomes(s, x), Sound(x),
         UNCHANGED <<level, step, zone, current, card>>,
         x.at = submission[s].at, x.verdict = submission[s].verdict,
         x.read = submission[s].read, SoFar(x) = SoFar(submission[s]),
         x.stream # "settled", submission[s].stream # "settled"
  PROVE  Inv' /\ CardStep
<1>1. s # 0
  BY ClientAssumption DEF Submissions
<1>2. card.of = s => Fits(x, card)
  BY <1>1 DEF Inv, Fits, Judged
<1>. QED BY <1>2, Written

LEMMA ServerKeeps ==
  ASSUME Inv, NEW s \in Submissions,
         ServerReveals(s) \/ ServerConcludes(s) \/ Open(s) \/ Drop(s) \/ Ceiling(s) \/ JsonFails(s)
  PROVE  Inv' /\ CardStep
<1> DEFINE old == submission[s]
<1>1. old \in Entry /\ Sound(old) /\ UNCHANGED <<level, step, zone, current, card>>
  BY DEF Inv, Typed, ServerReveals, ServerConcludes, Open, Drop, Ceiling, JsonFails
<1>2. old.shown \in Contract!Shown /\ Len(old.shown) \in Nat /\ old.read \in Nat
      /\ old.read <= Len(old.shown)
  BY <1>1, ShownIsSeq DEF Entry, Sound
<1>3. CASE ServerReveals(s)
  <2>1. /\ old.stream = "open" /\ old.final = "none"
        /\ \E more \in Contract!Longer(old.shown) : Becomes(s, [old EXCEPT !.shown = more])
    BY <1>3 DEF ServerReveals
  <2>2. PICK more \in Contract!Longer(old.shown) : Becomes(s, [old EXCEPT !.shown = more])
    BY <2>1
  <2> DEFINE x == [old EXCEPT !.shown = more]
  <2>3. /\ more \in Contract!Shown /\ Len(more) > Len(old.shown)
        /\ SubSeq(more, 1, old.read) = SubSeq(old.shown, 1, old.read)
    <3>1. old.read \in 0..Len(old.shown)
      BY <1>2
    <3>. QED BY <1>2, <3>1, LongerGoesOn
  <2>4. /\ x \in Entry /\ x.shown = more /\ x.at = old.at /\ x.final = old.final
        /\ x.read = old.read /\ x.stream = old.stream /\ x.verdict = old.verdict
        /\ x.previewing = old.previewing
    BY <1>1, <2>3 DEF Entry
  <2> HIDE DEF x
  <2>5. Sound(x)
    <3>1. Len(more) \in Nat
      BY <2>3, ShownIsSeq
    <3>2. x.read <= Len(x.shown)
      BY <1>2, <2>3, <2>4, <3>1
    <3>. QED BY <1>1, <2>1, <2>4, <3>2 DEF Sound, Judged
  <2>6. SoFar(x) = SoFar(old)
    BY <2>3, <2>4 DEF SoFar
  <2>. QED BY <1>1, <2>1, <2>2, <2>4, <2>5, <2>6, StreamMoves DEF x
<1>4. CASE ServerConcludes(s)
  <2>1. /\ old.stream = "open" /\ old.final = "none"
        /\ \E f \in Contract!Finals(old.shown) : Becomes(s, [old EXCEPT !.final = f])
    BY <1>4 DEF ServerConcludes
  <2>2. PICK f \in Contract!Finals(old.shown) : Becomes(s, [old EXCEPT !.final = f])
    BY <2>1
  <2> DEFINE x == [old EXCEPT !.final = f]
  <2>3. \/ old.shown = <<>> /\ f \in {"fallback", "empty"}
        \/ old.shown # <<>> /\ f = "shown"
    BY DEF Contract!Finals
  <2>4. /\ x \in Entry /\ x.shown = old.shown /\ x.at = old.at /\ x.final = f
        /\ x.read = old.read /\ x.stream = old.stream /\ x.verdict = old.verdict
        /\ x.previewing = old.previewing
    BY <1>1, <2>3 DEF Entry
  <2> HIDE DEF x
  <2>5. Sound(x) /\ SoFar(x) = SoFar(old)
    BY <1>1, <2>1, <2>3, <2>4 DEF Sound, Judged, SoFar
  <2>. QED BY <1>1, <2>1, <2>2, <2>4, <2>5, StreamMoves DEF x
<1>5. ASSUME NEW y \in {"open", "json", "stream_disconnected", "stream_timeout", "lost"},
             y = "json" => old.stream = "opening",
             old.stream \in {"opening", "open", "json"},
             Becomes(s, [old EXCEPT !.stream = y])
      PROVE  Inv' /\ CardStep
  <2> DEFINE x == [old EXCEPT !.stream = y]
  <2>1. /\ x \in Entry /\ x.shown = old.shown /\ x.at = old.at /\ x.final = old.final
        /\ x.read = old.read /\ x.stream = y /\ x.verdict = old.verdict
        /\ x.previewing = old.previewing
    BY <1>1 DEF Entry
  <2> HIDE DEF x
  <2>2. Sound(x) /\ SoFar(x) = SoFar(old)
    BY <1>1, <1>5, <2>1 DEF Sound, Judged, SoFar
  <2>. QED BY <1>1, <1>5, <2>1, <2>2, StreamMoves DEF x
<1>6. CASE Open(s)
  BY <1>5, <1>6 DEF Open
<1>7. CASE Drop(s)
  BY <1>5, <1>7 DEF Drop
<1>8. CASE Ceiling(s)
  BY <1>5, <1>8 DEF Ceiling
<1>9. CASE JsonFails(s)
  BY <1>5, <1>9 DEF JsonFails
<1>. QED BY <1>3, <1>4, <1>6, <1>7, <1>8, <1>9

LEMMA ReadKeeps ==
  ASSUME Inv, NEW s \in Submissions, Read(s)
  PROVE  Inv' /\ CardStep
<1> DEFINE old == submission[s]
           next == [old EXCEPT !.read = old.read + 1]
           last == [old EXCEPT !.stream = "final"]
<1>1. /\ old \in Entry /\ Sound(old) /\ old.stream = "open" /\ s # 0
      /\ UNCHANGED <<level, step, zone, current>>
  BY ClientAssumption DEF Inv, Typed, Read, Submissions
<1>2. old.shown \in Contract!Shown /\ Len(old.shown) \in Nat /\ old.read \in Nat
      /\ old.read <= Len(old.shown)
  BY <1>1, ShownIsSeq DEF Entry, Sound
<1>3. CASE old.read < Len(old.shown)
  <2>1. Becomes(s, next) /\ Preview(s, next)
    BY <1>3 DEF Read
  <2>2. /\ next \in Entry /\ next.shown = old.shown /\ next.at = old.at /\ next.final = old.final
        /\ next.read = old.read + 1 /\ next.stream = "open" /\ next.verdict = old.verdict
        /\ next.previewing = old.previewing
    BY <1>1, <1>2 DEF Entry
  <2> HIDE DEF next
  <2>3. Sound(next)
    BY <1>1, <1>2, <1>3, <2>2 DEF Sound, Judged
  <2>4. next.read > 0
    BY <1>2, <2>2
  <2>5. CASE next.previewing /\ current = s
    <3> DEFINE t == Analysis(SoFar(next))
    <3>1. t \in Texts /\ (level = "LOW" => Len(t) <= 1)
      BY <2>2, <2>3, <2>4, ReadSoFar DEF Sound
    <3>2. card' = [of |-> s, text |-> t]
      BY <2>1, <2>4, <2>5 DEF Preview
    <3>3. s = Latest /\ old.at = step /\ step # 0 /\ Judged(next) /\ level # "NONE"
      BY <1>1, <2>2, <2>3, <2>5, ClientAssumption DEF Inv, InTurn, Typed, Sound
    <3>4. Fits(next, card')
      BY <2>2, <2>4, <3>2, <3>3 DEF Fits
    <3>5. ASSUME card.of = s PROVE IsPrefix(card.text, t)
      <4>1. old.read > 0 /\ card.text = Analysis(SoFar(old))
        BY <1>1, <2>5, <3>3, <3>5 DEF Inv, Fits
      <4>2. next.read \in 0..Len(old.shown) /\ old.read \in 1..next.read
        BY <1>2, <1>3, <2>2, <4>1
      <4>. QED BY <1>2, <2>2, <4>1, <4>2, AnalysisGrows DEF SoFar
    <3> HIDE DEF t
    <3>. QED BY <1>1, <2>1, <2>2, <2>3, <3>1, <3>2, <3>3, <3>4, <3>5, Written
  <2>6. CASE ~(next.previewing /\ current = s)
    <3>1. card' = card
      BY <2>1, <2>6 DEF Preview
    <3>2. card.of = s => Fits(next, card)
      BY <1>1, <2>2, <2>3, <2>4, <2>6 DEF Inv, Fits, Judged, Sound
    <3>. QED BY <1>1, <2>1, <2>2, <2>3, <3>1, <3>2, Written
  <2>. QED BY <2>5, <2>6
<1>4. CASE ~(old.read < Len(old.shown))
  <2>1. Becomes(s, last) /\ old.final # "none" /\ card' = card
    BY <1>4 DEF Read
  <2>2. /\ last \in Entry /\ last.shown = old.shown /\ last.at = old.at /\ last.final = old.final
        /\ last.read = old.read /\ last.stream = "final" /\ last.verdict = old.verdict
        /\ last.previewing = old.previewing
    BY <1>1 DEF Entry
  <2> HIDE DEF last
  <2>3. Sound(last) /\ SoFar(last) = SoFar(old)
    BY <1>1, <2>1, <2>2 DEF Sound, Judged, SoFar
  <2>. QED BY <1>1, <2>1, <2>2, <2>3, StreamMoves
<1>. QED BY <1>3, <1>4

\* y is the answer with its final text: as streamed, or as the JSON call gave it.
LEMMA SettleKeeps ==
  ASSUME Inv, NEW s \in Submissions, NEW y \in Entry, Settle(s, y), Judged(submission[s]),
         y.at = submission[s].at, y.verdict = submission[s].verdict, y.read = submission[s].read,
         y.previewing = submission[s].previewing, y.read <= Len(y.shown), y.final # "none"
           \/ y.stream \in {"stream_disconnected", "stream_timeout"},
         y.final = "shown" => y.shown # <<>>, y.final \in {"fallback", "empty"} => y.shown = <<>>,
         y = submission[s] \/ y.read = 0, submission[s].stream # "settled"
  PROVE  Inv' /\ CardStep
<1> DEFINE old == submission[s]
           text == Displayed(y)
           x == [y EXCEPT !.stream = "settled", !.log = text]
<1>1. /\ Becomes(s, x) /\ UNCHANGED <<level, step, zone, current>> /\ s # 0
      /\ card' = IF current = s /\ text # <<>> THEN [of |-> s, text |-> text] ELSE card
      /\ old \in Entry /\ Sound(old)
  BY ClientAssumption DEF Settle, Submissions, Inv, Typed
<1>2. y.shown \in Contract!Shown /\ Len(y.shown) \in Nat /\ y.read \in Nat
  BY ShownIsSeq DEF Entry
<1>3. \/ text = <<>>
      \/ text = DISCONNECTED_FALLBACK_TEXT
      \/ y.final = "shown" /\ text = Analysis(y.shown)
      \/ y.final = "fallback" /\ text = FALLBACK_EXPLANATION
  <2>1. y.final \in {"none", "shown", "fallback", "empty"}
    BY DEF Entry
  <2>. QED BY <2>1 DEF Displayed
<1>4. text \in Texts /\ (level = "LOW" /\ text # <<>> => Len(text) <= 1)
  <2>1. y.final = "shown" => Analysis(y.shown) \in Contract!Shown
                             /\ (level = "LOW" => Len(Analysis(y.shown)) <= 1)
    BY <1>2, AnalysisOf
  <2>2. Len(DISCONNECTED_FALLBACK_TEXT) <= 1 /\ Len(FALLBACK_EXPLANATION) <= 1
    BY DEF DISCONNECTED_FALLBACK_TEXT, FALLBACK_EXPLANATION
  <2> HIDE DEF text
  <2>3. CASE text = <<>>
    BY <2>3, EmptyIsShown
  <2>4. CASE text = DISCONNECTED_FALLBACK_TEXT \/ text = FALLBACK_EXPLANATION
    BY <2>2, <2>4 DEF Texts
  <2>5. CASE y.final = "shown" /\ text = Analysis(y.shown)
    BY <2>1, <2>5 DEF Texts
  <2>. QED BY <1>3, <2>3, <2>4, <2>5
<1>5. text # <<>> => level # "NONE"
  BY DEF Displayed
<1> HIDE DEF text
<1>6. /\ x \in Entry /\ x.shown = y.shown /\ x.at = old.at /\ x.final = y.final
      /\ x.read = y.read /\ x.stream = "settled" /\ x.verdict = old.verdict
      /\ x.previewing = old.previewing /\ x.log = text
  BY <1>4 DEF Entry
<1> HIDE DEF x
<1>7. Sound(x) /\ Judged(x)
  BY <1>1, <1>6 DEF Sound, Judged
<1>8. CASE current = s /\ text # <<>>
  <2>1. s = Latest /\ old.at = step /\ step # 0
    BY <1>1, <1>8, ClientAssumption DEF Inv, InTurn, Typed
  <2>2. card' = [of |-> s, text |-> text]
    BY <1>1, <1>8
  <2>3. Fits(x, card')
    BY <1>6, <1>7, <2>1, <2>2 DEF Fits
  <2>4. ASSUME card.of = s
        PROVE  IsPrefix(card.text, text) \/ text = DISCONNECTED_FALLBACK_TEXT
    <3>1. old.read > 0 /\ card.text = Analysis(SoFar(old))
      BY <1>1, <1>5, <1>8, <2>4 DEF Inv, Fits
    <3>2. y = old /\ y.shown # <<>>
      <4>1. y = old
        BY <3>1
      <4>2. ASSUME y.shown = <<>> PROVE FALSE
        BY <1>2, <3>1, <4>1, <4>2, EmptyIsShown
      <4>. QED BY <4>1, <4>2
    <3>3. CASE y.final = "shown" /\ text = Analysis(y.shown)
      <4>1. SubSeq(y.shown, 1, Len(y.shown)) = y.shown
        BY <1>2, ShownIsSeq, SubSeqFull
      <4>2. Len(y.shown) \in 0..Len(y.shown) /\ y.read \in 1..Len(y.shown)
        BY <1>2, <3>1, <3>2
      <4>3. IsPrefix(Analysis(SubSeq(y.shown, 1, y.read)), Analysis(SubSeq(y.shown, 1, Len(y.shown))))
        BY <1>2, <4>2, AnalysisGrows
      <4>. QED BY <3>1, <3>2, <3>3, <4>1, <4>3 DEF SoFar
    <3>. QED BY <1>3, <1>8, <3>2, <3>3
  <2>. QED BY <1>1, <1>4, <1>6, <1>7, <1>8, <2>1, <2>2, <2>3, <2>4, Written
<1>9. CASE ~(current = s /\ text # <<>>)
  <2>1. card' = card
    BY <1>1, <1>9
  <2>2. card.of = s => Fits(x, card)
    BY <1>1, <1>6, <1>7, <1>9 DEF Inv, Fits
  <2>. QED BY <1>1, <1>6, <1>7, <2>1, <2>2, Written
<1>. QED BY <1>8, <1>9

LEMMA ResolveKeeps ==
  ASSUME Inv, NEW s \in Submissions, Resolve(s) \/ ResolveJson(s)
  PROVE  Inv' /\ CardStep
<1> DEFINE old == submission[s]
<1>1. old \in Entry /\ Sound(old) /\ Judged(old)
  BY DEF Inv, Typed, Resolve, ResolveJson
<1>2. old.shown \in Contract!Shown /\ Len(old.shown) \in Nat /\ old.read \in Nat
      /\ old.read <= Len(old.shown)
  BY <1>1, ShownIsSeq DEF Entry, Sound
<1>3. CASE Resolve(s)
  <2>1. Settle(s, old) /\ old.stream \in {"final", "stream_disconnected", "stream_timeout"}
    BY <1>3 DEF Resolve
  <2>. QED BY <1>1, <1>2, <2>1, SettleKeeps DEF Sound
<1>4. CASE ResolveJson(s)
  <2>1. old.stream = "json" /\ old.shown = <<>> /\ old.read = 0
    <3>1. old.stream = "json" /\ old.shown = <<>>
      BY <1>1, <1>4 DEF ResolveJson, Sound
    <3>. QED BY <1>2, <3>1, EmptyIsShown
  <2>2. ASSUME NEW text \in Contract!Longer(<<>>),
               Settle(s, [old EXCEPT !.shown = text, !.final = "shown"])
        PROVE  Inv' /\ CardStep
    <3> DEFINE y == [old EXCEPT !.shown = text, !.final = "shown"]
    <3>1. text \in Contract!Shown /\ Len(text) > 0 /\ Len(text) \in Nat
      BY <2>2, EmptyIsShown, LongerGoesOn, ShownIsSeq
    <3>2. /\ y \in Entry /\ y.shown = text /\ y.at = old.at /\ y.final = "shown"
          /\ y.read = 0 /\ y.stream = "json" /\ y.verdict = old.verdict
          /\ y.previewing = old.previewing
      BY <1>1, <2>1, <3>1 DEF Entry
    <3> HIDE DEF y
    <3>3. y.shown # <<>> /\ y.read <= Len(y.shown)
      BY <3>1, <3>2, EmptyIsShown
    <3>4. Settle(s, y)
      BY <2>2 DEF y
    <3>. QED BY <1>1, <2>1, <3>2, <3>3, <3>4, SettleKeeps
  <2>3. ASSUME Settle(s, [old EXCEPT !.final = "fallback"]) PROVE Inv' /\ CardStep
    <3> DEFINE y == [old EXCEPT !.final = "fallback"]
    <3>1. /\ y \in Entry /\ y.shown = <<>> /\ y.at = old.at /\ y.final = "fallback"
          /\ y.read = 0 /\ y.stream = "json" /\ y.verdict = old.verdict
          /\ y.previewing = old.previewing
      BY <1>1, <2>1 DEF Entry
    <3> HIDE DEF y
    <3>2. y.read <= Len(y.shown)
      BY <3>1, EmptyIsShown
    <3>3. Settle(s, y)
      BY <2>3 DEF y
    <3>. QED BY <1>1, <2>1, <3>1, <3>2, <3>3, SettleKeeps
  <2>. QED BY <1>4, <2>2, <2>3 DEF ResolveJson
<1>. QED BY <1>3, <1>4

LEMMA InvStep == Inv /\ [Next]_vars => Inv' /\ CardStep
<1> SUFFICES ASSUME Inv, [Next]_vars PROVE Inv' /\ CardStep
  OBVIOUS
<1>1. CASE Next
  BY <1>1, LeaveKeeps, SubmitKeeps, VerdictFailsKeeps, ResetKeeps, VerdictKeeps, ServerKeeps,
     ReadKeeps, ResolveKeeps DEF Next
<1>2. CASE UNCHANGED vars
  <2>1. Typed' /\ InTurn' /\ card' = card
    BY <1>2 DEF vars, Inv, Typed, InTurn, Given, Latest
  <2>2. \A t \in Submissions : Sound(submission[t])'
    BY <1>2 DEF vars, Inv, Sound, Judged
  <2>3. card'.of # 0 => Fits(submission[card.of], card)'
    BY <1>2 DEF vars, Inv, Fits, Judged, SoFar, Analysis
  <2>. QED BY <1>2, <2>1, <2>2, <2>3 DEF vars, Inv, OneSentenceAtLow, CardStep
<1>. QED BY <1>1, <1>2

LEMMA InvIsHonest == Inv => CardIsHonest
<1> SUFFICES ASSUME Inv PROVE CardIsHonest
  OBVIOUS
<1>1. TypeOK
  <2> SUFFICES ASSUME NEW s \in Submissions
               PROVE  /\ submission[s].at \in 0..Steps
                      /\ submission[s].verdict \in {"none", "awaited", "right", "wrong", "failed"}
                      /\ submission[s].shown \in Contract!Shown
                      /\ submission[s].read \in 0..Len(submission[s].shown)
                      /\ submission[s].log \in Texts \cup {<<"no">>}
    BY DEF Inv, Typed, TypeOK
  <2>1. submission[s] \in Entry /\ submission[s].read <= Len(submission[s].shown)
    BY DEF Inv, Typed, Sound
  <2>2. Len(submission[s].shown) \in Nat
    BY <2>1, ShownIsSeq DEF Entry
  <2>. QED BY <2>1, <2>2 DEF Entry
<1>2. CardIsAboutTheStep
  BY DEF Inv, Fits, CardIsAboutTheStep
<1>3. LogAgreesWithCard
  BY ClientAssumption DEF Inv, Fits, LogAgreesWithCard, Submissions
<1>. QED BY <1>1, <1>2, <1>3 DEF Inv, CardIsHonest

LEMMA InvAlways == Spec => []Inv
<1>1. Inv /\ [Next]_vars => Inv'
  BY InvStep
<1>. QED BY <1>1, InvInit, PTL DEF Spec

(* However late a verdict, a stream or its failure comes, and whatever the *)
(* student has gone on to, the feedback card is about the step on screen   *)
(* (the submission token of PredictionZone.tsx), says what the interaction *)
(* log will say it said, and at LOW is one sentence.                       *)
THEOREM HonestCard == Spec => []CardIsHonest
BY InvAlways, InvIsHonest, PTL

(* No earlier answer's feedback comes back, and what a student has read of *)
(* one answer is only ever continued, taken away as a whole, or replaced   *)
(* by the notice that the connection broke.                                *)
THEOREM GrowingCard == Spec => CardOnlyGrows
<1>1. Inv /\ [Next]_vars => [CardNeverGoesBack /\ ReadTextStands]_card
  BY InvStep DEF CardStep
<1>. QED BY <1>1, InvAlways, PTL DEF Spec, CardOnlyGrows
=============================================================================
