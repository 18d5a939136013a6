----------------------------- MODULE Challenges -----------------------------
(***************************************************************************)
(* The AI Challenge's cases (challengeGenerators.ts): per case every input   *)
(* its generator can draw, the case chosen for a misconception, and what the *)
(* comments promise the run on that input asks.                             *)
(*                                                                          *)
(* A drawn value is its rank among the values drawn: nothing a case or a    *)
(* promise says depends on more than the order of the values.               *)
(***************************************************************************)
EXTENDS Integers, Sequences, FiniteSets, TLC, SequencesExt

\* A case's input: the values, and the value to search for or to delete.
Array(v) == [kind |-> "array", values |-> v, target |-> 0]
Search(v, t) == [kind |-> "search", values |-> v, target |-> t]
BstInsert(v) == [kind |-> "bst-insert", values |-> v, target |-> 0]
BstDelete(v, d) == [kind |-> "bst-delete", values |-> v, target |-> d]

CHALLENGE_TOPICS == {"bubble-sort", "binary-search", "bst"}
hasChallengeGenerator(topic) == topic \in CHALLENGE_TOPICS

sizeFor == [BEGINNER |-> 5, INTERMEDIATE |-> 6, ADVANCED |-> 7]

distinctAscending(count) == [i \in 1 .. count |-> i]
evenAscending(count) == [i \in 1 .. count |-> 2 * i]
shuffled(v) == SetToSeqs(Range(v))
IsAscending(v) == \A i \in 1 .. Len(v) - 1 : v[i] < v[i + 1]

\* The middle of each stretch before the middles of its halves.
RECURSIVE MiddlesFirst(_)
MiddlesFirst(queue) ==
    IF queue = <<>> THEN <<>>
    ELSE LET low == Head(queue)[1]
             high == Head(queue)[2]
             m == (low + high) \div 2
         IN  IF low > high THEN MiddlesFirst(Tail(queue))
             ELSE <<m + 1>> \o MiddlesFirst(Tail(queue) \o <<<<low, m - 1>>, <<m + 1, high>>>>)
balancedOrder(count) == MiddlesFirst(<<<<0, count - 1>>>>)

----------------------------------------------------------------------------
(* What inserting the values in order asks                                  *)

\* The values a value is compared with on its way down a tree that holds those
\* inserted before it: a node is met if no node above it sent the value away
\* from it, and an equal value goes right.
Path(before, x) ==
    FoldLeft(LAMBDA way, w :
               IF way.low <= w /\ w < way.high
               THEN [way EXCEPT !.met = Append(@, w), ![IF x < w THEN "high" ELSE "low"] = w]
               ELSE way,
             [low |-> 0, high |-> 1000, met |-> <<>>], before).met
PathOf(v, i) == Path(SubSeq(v, 1, i - 1), v[i])

\* A value with a smaller and a greater value below it.
nodesWithTwoChildren(v) ==
    LET below(d) == {v[i] : i \in {j \in 1 .. Len(v) : v[j] # d /\ d \in Range(PathOf(v, j))}}
    IN  {d \in Range(v) : (\E x \in below(d) : x < d) /\ (\E x \in below(d) : x > d)}

----------------------------------------------------------------------------
(* The cases                                                                *)

\* Wrong: an ascending shuffle is taken as it is.
DoubledAsShuffled(size) ==
    {Array(SubSeq(FlattenSeq([i \in 1 .. Len(s) |-> <<s[i], s[i]>>]), 1, size)) :
        s \in shuffled(distinctAscending((size + 1) \div 2))}
DoubledInputs(size) ==
    {LET base == IF IsAscending(s) THEN Reverse(s) ELSE s
     IN  Array(SubSeq(FlattenSeq([i \in 1 .. Len(base) |-> <<base[i], base[i]>>]), 1, size)) :
        s \in shuffled(distinctAscending((size + 1) \div 2))}

BUBBLE_CASES(caseId, size) ==
    CASE caseId = "reverse-sorted"      -> {Array(Reverse(distinctAscending(size)))}
      [] caseId = "already-sorted"      -> {Array(distinctAscending(size))}
      [] caseId = "all-equal"           -> {Array([i \in 1 .. size |-> 7])}
      [] caseId = "adjacent-duplicates" -> DoubledInputs(size)
      [] caseId = "single-element"      -> {Array(<<9>>)}
      [] caseId = "two-elements"        -> {Array(<<2, 1>>)}

BINARY_SEARCH_CASES(caseId, size) ==
    LET v == evenAscending(size)
        even == evenAscending(IF size % 2 = 0 THEN size ELSE size + 1)
    IN  CASE caseId = "target-absent"  -> {Search(v, v[gap] + 1) : gap \in 1 .. size - 1}
          [] caseId = "target-first"   -> {Search(v, Head(v))}
          [] caseId = "target-last"    -> {Search(v, Last(v))}
          [] caseId = "even-length"    -> {Search(even, even[i]) : i \in 2 .. Len(even)}
          [] caseId = "single-element" -> {Search(<<14>>, 14)}

BST_CASES(caseId, size) ==
    CASE caseId = "ascending-chain" -> {BstInsert(distinctAscending(size))}
      [] caseId = "balanced"        -> {BstInsert(balancedOrder(size))}
      [] caseId = "duplicate-value" ->
           LET v == balancedOrder(size - 1) IN {BstInsert(Append(v, x)) : x \in Range(Tail(v))}
      [] caseId = "delete-two-children" ->
           LET v == balancedOrder(IF size > 7 THEN size ELSE 7)
           IN  {BstDelete(v, d) : d \in nodesWithTwoChildren(v)}

CASES(topic, caseId, size) ==
    CASE topic = "bubble-sort"   -> BUBBLE_CASES(caseId, size)
      [] topic = "binary-search" -> BINARY_SEARCH_CASES(caseId, size)
      [] topic = "bst"           -> BST_CASES(caseId, size)

MISCONCEPTION_CASES ==
    "bubble-sort" :>
       [ORDER_OF_OPERATIONS |-> {"already-sorted"}, STRUCTURAL_PROPERTY_VIOLATION |-> {"reverse-sorted"},
        PREMATURE_TERMINATION |-> {"reverse-sorted"}, INVARIANT_MISAPPLICATION |-> {"all-equal"},
        COMPARISON_DIRECTION |-> {"adjacent-duplicates"}, STABILITY_CONFUSION |-> {"adjacent-duplicates"},
        COMPLEXITY_MISATTRIBUTION |-> {"reverse-sorted"}, BOUNDARY_CONDITION |-> {"two-elements"},
        OFF_BY_ONE |-> {"two-elements"}, BASE_CASE_OMISSION |-> {"single-element"}]
    @@ "binary-search" :>
       [COMPARISON_DIRECTION |-> {"target-first", "target-last"}, PREMATURE_TERMINATION |-> {"target-absent"},
        BOUNDARY_CONDITION |-> {"target-absent"}, INVARIANT_MISAPPLICATION |-> {"target-absent"},
        COMPLEXITY_MISATTRIBUTION |-> {"target-absent"}, STRUCTURAL_PROPERTY_VIOLATION |-> {"even-length"},
        OFF_BY_ONE |-> {"even-length"}, BASE_CASE_OMISSION |-> {"single-element"}]
    @@ "bst" :>
       [COMPARISON_DIRECTION |-> {"duplicate-value"}, STRUCTURAL_PROPERTY_VIOLATION |-> {"balanced"},
        TRAVERSAL_ORDER_CONFUSION |-> {"balanced"}, INVARIANT_MISAPPLICATION |-> {"delete-two-children"},
        COMPLEXITY_MISATTRIBUTION |-> {"ascending-chain"}]

GENERAL_CASES ==
    "bubble-sort" :> {"reverse-sorted", "adjacent-duplicates", "already-sorted", "all-equal"}
    @@ "binary-search" :> {"target-absent", "target-first", "target-last", "even-length"}
    @@ "bst" :> {"balanced", "ascending-chain", "duplicate-value", "delete-two-children"}

NoMisconception == "none"
Challenge(c, m, i) == [caseId |-> c, targets |-> m, input |-> i]

\* Every challenge a seed can give: on a case for the misconception when the
\* topic has one, on a general case when it has not.
generateChallenge(topic, misconception, difficulty) ==
    LET mapped == misconception \in DOMAIN MISCONCEPTION_CASES[topic]
        choice == IF mapped THEN MISCONCEPTION_CASES[topic][misconception] ELSE GENERAL_CASES[topic]
    IN  UNION {{Challenge(c, IF mapped THEN misconception ELSE NoMisconception, i) :
                  i \in CASES(topic, c, sizeFor[difficulty])} : c \in choice}

----------------------------------------------------------------------------
(* What the comments promise of the run on a case                           *)

\* The pairs bubble sort compares, pass by pass, until a pass without a swap.
BubblePass(v, last) ==
    FoldLeft(LAMBDA pass, i :
               [v |-> IF pass.v[i] > pass.v[i + 1]
                      THEN [pass.v EXCEPT ![i] = pass.v[i + 1], ![i + 1] = pass.v[i]] ELSE pass.v,
                pairs |-> Append(pass.pairs, <<pass.v[i], pass.v[i + 1]>>)],
             [v |-> v, pairs |-> <<>>], [i \in 1 .. last |-> i])
Swaps(pair) == pair[1] > pair[2]
RECURSIVE BubblePasses(_, _)
BubblePasses(v, last) ==
    IF last < 1 THEN <<>>
    ELSE LET pass == BubblePass(v, last)
         IN  <<pass.pairs>>
               \o IF \E pair \in Range(pass.pairs) : Swaps(pair) THEN BubblePasses(pass.v, last - 1) ELSE <<>>

\* The midpoints a binary search looks at, with the bounds it has then.
RECURSIVE Probes(_, _, _, _)
Probes(v, t, low, high) ==
    IF low > high THEN <<>>
    ELSE LET mid == (low + high) \div 2
             probe == <<[low |-> low, mid |-> mid, high |-> high]>>
         IN  CASE v[mid + 1] = t -> probe
               [] v[mid + 1] < t -> probe \o Probes(v, t, mid + 1, high)
               [] OTHER          -> probe \o Probes(v, t, low, mid - 1)

RECURSIVE PreOrder(_)
PreOrder(v) ==
    IF v = <<>> THEN <<>>
    ELSE <<Head(v)>> \o PreOrder(SelectSeq(Tail(v), LAMBDA x : x < Head(v)))
                     \o PreOrder(SelectSeq(Tail(v), LAMBDA x : x >= Head(v)))

\* More passes than one never leave the values in order before the last.
BubbleAsks(m, v) ==
    LET passes == BubblePasses(v, Len(v) - 1)
        pairs == FlattenSeq(passes)
    IN  CASE m = "ORDER_OF_OPERATIONS" -> pairs # <<>> /\ ~ \E p \in Range(pairs) : Swaps(p)
          [] m = "STRUCTURAL_PROPERTY_VIOLATION" -> \A p \in Range(pairs) : Swaps(p)
          [] m = "PREMATURE_TERMINATION" ->
               Len(passes) = Len(v) - 1 /\ \A k \in DOMAIN passes : \E p \in Range(passes[k]) : Swaps(p)
          [] m = "INVARIANT_MISAPPLICATION" -> Len(passes) = 1 /\ \A p \in Range(pairs) : p[1] = p[2]
          [] m \in {"COMPARISON_DIRECTION", "STABILITY_CONFUSION"} ->
               (\E p \in Range(pairs) : Swaps(p)) /\ (\E p \in Range(pairs) : p[1] = p[2])
          [] m = "COMPLEXITY_MISATTRIBUTION" -> Len(pairs) = (Len(v) * (Len(v) - 1)) \div 2
          [] m \in {"BOUNDARY_CONDITION", "OFF_BY_ONE"} -> Len(pairs) = 1 /\ Swaps(pairs[1])
          [] m = "BASE_CASE_OMISSION" -> pairs = <<>>

\* The most probes a search of so many values can need.
MostProbes(count) == CHOOSE k \in 1 .. 4 : 2 ^ (k - 1) <= count /\ count < 2 ^ k
\* The comment's "most probes the array can need" is not so of this gap (README, section 5).
ShortOfTheMost(v, t) == Len(v) = 5 /\ v[3] < t /\ t < v[4]

BinaryAsks(m, v, t) ==
    LET probes == Probes(v, t, 0, Len(v) - 1)
        decided == {v[p.mid + 1] : p \in Range(probes)} \ {t}
    IN  CASE m = "COMPARISON_DIRECTION" ->
               decided # {} /\ ((\A x \in decided : x > t) \/ (\A x \in decided : x < t))
          [] m \in {"PREMATURE_TERMINATION", "BOUNDARY_CONDITION", "INVARIANT_MISAPPLICATION"} ->
               t \notin Range(v) /\ Len(probes) > 1
          [] m = "COMPLEXITY_MISATTRIBUTION" -> Len(probes) = MostProbes(Len(v)) \/ ShortOfTheMost(v, t)
          [] m \in {"STRUCTURAL_PROPERTY_VIOLATION", "OFF_BY_ONE"} -> (probes[1].low + probes[1].high) % 2 = 1
          [] m = "BASE_CASE_OMISSION" -> Len(probes) = 1 /\ t \in Range(v)

BstAsks(m, v, d) ==
    LET decided == UNION {{<<v[i], w>> : w \in Range(PathOf(v, i))} : i \in 1 .. Len(v)}
    IN  CASE m = "COMPARISON_DIRECTION" -> \E p \in decided : p[1] = p[2]
          [] m = "STRUCTURAL_PROPERTY_VIOLATION" ->
               (\E p \in decided : p[1] < p[2]) /\ (\E p \in decided : p[1] > p[2])
          [] m = "TRAVERSAL_ORDER_CONFUSION" ->
               Cardinality({v, PreOrder(v), SortSeq(v, <)}) = 3
          [] m = "INVARIANT_MISAPPLICATION" -> d \in nodesWithTwoChildren(v)
          [] m = "COMPLEXITY_MISATTRIBUTION" -> Cardinality(decided) = (Len(v) * (Len(v) - 1)) \div 2

\* The run asks the decision the misconception gets wrong.
Asks(topic, m, input) ==
    CASE topic = "bubble-sort"   -> BubbleAsks(m, input.values)
      [] topic = "binary-search" -> BinaryAsks(m, input.values, input.target)
      [] topic = "bst"           -> BstAsks(m, input.values, input.target)
=============================================================================
