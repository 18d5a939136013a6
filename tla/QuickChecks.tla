----------------------------- MODULE QuickChecks -----------------------------
(***************************************************************************)
(* The authored questions: the Quick Checks of remediationTasks.ts, three  *)
(* levels for each category and study topic, and the pre- and post-test's  *)
(* items (assessmentItemBank.ts), with the tables of                       *)
(* misconceptionProbes.ts. A question is what it asks, what it tells,      *)
(* what its options read and the one marked right; what is right is        *)
(* worked out here anew, from what the question tells.                     *)
(***************************************************************************)
EXTENDS Challenges

----------------------------------------------------------------------------
(***************************************************************************)
(* Which junctions probe a category, and how its second remediation is     *)
(* given (misconceptionProbes.ts).                                         *)
(***************************************************************************)

Mapping(junctions, task) == [probingJunctions |-> junctions, remediationTaskType |-> task]

MISCONCEPTION_PROBE_MAP ==
    [ORDER_OF_OPERATIONS |-> Mapping({"SWAP_DECISION"}, "COUNTEREXAMPLE"),
     STRUCTURAL_PROPERTY_VIOLATION |->
        Mapping({"SWAP_DECISION", "BST_DIRECTION", "ALGORITHM_COMPLETE"}, "COUNTEREXAMPLE"),
     COMPARISON_DIRECTION |->
        Mapping({"SWAP_DECISION", "MIDPOINT_DECISION", "BST_DIRECTION", "PASS_COMPLETE"}, "COUNTEREXAMPLE"),
     INVARIANT_MISAPPLICATION |->
        Mapping({"PASS_COMPLETE", "EARLY_TERMINATION", "ALGORITHM_COMPLETE", "BST_DIRECTION"}, "COUNTEREXAMPLE"),
     PREMATURE_TERMINATION |->
        Mapping({"PASS_COMPLETE", "EARLY_TERMINATION", "ALGORITHM_COMPLETE"}, "COUNTEREXAMPLE"),
     BOUNDARY_CONDITION |-> Mapping({"MIDPOINT_DECISION", "ALGORITHM_COMPLETE"}, "TRACE_COMPLETION"),
     OFF_BY_ONE |-> Mapping({"MIDPOINT_DECISION"}, "TRACE_COMPLETION"),
     STABILITY_CONFUSION |-> Mapping({"SWAP_DECISION"}, "COUNTEREXAMPLE"),
     TRAVERSAL_ORDER_CONFUSION |-> Mapping({"ALGORITHM_COMPLETE"}, "COUNTEREXAMPLE"),
     COMPLEXITY_MISATTRIBUTION |->
        Mapping({"COMPLEXITY_PREDICTION", "PASS_COMPLETE", "ALGORITHM_COMPLETE"}, "TRACE_COMPLETION")]

getProbingJunctions(category) ==
    IF category \in DOMAIN MISCONCEPTION_PROBE_MAP
    THEN MISCONCEPTION_PROBE_MAP[category].probingJunctions ELSE {}
isProbingJunction(category, junction) == junction \in getProbingJunctions(category)
getRemediationTaskType(category) ==
    IF category \in DOMAIN MISCONCEPTION_PROBE_MAP
    THEN MISCONCEPTION_PROBE_MAP[category].remediationTaskType ELSE "none"

----------------------------------------------------------------------------
(***************************************************************************)
(* The questions                                                           *)
(***************************************************************************)

Q(asks, given, options, marked) == [asks |-> asks, given |-> given, options |-> options, marked |-> marked]
Nothing == <<>>

\* One pair for each way two values can compare.
PairWith == "<" :> <<1, 2>> @@ "=" :> <<1, 1>> @@ ">" :> <<2, 1>>
Ways == DOMAIN PairWith

\* Questions about a rule or a reason, not about data.
Told(right, wrong) == Q("told", Nothing, <<right>> \o wrong, right)

SwapOrLeave(pair, right) == Q("swap", pair, <<"swap", "leave">>, right)
HalfFrom(middle, target, right) == Q("half", [middle |-> middle, target |-> target, values |-> <<>>], <<"left", "right">>, right)
HalfOf(v, middle, target, right) == Q("half", [middle |-> middle, target |-> target, values |-> v], <<"left", "right">>, right)
WhyMissed(v, t, options, right) == Q("why missed", [values |-> v, target |-> t], options, right)
\* The values looked at so far, and whether to go on.
WhatNow(v, t, seen, options) == Q("what now", [values |-> v, target |-> t, seen |-> seen], options, "stop")
AfterPass(before, after, options, right) == Q("settled", [before |-> before, after |-> after], options, right)
LastPair(n, pass, options, right) == Q("last pair", [n |-> n, pass |-> pass], options, right)
\* Twice the index, so that one and a half is a number too.
MiddleIndex(low, high, options, right) == Q("middle", [low |-> low, high |-> high], options, right)
Place(before, x, options, right) == Q("place", [before |-> before, x |-> x], options, right)
IsValid(parent, side, child) == Q("valid", [parent |-> parent, side |-> side, child |-> child], <<"invalid", "valid">>, "invalid")
Replacement(before, x, options, right) == Q("replacement", [before |-> before, x |-> x], options, right)
InOrder(before, options, right) == Q("in order", before, options, right)

----------------------------------------------------------------------------
(* The Quick Checks, level by level                                         *)

COMPARISON_DIRECTION ==
    "bubble-sort" :>
       <<SwapOrLeave(<<9, 4>>, "swap"), Q("swapped", Nothing, <<{">"}, {"<"}, Ways>>, {">"}),
         SwapOrLeave(<<3, 14>>, "leave")>>
    @@ "binary-search" :>
       <<HalfOf(<<2, 6, 11, 15, 20, 28>>, 15, 20, "right"), HalfFrom(10, 6, "left"),
         HalfOf(<<1, 13, 22, 35, 48>>, 22, 13, "left")>>
    @@ "bst" :>
       <<Place(<<30>>, 23, <<<<"left", 30>>, <<"right", 30>>>>, <<"left", 30>>),
         Place(<<30>>, 41, <<<<"right", 30>>, <<"left", 30>>>>, <<"right", 30>>),
         Place(<<20, 35>>, 26, <<<<"left", 35>>, <<"right", 35>>, <<"left", 20>>>>, <<"left", 35>>)>>

ORDER_OF_OPERATIONS ==
    "bubble-sort" :>
       <<SwapOrLeave(<<2, 13>>, "leave"), Q("swapped", Nothing, <<{">"}, Ways, {"<", ">"}>>, {">"}),
         SwapOrLeave(<<16, 21>>, "leave")>>

STRUCTURAL_PROPERTY_VIOLATION ==
    "bubble-sort" :>
       <<SwapOrLeave(<<17, 6>>, "swap"), Q("left alone", Nothing, <<{"<", "="}, {"="}, Ways>>, {"<", "="}),
         SwapOrLeave(<<23, 19>>, "swap")>>
    @@ "binary-search" :>
       <<Told("only reads", <<"sorts", "sorts the half it keeps">>),
         WhyMissed(<<9, 21, 30, 4, 16>>, 4, <<"unsorted", "small", "middle">>, "unsorted"),
         Told("nothing", <<"sorted it", "removed values">>)>>
    @@ "bst" :>
       <<IsValid(12, "left", 15), Q("goes left", Nothing, <<{"<"}, {">"}, Ways>>, {"<"}), IsValid(40, "right", 33)>>

INVARIANT_MISAPPLICATION ==
    "bubble-sort" :>
       <<AfterPass(<<8, 2, 6, 3>>, <<2, 6, 3, 8>>, <<{8}, {2, 6, 3, 8}, {2}>>, {8}),
         AfterPass(<<8, 2, 6, 3>>, <<2, 6, 3, 8>>, <<{8}, {2, 6, 3, 8}, {2}>>, {8}),
         AfterPass(<<10, 4, 13, 2>>, <<4, 10, 2, 13>>, <<{13}, {4}, {10}>>, {13})>>
    @@ "binary-search" :>
       <<Told("between low and high", <<"at the middle", "outside unsorted">>),
         WhyMissed(<<5, 12, 18, 25>>, 20, <<"absent", "unsorted", "skipped">>, "absent"),
         Q("still in", [values |-> <<1, 8, 15, 22, 36>>, target |-> 8], <<0 .. 1, 3 .. 4, 0 .. 4>>, 0 .. 1)>>
    @@ "bst" :>
       <<Replacement(<<20, 14, 27, 17>>, 20, <<27, 14, -1>>, 27),
         Told("between the sides", <<"smallest of the tree", "always a leaf">>),
         Replacement(<<44, 52, 48>>, 44, <<48, 52, -1>>, 48)>>

PREMATURE_TERMINATION ==
    "bubble-sort" :>
       <<Q("stop", <<9, 3, 7, 1>>, <<"no", "yes">>, "no"),
         Told("after a pass without swaps", <<"largest at the end", "half of the passes">>),
         Told("it stops", <<"remaining passes", "starts again">>)>>
    @@ "binary-search" :>
       <<WhatNow(<<4, 10, 15, 22, 29>>, 18, <<15, 22>>, <<"stop", "restart", "continue">>),
         WhyMissed(<<4, 10, 15, 22, 29>>, 18, <<"absent", "unsorted", "restart">>, "absent"),
         WhatNow(<<6, 11, 17, 24, 30>>, 25, <<17, 24, 30>>, <<"stop", "left", "restart">>)>>

BOUNDARY_CONDITION ==
    "bubble-sort" :>
       <<LastPair(5, 1, <<3, 4, 2>>, 3), LastPair(5, 2, <<2, 3, 4>>, 2), LastPair(6, 3, <<2, 3, 4>>, 2)>>
    @@ "binary-search" :>
       <<MiddleIndex(0, 5, <<4, 6, 5>>, 4), Told("low past high", <<"low equals high", "three comparisons">>),
         MiddleIndex(2, 7, <<8, 10, 9>>, 8)>>

STABILITY_CONFUSION ==
    "bubble-sort" :>
       <<SwapOrLeave(<<8, 8>>, "leave"), Told("keeps equal values in order", <<"saves time", "cannot compare">>),
         SwapOrLeave(<<5, 5>>, "leave")>>

TRAVERSAL_ORDER_CONFUSION ==
    "bst" :>
       <<InOrder(<<16, 9, 25>>, <<<<9, 16, 25>>, <<16, 9, 25>>, <<16, 25, 9>>>>, <<9, 16, 25>>),
         Told("in-order", <<"pre-order", "level-order">>),
         InOrder(<<38, 21, 47, 42>>, <<<<21, 38, 42, 47>>, <<38, 21, 47, 42>>, <<21, 38, 47, 42>>>>,
                 <<21, 38, 42, 47>>)>>

\* Comparisons on so many values in reverse order; probes of so many at most.
Passes(n, options, right) == Q("comparisons reversed", n, options, right)
AtMost(n, options, right) == Q("most probes", n, options, right)
COMPLEXITY_MISATTRIBUTION ==
    "bubble-sort" :>
       <<Passes(6, <<15, 6, 36, 5>>, 15), Passes(5, <<10, 5, 25, 4>>, 10), Passes(8, <<28, 8, 64, 7>>, 28)>>
    @@ "binary-search" :>
       <<AtMost(31, <<5, 31, 16, 15>>, 5), AtMost(20, <<5, 20, 10, 4>>, 5), AtMost(100, <<7, 100, 50, 10>>, 7)>>
    @@ "bst" :>
       <<Q("shape", <<1, 2, 3, 4, 5>>, <<"right chain", "balanced", "left chain">>, "right chain"),
         Q("comparisons to build", <<1, 2, 3, 4, 5>>, <<10, 5, 25, 4>>, 10),
         Q("fastest", Nothing, <<<<4, 2, 6, 1, 3, 5, 7>>, <<1, 2, 3, 4, 5, 6, 7>>, <<7, 6, 5, 4, 3, 2, 1>>>>,
           <<4, 2, 6, 1, 3, 5, 7>>)>>

SCENARIOS ==
    [COMPARISON_DIRECTION |-> COMPARISON_DIRECTION, ORDER_OF_OPERATIONS |-> ORDER_OF_OPERATIONS,
     STRUCTURAL_PROPERTY_VIOLATION |-> STRUCTURAL_PROPERTY_VIOLATION,
     INVARIANT_MISAPPLICATION |-> INVARIANT_MISAPPLICATION, PREMATURE_TERMINATION |-> PREMATURE_TERMINATION,
     BOUNDARY_CONDITION |-> BOUNDARY_CONDITION, OFF_BY_ONE |-> BOUNDARY_CONDITION,
     STABILITY_CONFUSION |-> STABILITY_CONFUSION, TRAVERSAL_ORDER_CONFUSION |-> TRAVERSAL_ORDER_CONFUSION,
     COMPLEXITY_MISATTRIBUTION |-> COMPLEXITY_MISATTRIBUTION]

authoredRemediationPairs == {<<c, t>> \in (DOMAIN SCENARIOS) \X CHALLENGE_TOPICS : t \in DOMAIN SCENARIOS[c]}

\* The task of a level; a level above three repeats the third.
NoTask == [taskType |-> "none"]
generateRemediationTask(category, topic, level) ==
    IF <<category, topic>> \notin authoredRemediationPairs THEN NoTask
    ELSE LET questions == SCENARIOS[category][topic]
             type == getRemediationTaskType(category)
             task(t, q) == [taskType |-> t, level |-> level, question |-> q]
         IN  CASE level <= 1 -> task("MICRO_PREDICTION", questions[1])
               [] level = 2  -> task(IF type = "none" THEN "COUNTEREXAMPLE" ELSE type, questions[2])
               [] OTHER      -> task("WORKED_EXAMPLE", questions[3])

----------------------------------------------------------------------------
(* The items of the pre- and the post-test                                  *)

\* Where an option is no answer of the question's kind it is a negative number.
BUBBLE_SORT_ITEMS ==
    <<AfterPass(<<5, 2, 8, 1>>, <<2, 5, 1, 8>>, <<{5}, {2}, {8}, {1}>>, {8}),
      Q("swapped", Nothing, <<{"="}, {">"}, {"<"}, {"<"}>>, {">"}),
      Q("comparisons of the last pass", <<1, 2, 3, 4>>, <<0, 3, 6, 12>>, 3),
      Q("result of pass", <<4, 3, 2, 1>>, <<>>, <<3, 2, 1, 4>>),
      Q("swaps", <<7, 7, 7, 7>>, <<0, 3, 6, -1>>, 0),
      Q("comparisons", <<9>>, <<-1, 1, 0, -2>>, 0),
      Q("passes at worst", 4, <<2, 4, 3, 16>>, 3),
      Q("result of pass", <<1, 3, 1, 4, 5>>, <<<<1, 1, 3, 4, 5>>, <<1, 3, 4, 1, 5>>, <<3, 1, 1, 4, 5>>>>, <<1, 1, 3, 4, 5>>)>>

BINARY_SEARCH_ITEMS ==
    <<AtMost(15, <<15, 8, 4, 1>>, 4),
      Q("half", [middle |-> 1, target |-> 2, values |-> <<>>], <<"left", "right", "not found", "both">>, "right"),
      Told("sorted", <<"no duplicates", "even length", "integers">>),
      Q("probes", [values |-> <<>>, target |-> 1], <<-1, 1, 0, -2>>, 0),
      Q("middles", [values |-> <<1, 3, 5, 7, 9, 11, 13>>, target |-> 9], <<>>, <<7, 11, 9>>),
      Q("probes", [values |-> <<42>>, target |-> 42], <<0, 1, 2, 0>>, 1),
      Told("may overflow", <<"constant time", "no sorting", "recursive">>),
      Told("low past high", <<"mid is the target", "empty array", "a hundred iterations">>)>>

BST_ITEMS ==
    <<Q("goes left", Nothing, <<{">"}, {"<"}, {"="}, Ways>>, {"<"}),
      Q("path", [before |-> <<10, 20>>, x |-> 15], <<<<>>, <<10>>, <<10, 20>>, <<20>>>>, <<10, 20>>),
      Told("ascending", <<"random", "descending", "as inserted">>),
      Told("successor", <<"parent", "nothing", "root">>),
      Q("comparisons to find", [before |-> <<>>, x |-> 3], <<-1, 0, -2, -3>>, 0),
      InOrder(<<8, 3, 10, 1, 6>>, <<>>, <<1, 3, 6, 8, 10>>),
      Q("height", <<5>>, <<-1, 0, 1, -2>>, 0),
      Told("leftmost on the right", <<"parent", "right child", "rightmost of all">>)>>

ITEM_BANK == "bubble-sort" :> BUBBLE_SORT_ITEMS @@ "binary-search" :> BINARY_SEARCH_ITEMS @@ "bst" :> BST_ITEMS

----------------------------------------------------------------------------
(* What is right, and what was told                                         *)

Reversed(n) == Reverse([i \in 1 .. n |-> i])
Comparisons(v) == FlattenSeq(BubblePasses(v, Len(v) - 1))
Firstpass(v) == BubblePass(v, Len(v) - 1)
Middles(v, t) == [i \in DOMAIN Probes(v, t, 0, Len(v) - 1) |-> v[Probes(v, t, 0, Len(v) - 1)[i].mid + 1]]
Log2Up(n) == CHOOSE k \in 1 .. 7 : 2 ^ (k - 1) <= n /\ n < 2 ^ k
BuildCost(v) == FoldFunction(+, 0, [i \in DOMAIN v |-> Len(PathOf(v, i))])
LeastAbove(v, x) == CHOOSE y \in Range(v) : y > x /\ \A z \in Range(v) : z > x => y <= z

RightOfSort(q) ==
    CASE q.asks = "swap"       -> IF Swaps(q.given) THEN "swap" ELSE "leave"
      [] q.asks = "swapped"    -> {r \in Ways : Swaps(PairWith[r])}
      [] q.asks = "left alone" -> {r \in Ways : ~ Swaps(PairWith[r])}
      [] q.asks = "settled"    -> {Last(q.given.after)}
      [] q.asks = "stop" -> IF \E p \in Range(Firstpass(q.given).pairs) : Swaps(p) THEN "no" ELSE "yes"
      [] q.asks = "last pair" -> q.given.n - q.given.pass - 1
      [] q.asks = "comparisons reversed" -> Len(Comparisons(Reversed(q.given)))
      [] q.asks = "comparisons" -> Len(Comparisons(q.given))
      [] q.asks = "comparisons of the last pass" -> Len(Last(BubblePasses(q.given, Len(q.given) - 1)))
      [] q.asks = "swaps" -> Len(SelectSeq(Comparisons(q.given), Swaps))
      [] q.asks = "passes at worst" -> Len(BubblePasses(Reversed(q.given), q.given - 1))
      [] q.asks = "result of pass" -> Firstpass(q.given).v

RightOfSearch(q) ==
    CASE q.asks = "half"   -> IF q.given.middle < q.given.target THEN "right" ELSE "left"
      [] q.asks = "middle" -> 2 * ((q.given.low + q.given.high) \div 2)
      [] q.asks = "why missed" ->
           IF q.given.target \notin Range(q.given.values) THEN "absent"
           ELSE IF IsAscending(q.given.values) THEN "skipped" ELSE "unsorted"
      [] q.asks = "what now" -> IF q.given.target \in Range(q.given.values) THEN "continue" ELSE "stop"
      [] q.asks = "still in" ->
           LET next == Probes(q.given.values, q.given.target, 0, Len(q.given.values) - 1)[2] IN next.low .. next.high
      [] q.asks = "probes"  -> Len(Middles(q.given.values, q.given.target))
      [] q.asks = "middles" -> Middles(q.given.values, q.given.target)
      [] q.asks = "most probes" -> Log2Up(q.given)

RightOfTree(q) ==
    CASE q.asks = "place" ->
           LET above == Last(Path(q.given.before, q.given.x))
           IN  <<IF q.given.x < above THEN "left" ELSE "right", above>>
      [] q.asks = "path" -> Path(q.given.before, q.given.x)
      [] q.asks = "comparisons to find" -> Len(Path(q.given.before, q.given.x))
      [] q.asks = "goes left" -> {r \in Ways : PairWith[r][1] < PairWith[r][2]}
      [] q.asks = "valid" ->
           IF (q.given.side = "left") = (q.given.child < q.given.parent) THEN "valid" ELSE "invalid"
      [] q.asks = "replacement" -> LeastAbove(q.given.before, q.given.x)
      [] q.asks = "in order" -> SortSeq(q.given, <)
      [] q.asks = "shape" -> IF \A i \in 2 .. Len(q.given) : q.given[i] > Last(PathOf(q.given, i))
                                 /\ Len(PathOf(q.given, i)) = i - 1 THEN "right chain" ELSE "other"
      [] q.asks = "comparisons to build" -> BuildCost(q.given)
      [] q.asks = "fastest" ->
           CHOOSE v \in Range(q.options) : \A w \in Range(q.options) : BuildCost(v) <= BuildCost(w)
      [] q.asks = "height" -> Len(PathOf(q.given, Len(q.given)))

SortQuestions ==
    {"swap", "swapped", "left alone", "settled", "stop", "last pair", "comparisons reversed", "comparisons",
     "comparisons of the last pass", "swaps", "passes at worst", "result of pass"}
SearchQuestions == {"half", "middle", "why missed", "what now", "still in", "probes", "middles", "most probes"}

RightAnswer(q) ==
    CASE q.asks = "told" -> q.marked
      [] q.asks \in SortQuestions -> RightOfSort(q)
      [] q.asks \in SearchQuestions -> RightOfSearch(q)
      [] OTHER -> RightOfTree(q)

\* The middle a Quick Check states is not the one its array has (README, section 5).
Misstated == HalfOf(<<2, 6, 11, 15, 20, 28>>, 15, 20, "right")
MiddleOf(v) == v[(Len(v) - 1) \div 2 + 1]

\* What a question says has happened is what happens.
TellsTrue(q) ==
    /\ q.asks = "settled" => Firstpass(q.given.before).v = q.given.after
    /\ q.asks = "half" /\ q.given.values # <<>> /\ q # Misstated => q.given.middle = MiddleOf(q.given.values)
    /\ q.asks = "what now" => q.given.seen = Middles(q.given.values, q.given.target)

\* The marked option is right and is offered once.
Sound(q) ==
    /\ q.marked = RightAnswer(q) /\ TellsTrue(q)
    /\ q.options # <<>> => Cardinality({i \in DOMAIN q.options : q.options[i] = q.marked}) = 1

\* The categories a study topic's wrong options carry, junction by junction.
TileCategories ==
    "bubble-sort" :>
       [SWAP_DECISION |-> {"ORDER_OF_OPERATIONS", "STRUCTURAL_PROPERTY_VIOLATION"},
        PASS_COMPLETE |-> {"PREMATURE_TERMINATION", "COMPARISON_DIRECTION", "COMPLEXITY_MISATTRIBUTION"},
        EARLY_TERMINATION |-> {"PREMATURE_TERMINATION", "INVARIANT_MISAPPLICATION"},
        COMPLEXITY_PREDICTION |-> {"COMPLEXITY_MISATTRIBUTION"},
        ALGORITHM_COMPLETE |-> {"COMPLEXITY_MISATTRIBUTION", "INVARIANT_MISAPPLICATION"}]
    @@ "binary-search" :>
       [MIDPOINT_DECISION |-> {"COMPARISON_DIRECTION"}, COMPLEXITY_PREDICTION |-> {"COMPLEXITY_MISATTRIBUTION"},
        ALGORITHM_COMPLETE |->
           {"COMPLEXITY_MISATTRIBUTION", "INVARIANT_MISAPPLICATION", "STRUCTURAL_PROPERTY_VIOLATION",
            "PREMATURE_TERMINATION", "BOUNDARY_CONDITION"}]
    @@ "bst" :>
       [BST_DIRECTION |-> {"COMPARISON_DIRECTION", "STRUCTURAL_PROPERTY_VIOLATION", "INVARIANT_MISAPPLICATION"},
        COMPLEXITY_PREDICTION |-> {"COMPLEXITY_MISATTRIBUTION"},
        ALGORITHM_COMPLETE |-> {"TRAVERSAL_ORDER_CONFUSION", "STRUCTURAL_PROPERTY_VIOLATION"}]

\* A misconception a wrong option reveals is probed where it was revealed, and
\* has Quick Checks of its own on that topic.
Responded(t) ==
    \A j \in DOMAIN TileCategories[t] : \A c \in TileCategories[t][j] :
       /\ <<c, t>> \in authoredRemediationPairs
       /\ \E k \in DOMAIN TileCategories[t] : isProbingJunction(c, k) /\ c \in TileCategories[t][k]

\* The values a question is about.
ValuesOf(q) ==
    CASE q.asks \in {"half", "why missed", "what now", "still in", "probes", "middles"} -> q.given.values
      [] q.asks \in {"place", "path", "replacement", "comparisons to find"} -> q.given.before
      [] q.asks = "settled" -> q.given.before
      [] q.asks \in {"stop", "result of pass", "swaps", "comparisons", "comparisons of the last pass",
                     "in order", "shape", "comparisons to build", "height"} -> q.given
      [] OTHER -> Nothing

\* Questions about the algorithm as such: a Quick Check may share these with
\* the test (README, section 5).
Concepts == {"told", "swapped", "left alone", "goes left", "fastest"}

\* No Quick Check is on the values of an item of the test, or asks one again.
ItemsStayOut(t) ==
    \A c \in {pair[1] : pair \in {p \in authoredRemediationPairs : p[2] = t}}, level \in 1 .. 3 :
    \A i \in DOMAIN ITEM_BANK[t] :
       LET q == generateRemediationTask(c, t, level).question
           item == ITEM_BANK[t][i]
       IN  /\ ValuesOf(q) # Nothing => ValuesOf(q) # ValuesOf(item)
           /\ q.asks = item.asks /\ q.asks \notin Concepts => q.given # item.given

==============================================================================
