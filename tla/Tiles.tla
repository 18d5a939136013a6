-------------------------------- MODULE Tiles --------------------------------
(***************************************************************************)
(* The options the learner is shown at a Critical Junction                  *)
(* (apps/web/src/utils/tileBuilder.ts, getTilesForSnapshot) and the one     *)
(* revealed on request (correctTile.ts, correctTileIdFor).  An option is    *)
(* its id, what its label reads, and whether it is marked as the right one  *)
(* (no misconception attached).  Where both options are possible actions    *)
(* neither is marked.  Display order is shuffled and left out.              *)
(***************************************************************************)
EXTENDS Lesson

Opt(id, text, marked) == [id |-> id, text |-> text, marked |-> marked]

\* A label that reads a number.
Num(n) == <<"number", n>>

\* Options whose labels differ in their wording.
Marked(id) == Opt(id, id, TRUE)
Wrong(ids) == {Opt(id, id, FALSE) : id \in ids}
Actions(names) == {Opt(<<n>>, <<n>>, FALSE) : n \in names}

Claims == {Marked(<<"correct">>)}
            \cup Wrong({<<"wrong-1">>, <<"wrong-2">>, <<"wrong-3">>})

\* A number, and the wrong numbers beside it.
Numbers(right, wrong) ==
    {Opt(<<"v", right>>, Num(right), TRUE)}
        \cup {Opt(<<"v", w>>, Num(w), FALSE) : w \in wrong \ {right}}

OneOff(v) == {v + 1, Greatest({0, v - 1})}

(***************************************************************************)
(* Sorting                                                                 *)
(***************************************************************************)

\* The measured count, and three counts a learner might reach for: n - 1,
\* n log2 n (rounded) and n^2, each moved up until it differs from the others.
Rounded(n) ==
    LET m == Greatest({n, 2})
    IN  Greatest({r \in 1 .. 3 * n : 2 ^ (2 * r - 1) <= m ^ (2 * n)})
MovedUp(v, taken) == Least({x \in v .. v + Cardinality(taken) : x \notin taken})

complexityPredictionOptions(n, right) ==
    LET first == MovedUp(Greatest({1, n - 1}), {right})
        second == MovedUp(Rounded(n), {right, first})
        third == MovedUp(n * n, {right, first, second})
    IN  {Opt(<<"correct">>, Num(right), TRUE), Opt(<<"wrong-1">>, Num(first), FALSE),
         Opt(<<"wrong-2">>, Num(second), FALSE), Opt(<<"wrong-3">>, Num(third), FALSE)}

\* Of the three places, ordered by value and then by index, the second.
MedianOfThree(a, low, high) ==
    LET places == {low, (low + high) \div 2, high}
        before(x, y) == a[x] < a[y] \/ (a[x] = a[y] /\ x < y)
    IN  CHOOSE x \in places :
            Cardinality({y \in places : before(y, x)}) = Cardinality(places) \div 2

\* Each option names a place of the range.
pivotSelectionTiles(a, low, high) ==
    LET median == MedianOfThree(a, low, high)
    IN  {Opt(<<"correct">>, <<"idx", high>>, TRUE),
         Opt(<<"first-element">>, <<"idx", low>>, FALSE),
         Opt(<<"random">>, <<"any">>, FALSE)}
        \cup IF median \notin {low, high} /\ a[median] # a[high]
             THEN {Opt(<<"median-of-three">>, <<"idx", median>>, FALSE)} ELSE {}

ComparisonTiles(j, s) ==
    CASE j = "SWAP_DECISION" ->
            Actions(IF "currentKey" \in DOMAIN s THEN {"shift", "stop"}
                                                 ELSE {"swap", "no-swap"})
      [] j \in {"PASS_COMPLETE", "EARLY_TERMINATION"} -> Claims
      [] j = "COMPLEXITY_PREDICTION" -> complexityPredictionOptions(s.n, s.comparisons)
      [] OTHER -> {}

ChoosingTiles(j, s) ==
    CASE j = "NEW_MINIMUM" -> Actions({"update", "keep"})
      [] j = "MERGE_DECISION" -> Actions({"take-left", "take-right"})
      [] j = "PIVOT_SELECTION" ->
            pivotSelectionTiles(s.array, s.partitionRange[1], s.partitionRange[2])
      [] j = "PARTITION_DECISION" -> Actions({"swap", "skip"})
      [] OTHER -> {}

PlacingTiles(j, s) ==
    CASE j = "GAP_COMPARISON" -> Actions({"shift", "no-shift"})
      [] j = "HEAP_COMPARE" -> Actions({"sift", "stay"})
      [] j = "HEAP_EXTRACT" ->
            {Marked(<<"extract-root">>)}
                \cup Wrong({<<"extract-last">>, <<"extract-child">>, <<"extract-scan">>})
      [] j = "COUNT_INCREMENT" ->
            LET v == s.input[s.currentInputIndex] IN Numbers(v, OneOff(v))
      [] j = "PREFIX_ACCUMULATE" ->
            LET v == s.count[s.currentCountIndex] + s.count[s.currentCountIndex - 1]
            IN  Numbers(v, OneOff(v))
      [] j = "PLACE_ELEMENT" ->
            LET v == s.count[s.input[s.currentInputIndex]] - 1 IN Numbers(v, OneOff(v))
      [] j = "DIGIT_BUCKET" ->
            Numbers(s.currentDigit, {(s.currentDigit + k) % 10 : k \in 1 .. 3})
      [] OTHER -> {}

SortTiles(j, s) == ComparisonTiles(j, s) \cup ChoosingTiles(j, s) \cup PlacingTiles(j, s)

(***************************************************************************)
(* Searching                                                               *)
(***************************************************************************)

\* "Every element was visited" is offered as wrong only when the number of
\* probes shows that it is; Jump, Interpolation and Exponential Search count
\* none.  In its place comes a claim that is never true of a found target.
SearchClaims(s) ==
    {o \in Claims : o.id # <<"wrong-1">>}
        \cup {Opt(<<"wrong-1">>,
                  IF s.found /\ s.probes \in 1 .. Size(s.array) - 1
                  THEN <<"every-element-visited">> ELSE <<"wrong-1">>,
                  FALSE)}

HalvingTiles(j, s) ==
    CASE j = "TARGET_CHECK" -> Actions({"match", "no-match"})
      [] j = "MIDPOINT_DECISION" -> Actions({"search-left", "search-right", "found"})
      [] OTHER -> {}

ProbingTiles(j, s) ==
    CASE j = "JUMP_SIZE" ->
            LET n == Size(s.array)
            IN  {Opt(<<"size", s.jumpSize>>, Num(s.jumpSize), TRUE),
                 Opt(<<"size-half">>, Num(n \div 2), FALSE),
                 Opt(<<"size-quarter">>, Num(n \div 4), FALSE),
                 Opt(<<"size", 1>>, Num(1), FALSE)}
      [] j = "PROBE_POSITION" ->
            {Opt(<<"idx", x>>, Num(x), x = s.probedIndex) :
                x \in {s.probedIndex} \cup
                      ({(s.low + s.high) \div 2, s.low + 1, s.high - 1}
                            \cap (s.low .. s.high))}
      [] j = "RANGE_DOUBLE" -> Actions({"yes-too-small", "no-large-enough"})
      [] OTHER -> {}

SearchTiles(j, s) == HalvingTiles(j, s) \cup ProbingTiles(j, s)

(***************************************************************************)
(* Linear structures.  Many labels are values the structure holds.          *)
(***************************************************************************)

\* The places among the candidates that exist, read out by their values.
Places(array, right, others) ==
    {Opt(<<"idx", x>>, Num(array[x]), x = right) :
        x \in ({right} \cup others) \cap DOMAIN array}

DeleteTiles(s) ==
    LET p == s.targetIndex
    IN  (IF p \in DOMAIN s.array THEN {Opt(<<"idx", p>>, Num(s.array[p]), TRUE)}
                                 ELSE {Marked(<<"end-of-array">>)})
        \cup {Opt(<<"deleted-value">>, <<"deleted", s.operationValue>>, FALSE)}
        \cup {Opt(<<"idx", x>>, Num(s.array[x]), FALSE) :
                 x \in {p - 1, p + 1} \cap DOMAIN s.array}

PushTiles(s) ==
    LET n == Len(s.items)
    IN  {Opt(<<"pushed-value">>, Num(s.lastOperationValue), TRUE),
         Opt(<<"random-value">>, Num(s.lastOperationValue + 100), FALSE)}
        \cup (IF n >= 2 THEN {Opt(<<"prev-top">>, Num(s.items[n - 1]), FALSE)} ELSE {})
        \cup (IF n >= 3 THEN {Opt(<<"middle-value">>, Num(s.items[1]), FALSE)} ELSE {})

\* What was taken out, and what would be next.
TakenTiles(right, next, nothing, s, values) ==
    {Opt(<<right>>, Num(s.lastOperationValue), TRUE),
     Opt(<<"random-value">>, Num(s.lastOperationValue + 50), FALSE),
     Opt(<<nothing>>, <<nothing>>, FALSE)}
    \cup {Opt(<<next>>, Num(v), FALSE) : v \in values}

WastedTiles(s) ==
    {Opt(<<"wasted", s.frontIndex>>, Num(s.frontIndex), TRUE),
     Opt(<<"wasted", 0>>, Num(0), FALSE),
     Opt(<<"wasted-half">>, Num(s.capacity \div 2), FALSE),
     Opt(<<"wasted-full">>, Num(s.capacity), FALSE)}

ArrayTiles(j, s) ==
    CASE j = "INDEX_ACCESS" ->
            LET t == s.targetIndex IN Places(s.array, t, {t - 1, t + 1, t - 2})
      [] j = "INSERT_POSITION" ->
            LET t == s.targetIndex IN Places(s.array, t + 2, {t - 1, t, t + 1})
      [] j = "DELETE_SHIFT" -> DeleteTiles(s)
      [] OTHER -> {}

EndsTiles(j, s) ==
    CASE j = "STACK_PUSH_RESULT" -> PushTiles(s)
      [] j = "STACK_POP_RESULT" ->
            TakenTiles("top-value", "second-value", "null", s,
                       IF s.items = <<>> THEN {} ELSE {s.items[Len(s.items)]})
      [] j = "OVERFLOW_CHECK" -> Actions({"yes-succeeds", "no-overflow"})
      [] j = "UNDERFLOW_CHECK" ->
            {Marked(<<"error-underflow">>)} \cup Wrong({<<"zero">>, <<"null">>, <<"neg-one">>})
      [] j = "QUEUE_REAR" ->
            {Opt(<<"idx", x>>, Num(x), x = s.rearIndex) :
                x \in {y \in {s.rearIndex, s.rearIndex - 1, s.frontIndex, s.capacity - 1} :
                            y >= 0}}
      [] j = "QUEUE_FRONT" ->
            TakenTiles("front-value", "next-value", "undefined", s,
                       IF s.items = <<>> THEN {} ELSE {s.items[1].value})
      [] j = "CIRCULAR_WRAP" ->
            {Opt(<<"idx", x>>, Num(x), x = 0) :
                x \in {0, s.capacity, s.capacity + 1, s.capacity - 1}}
      [] j = "DEQUE_END" -> Actions({"front", "back"})
      [] j = "LOAD_FACTOR" ->
            IF "frontIndex" \in DOMAIN s THEN WastedTiles(s)
            ELSE Actions({"yes-too-high", "no-acceptable"})
      [] OTHER -> {}

LinearTiles(j, s) == ArrayTiles(j, s) \cup EndsTiles(j, s)

(***************************************************************************)
(* Linked lists                                                            *)
(***************************************************************************)

\* linkedListInsertCase, against the list before the insert.
linkedListInsertCase(s) ==
    CASE s.insertPosition = 0 -> "front"
      [] s.insertPosition >= Cardinality(DOMAIN s.nodes) /\ s.insertPosition # 0 -> "append"
      [] OTHER -> "between"

HasPrev(s) == \E x \in DOMAIN s.nodes : "prev" \in DOMAIN s.nodes[x]
ValueAt(s, x) == IF x \in DOMAIN s.nodes THEN s.nodes[x].value ELSE Nowhere

sllAppendTiles == {Marked(<<"correct">>)} \cup Wrong({<<"stays-null">>, <<"head">>, <<"itself">>})

\* A label that links two values: x.next = y and y.prev = x.  The option about
\* the other end is left out when both ends hold the same value.
dllEndTiles(s) ==
    LET fresh == s.operationValue
        front == linkedListInsertCase(s) = "front"
        head == ValueAt(s, s.headId)
        tail == ValueAt(s, s.tailId)
        links(x, y) == <<"links", x, y>>
    IN  {Opt(<<"correct">>, IF front THEN links(fresh, head) ELSE links(tail, fresh), TRUE),
         Opt(<<"reversed">>, IF front THEN links(head, fresh) ELSE links(fresh, tail), FALSE),
         Opt(<<"one-only">>, <<"only">>, FALSE)}
        \cup (IF head = tail THEN {}
              ELSE {Opt(<<"wrong-end">>,
                        IF front THEN links(tail, fresh) ELSE links(fresh, head), FALSE)})

InsertTiles(s) ==
    CASE ~HasPrev(s) /\ linkedListInsertCase(s) = "append" -> sllAppendTiles
      [] HasPrev(s) /\ linkedListInsertCase(s) # "between" -> dllEndTiles(s)
      [] HasPrev(s) /\ linkedListInsertCase(s) = "between" ->
            {Marked(<<"all-four">>)}
                \cup Wrong({<<"next-prev-only">>, <<"a-b-only">>, <<"reversed">>})
      [] OTHER ->
            {Marked(<<"new-then-prev">>)}
                \cup Wrong({<<"prev-only">>, <<"wrong-order">>, <<"swapped">>})

\* Where the pointer leads, and the first three of the other nodes; four at most.
FollowTiles(s) ==
    LET next == s.nodes[s.currentId][s.activePointer]
        others == DOMAIN s.nodes \ {s.currentId}
        three == {x \in others : Cardinality({y \in others : y < x}) < 3} \ {next}
    IN  {IF next = Nowhere THEN Marked(<<"null">>)
         ELSE Opt(<<"node", next>>, Num(s.nodes[next].value), TRUE)}
        \cup {Opt(<<"node", x>>, Num(s.nodes[x].value), FALSE) : x \in three}

NullTiles(s) ==
    CASE s.operation = "traverse" ->
            {Marked(<<"when-head-again">>)}
                \cup Wrong({<<"when-null">>, <<"when-n-visited">>, <<"when-value-match">>})
      [] s.operation # "traverse" /\ s.currentId \in DOMAIN s.nodes ->
            Actions({"yes-last", "no-more"})
      [] OTHER -> Actions({"null", "current-head", "tail", "itself"})

ListTiles(j, s) ==
    CASE j = "NULL_CHECK" -> NullTiles(s)
      [] j = "INSERT_BETWEEN" -> InsertTiles(s)
      [] j = "DELETE_RELINK" ->
            IF HasPrev(s) THEN {Marked(<<"two">>)} \cup Wrong({<<"one">>, <<"three">>, <<"four">>})
            ELSE {Marked(<<"prev-next-eq-x-next">>)}
                    \cup Wrong({<<"prev-next-null">>, <<"x-next-eq-prev">>, <<"x-null">>})
      [] j \in {"POINTER_FOLLOW", "TRAVERSE_DIRECTION"} ->
            IF s.operation = "reverse"
            THEN {Marked(<<"the-previous-node">>)}
                    \cup Wrong({<<"the-next-node">>, <<"null">>, <<"the-head">>})
            ELSE FollowTiles(s)
      [] j = "WRAP_CHECK" ->
            {Marked(<<"the-head-node">>)} \cup Wrong({<<"null">>, <<"itself">>, <<"the-tail">>})
      [] OTHER -> {}

(***************************************************************************)
(* Trees                                                                   *)
(***************************************************************************)

deleteCaseTiles(deleteCase) ==
    {Marked(<<"correct">>)}
        \cup Wrong({<<"wrong-1">>, <<"wrong-2">>}
                      \cup IF deleteCase = "two-children" THEN {<<"wrong-3">>} ELSE {})

DirectionTiles(s) ==
    CASE "deleteCase" \in DOMAIN s -> deleteCaseTiles(s.deleteCase)
      [] "deleteCase" \notin DOMAIN s /\ "node" \in DOMAIN s ->
            Actions({"go-left", "go-right", "insert-here"})
      [] "insertionParentValue" \in DOMAIN s ->
            LET left == s.targetValue < s.insertionParentValue
            IN  {Opt(<<"attach-left">>, <<"attach-left">>, left),
                 Opt(<<"attach-right">>, <<"attach-right">>, ~left)}
                    \cup Wrong({<<"compare-again">>})
      [] OTHER -> {Marked(<<"becomes-root">>)}
                    \cup Wrong({<<"stays-empty">>, <<"needs-comparison">>})

\* Beside the next value, two of the values not visited yet; which two is left
\* to chance, so all of them are listed.
VisitTiles(s) ==
    LET visited == {s.visitedOrder[k] : k \in DOMAIN s.visitedOrder}
    IN  Numbers(s.nextVisitValue, s.values \ visited)

TreeTiles(j, s) ==
    CASE j = "BST_DIRECTION" -> DirectionTiles(s)
      [] j = "VISIT_NODE" -> VisitTiles(s)
      [] j = "AVL_BALANCE_CHECK" -> Actions({"balanced", "unbalanced"})
      [] j = "AVL_ROTATION_TYPE" -> Actions({"LL", "RR", "LR", "RL"})
      [] j = "RB_COLOR_DECISION" -> Actions({"recolor", "rotate"})
      [] j = "RB_ROTATION_RECOLOR" -> Actions({"recolor", "left-rotate", "right-rotate"})
      [] OTHER -> {}

\* The left child is there whenever the question is asked.
HeapTiles(j, s) ==
    CASE j = "HEAP_SIFT_UP" -> Actions({"swap", "stay"})
      [] j = "HEAP_SIFT_DOWN" ->
            Actions({"stay", "left"} \cup IF s.rightChildIdx = Nowhere THEN {} ELSE {"right"})
      [] j = "TRIE_INSERT_NEW" -> Actions({"existing", "new"})
      [] j = "TRIE_CHARACTER_MATCH" -> Actions({"exists", "missing"})
      [] OTHER -> {}

\* Without an answer the tiles take bucket 0 for the right one.
BucketTiles(s) ==
    LET right == IF s.hashResult = Nowhere THEN 0 ELSE s.hashResult
    IN  {Opt(<<"bucket", x>>, Num(x), x = right) :
            x \in {(right + d) % s.capacity : d \in {0, 1, 2, s.capacity - 1}}}

HashTiles(j, s) ==
    CASE j = "HASH_BUCKET" -> BucketTiles(s)
      [] j = "COLLISION_RESOLVE" ->
            {Marked(<<"back-of-chain">>)}
                \cup Wrong({<<"replaces">>, <<"new-bucket">>, <<"insert-fails">>})
      [] j = "PROBE_NEXT" ->
            {Marked(<<"i-plus-1-mod">>)}
                \cup Wrong({<<"i-plus-2-mod">>, <<"i-minus-1">>, <<"i-times-2-mod">>})
      [] OTHER -> {}

(***************************************************************************)
(* Graphs and grids.                                                       *)
(***************************************************************************)

NodeOption(u, marked) == Opt(<<"node", u>>, <<"node", u>>, marked)
LeastOf(n, S) == {x \in S : Cardinality({y \in S : y < x}) < n}

\* The end of the frontier that comes next, and up to three other nodes not
\* visited yet.
NextNode(s) == s.frontier[IF "discoveryTime" \in DOMAIN s THEN Len(s.frontier) ELSE 1]
NextNodeTiles(s) ==
    {NodeOption(NextNode(s), TRUE)}
        \cup {NodeOption(u, FALSE) : u \in LeastOf(3, s.nodes \ (s.visited \cup {NextNode(s)}))}

ComponentTiles(total) ==
    {Opt(<<"v", n>>, Num(n), n = total) : n \in {total, Greatest({1, total - 1}), total + 1}}

\* Two of the wrong ones are drawn; here they are all offered.
TopologicalTiles(s) ==
    {NodeOption(s.currentNode, TRUE)}
        \cup {NodeOption(u, FALSE) : u \in s.nodes \ (s.topoOrder \cup {s.currentNode})}

EdgeTiles(edges) ==
    {Opt(<<"edge", edges[x].from, edges[x].to>>, <<"edge", edges[x].from, edges[x].to>>,
         \A y \in DOMAIN edges : edges[x].weight <= edges[y].weight) : x \in DOMAIN edges}

Weighted(s) == s.algorithmType \in {"Grid A*", "Grid Dijkstra"}
ScoreAt(s, x) ==
    LET c == s.frontierCells[x]
    IN  IF s.algorithmType = "Grid A*" THEN s.g[c] + s.h[c] ELSE s.g[c]

\* correctTileIdFor: the front, the back, or the first of the lowest score.
RightCell(s) ==
    CASE s.algorithmType = "Grid BFS" -> 1
      [] s.algorithmType = "Grid DFS" -> Len(s.frontierCells)
      [] OTHER -> Least({x \in DOMAIN s.frontierCells :
                            \A y \in DOMAIN s.frontierCells : ScoreAt(s, x) <= ScoreAt(s, y)})
CellId(s, x) == <<"cell", s.frontierCells[x][1], s.frontierCells[x][2]>>

\* Beside it three others: for the weighted pair one for each score, in the
\* order the scores are met, the last cell with that score.
OtherCells(s) ==
    LET others == DOMAIN s.frontierCells \ {RightCell(s)}
        sameScore(x) == {y \in others : ScoreAt(s, y) = ScoreAt(s, x)}
    IN  IF Weighted(s)
        THEN {Greatest(sameScore(x)) :
                x \in LeastOf(3, {y \in others : y = Least(sameScore(y))})}
        ELSE LeastOf(3, others)
CellTiles(s) ==
    {Opt(CellId(s, x), CellId(s, x), x = RightCell(s)) : x \in {RightCell(s)} \cup OtherCells(s)}

EdgesTiles(j, s) ==
    CASE j = "EDGE_RELAX" -> Actions({"relax", "skip"})
      [] j = "BELLMAN_PASS_COMPLETE" -> Actions({"continue", "done"})
      [] j = "MATRIX_UPDATE" -> Actions({"update", "keep"})
      [] j = "UNION_FIND_CHECK" -> Actions({"add", "skip"})
      [] j = "MST_EDGE_SELECT" -> EdgeTiles(s.candidateEdges)
      [] j = "CYCLE_FOUND" -> Actions({"cycle", "no-cycle"})
      [] j = "NEW_COMPONENT" -> ComponentTiles(s.totalComponents)
      [] j = "TOPOLOGICAL_ORDER" -> TopologicalTiles(s)
      [] j = "GRID_NEXT_CELL" -> CellTiles(s)
      [] OTHER -> {}

GraphTiles(j, s) ==
    IF j = "NEXT_NODE_SELECTION" THEN NextNodeTiles(s) ELSE EdgesTiles(j, s)

(***************************************************************************)
(* Foundations and techniques                                              *)
(***************************************************************************)

\* distinctTiles: of options that read the same the first is kept, the right
\* one before all; with fewer than three left, numbers near it are added.
Distinct(opts) ==
    {opts[x] : x \in {y \in DOMAIN opts : \A z \in 1 .. y - 1 : opts[z].text # opts[y].text}}
Near(v, x) == IF x % 2 = 1 THEN v + (x + 1) \div 2 ELSE v - x \div 2
ToppedUp(opts, v) ==
    LET kept == Distinct(opts)
        unseen == {x \in 1 .. 12 : Num(Near(v, x)) \notin {o.text : o \in kept}}
    IN  kept \cup {Opt(<<"near", Near(v, x)>>, Num(Near(v, x)), FALSE) :
                     x \in LeastOf(3 - Cardinality(kept), unseen)}

RightNumber(name, v) == Opt(<<name, v>>, Num(v), TRUE)
WrongNumber(id, v) == Opt(id, Num(v), FALSE)

BaseCaseTiles(baseCase) ==
    Distinct(<<Opt(<<"one">>, Num(1), TRUE), WrongNumber(<<"zero">>, 0),
               IF baseCase = 1 THEN WrongNumber(<<"two">>, 2)
                               ELSE WrongNumber(<<"n-itself">>, baseCase),
               Opt(<<"undefined">>, <<"undefined">>, FALSE)>>)

ReturnTiles(s) ==
    IF "returned" \in DOMAIN s
    THEN LET left == s.returned[1]
             right == s.returned[2]
         IN  ToppedUp(<<RightNumber("sum", left + right), WrongNumber(<<"mult", left * right>>, left * right),
                        WrongNumber(<<"left-only", left>>, left), WrongNumber(<<"right-only", right>>, right)>>,
                      left + right)
    ELSE ToppedUp(<<RightNumber("mult", s.n * s.prev), WrongNumber(<<"add", s.n + s.prev>>, s.n + s.prev),
                    WrongNumber(<<"mult-minus", s.n * (s.prev - 1)>>, s.n * (s.prev - 1)),
                    WrongNumber(<<"prev", s.prev>>, s.prev)>>, s.n * s.prev)

CallTiles(s) ==
    IF "totalCalls" \in DOMAIN s
    THEN LET n == Greatest(s.arguments \cup {1})
         IN  {Marked(<<"exp", 2 ^ n>>)} \cup Wrong({<<"linear">>, <<"quadratic">>, <<"n-only">>})
    ELSE LET left == Least(s.arguments)
         IN  {RightNumber("remaining", left), WrongNumber(<<"remaining-minus", Greatest({0, left - 1})>>, Greatest({0, left - 1})),
              WrongNumber(<<"remaining-plus", left + 1>>, left + 1), WrongNumber(<<"remaining", 0>>, 0)}

PointerTiles(s) ==
    IF "target" \in DOMAIN s THEN Actions({"move-left", "move-right", "found", "no-solution"})
                             ELSE Actions({"match-inward", "no-match"})

OrOne(a, x) == IF x \in DOMAIN a THEN a[x] ELSE 1
WindowSumTiles(s) ==
    {RightNumber("sum", s.windowSum),
     WrongNumber(<<"sum-plus">>, s.windowSum + OrOne(s.array, s.windowEnd + 1)),
     WrongNumber(<<"sum-minus">>, s.windowSum - OrOne(s.array, s.windowStart)),
     WrongNumber(<<"sum-random">>, s.windowSum + 7)}

WindowTiles(s) ==
    IF "targetSum" \in DOMAIN s THEN Actions({"expand", "shrink", "stop"})
    ELSE LET left == s.array[s.windowStart]
             right == s.array[s.windowEnd + 1]
             newSum == s.windowSum - left + right
         IN  {RightNumber("sum", newSum), WrongNumber(<<"sum-forgot-subtract">>, s.windowSum + right),
              WrongNumber(<<"sum-forgot-add">>, s.windowSum - left),
              WrongNumber(<<"sum-recompute-wrong">>, newSum + 1)}

FoundationTiles(j, s) ==
    CASE j = "BASE_CASE" -> BaseCaseTiles(s.baseCase)
      [] j = "RETURN_VALUE" -> ReturnTiles(s)
      [] j = "RECURSIVE_CALL" -> CallTiles(s)
      [] j = "POINTER_MOVE" -> PointerTiles(s)
      [] j = "WINDOW_SUM" -> WindowSumTiles(s)
      [] j = "WINDOW_EXPAND" -> WindowTiles(s)
      [] OTHER -> {}

PrefixTiles(s) ==
    LET previous == s.table[s.current - 1]
        element == s.input[s.current - 1]
        next == IF s.current \in DOMAIN s.input THEN s.input[s.current] ELSE 0
    IN  ToppedUp(<<RightNumber("v", previous + element), WrongNumber(<<"prefix-element">>, element),
                   WrongNumber(<<"prefix-shifted">>, previous + next),
                   WrongNumber(<<"prefix-previous">>, previous)>>, previous + element)

Difference(id, high, low, marked) == Opt(<<id>>, <<"difference", high, low>>, marked)
\* Wrong: the zero in front of the table is forgotten.
RangeTilesUnshifted(cells) ==
    LET high == Greatest(cells) - 1
        low == Least(cells)
    IN  {Difference("range-correct", high, low, TRUE), Difference("range-off-by-one", high - 1, low, FALSE),
         Difference("range-off-by-one-low", high, low + 1, FALSE)} \cup Wrong({<<"range-loop">>})

RangeTiles(cells) ==
    LET high == Greatest(cells)
        low == Least(cells)
    IN  {Difference("range-correct", high, low, TRUE), Difference("range-off-by-one", high - 1, low, FALSE),
         Difference("range-off-by-one-low", high, low + 1, FALSE)} \cup Wrong({<<"range-loop">>})

\* Of yes and no the one that holds is the right one.
Decision(holds, yes, no, others) ==
    {Opt(<<yes>>, <<yes>>, holds), Opt(<<no>>, <<no>>, ~holds)} \cup Wrong(others)

CombineTiles(s) ==
    LET best == Greatest({s.left, s.right, s.cross})
        named == CASE best = s.cross -> Opt(<<"combine-cross">>, <<"cross", best>>, TRUE)
                   [] best # s.cross /\ best = s.left -> Opt(<<"combine-left">>, <<"left", best>>, TRUE)
                   [] OTHER -> Opt(<<"combine-right">>, <<"right", best>>, TRUE)
    IN  {named,
         Opt(<<"combine-max-halves">>, <<"better-half", Greatest({s.left, s.right})>>, FALSE),
         Opt(<<"combine-sum">>, <<"both", s.left + s.right>>, FALSE),
         Opt(<<"combine-left-always">>, <<"left", s.left>>, FALSE)}

CellValueTiles(s) ==
    IF Len(s.reads) = 1
    THEN LET extend == s.reads[1] + s.element
             best == Greatest({extend, s.element})
         IN  ToppedUp(<<RightNumber("v", best), WrongNumber(<<"dp1-wrong-branch">>, Least({extend, s.element})),
                        WrongNumber(<<"dp1-always-extend">>, extend),
                        WrongNumber(<<"dp1-previous">>, s.reads[1])>>, best)
    ELSE LET reads == {s.reads[x] : x \in DOMAIN s.reads}
             best == 1 + Least(reads)
         IN  ToppedUp(<<RightNumber("v", best), WrongNumber(<<"dp2-no-cost">>, best - 1),
                        WrongNumber(<<"dp2-max">>, 1 + Greatest(reads)),
                        WrongNumber(<<"dp2-diagonal-only">>, 1 + LastOf(s.reads))>>, best)

TechniqueTiles(j, s) ==
    CASE j = "PREFIX_CELL" -> PrefixTiles(s)
      [] j = "RANGE_QUERY" -> RangeTiles(s.dependsOn)
      [] j = "STACK_DISCHARGE" ->
            Decision(s.input[LastOf(s.marked)] < s.input[s.current], "discharge-yes", "discharge-no",
                     {<<"discharge-one">>, <<"discharge-push-first">>})
      [] j = "COMBINE_RESULT" -> CombineTiles(s)
      [] j = "GREEDY_CHOICE" ->
            Decision(s.start >= s.lastFinish, "greedy-take", "greedy-skip",
                     {<<"greedy-swap">>, <<"greedy-shortest">>})
      [] j = "DP_CELL" -> CellValueTiles(s)
      [] j = "PRUNE_BRANCH" ->
            Decision(s.total > s.target, "prune-yes", "prune-no", {<<"prune-all">>, <<"prune-unsafe">>})
      [] OTHER -> {}

(***************************************************************************)
(* The option revealed on request, for the junctions of the study topics    *)
(* and the selections; nothing for the others.                              *)
(***************************************************************************)

Revealed(j, s) ==
    CASE j = "SWAP_DECISION" ->
            IF "currentKey" \in DOMAIN s
            THEN IF s.currentKey < s.array[s.compareIndex] THEN <<"shift">> ELSE <<"stop">>
            ELSE IF s.array[s.active[1]] > s.array[s.active[2]]
                 THEN <<"swap">> ELSE <<"no-swap">>
      [] j = "MIDPOINT_DECISION" ->
            CASE "mid" \notin DOMAIN s -> <<"search-right">>
              [] s.array[s.mid] = s.target -> <<"found">>
              [] s.target < s.array[s.mid] -> <<"search-left">>
              [] OTHER -> <<"search-right">>
      [] j \in {"PASS_COMPLETE", "EARLY_TERMINATION", "ALGORITHM_COMPLETE",
                "COMPLEXITY_PREDICTION", "PIVOT_SELECTION"} -> <<"correct">>
      [] j = "BST_DIRECTION" ->
            CASE "deleteCase" \in DOMAIN s -> <<"correct">>
              [] "deleteCase" \notin DOMAIN s /\ "node" \in DOMAIN s ->
                    IF s.targetValue < s.node.value THEN <<"go-left">> ELSE <<"go-right">>
              [] "insertionParentValue" \in DOMAIN s ->
                    IF s.targetValue < s.insertionParentValue
                    THEN <<"attach-left">> ELSE <<"attach-right">>
              [] OTHER -> <<"becomes-root">>
      [] j = "VISIT_NODE" -> <<"v", s.nextVisitValue>>
      [] j = "NEXT_NODE_SELECTION" -> <<"node", NextNode(s)>>
      [] j = "TOPOLOGICAL_ORDER" -> <<"node", s.currentNode>>
      [] j = "GRID_NEXT_CELL" -> CellId(s, RightCell(s))
      [] OTHER -> NoTile

=============================================================================
