------------------------------- MODULE Grading -------------------------------
(***************************************************************************)
(* How the AI service grades an answer (apps/ai/routers/predictions.py,     *)
(* evaluate_answer): a rule for each kind of Critical Junction, worked out  *)
(* from the snapshot's state alone.  s is that state, id the option the     *)
(* learner chose.  Nothing here is shared with the engines or with the      *)
(* tiles, which follow their own rules.                                     *)
(***************************************************************************)
EXTENDS Integers, Sequences, FiniteSets

\* The conceptual junctions: the right option is called "correct".
Conceptual == {"PASS_COMPLETE", "EARLY_TERMINATION", "ALGORITHM_COMPLETE",
               "COMPLEXITY_PREDICTION", "PIVOT_SELECTION"}
Correct == <<"correct">>

\* Two options of which the first is right exactly when the fact holds.
EitherOr(id, fact, yes, no) == \/ id = <<yes>> /\ fact
                               \/ id = <<no>> /\ ~fact

Indexes(array, indices) == indices \subseteq DOMAIN array

(***************************************************************************)
(* Sorting                                                                 *)
(***************************************************************************)

\* Insertion Sort compares a key it holds, the others two places.
GradeSwap(s, id) ==
    IF "currentKey" \in DOMAIN s
    THEN /\ Indexes(s.array, {s.compareIndex})
         /\ EitherOr(id, s.currentKey < s.array[s.compareIndex], "shift", "stop")
    ELSE /\ Indexes(s.array, {s.active[1], s.active[2]})
         /\ EitherOr(id, s.array[s.active[1]] > s.array[s.active[2]], "swap", "no-swap")

GradeNewMinimum(s, id) ==
    /\ Indexes(s.array, {s.scanIndex, s.currentMin})
    /\ EitherOr(id, s.array[s.scanIndex] < s.array[s.currentMin], "update", "keep")

GradeMerge(s, id) ==
    /\ Indexes(s.array, {s.leftRegion, s.rightRegion})
    /\ EitherOr(id, s.array[s.leftRegion] <= s.array[s.rightRegion],
                "take-left", "take-right")

GradePartition(s, id) ==
    /\ Indexes(s.array, {s.leftPointer})
    /\ EitherOr(id, s.array[s.leftPointer] < s.pivotValue, "swap", "skip")

\* The key is looked up in the array, where a shift has already overwritten it.
GradeGap(s, id) ==
    /\ Indexes(s.array, {s.keyIndex, s.compareIndex})
    /\ EitherOr(id, s.array[s.keyIndex] < s.array[s.compareIndex], "shift", "no-shift")

GradeHeapCompare(s, id) ==
    /\ Indexes(s.array, {s.active[1], s.active[2]})
    /\ EitherOr(id, s.array[s.active[2]] > s.array[s.active[1]], "sift", "stay")

GradeHeapExtract(id) == id = <<"extract">>

GradeCountIncrement(s, id) ==
    /\ Indexes(s.input, {s.currentInputIndex})
    /\ id = <<"v", s.input[s.currentInputIndex]>>

GradePrefixAccumulate(s, id) ==
    LET i == s.currentCountIndex
    IN  i > 0 /\ Indexes(s.count, {i}) /\ id = <<"v", s.count[i] + s.count[i - 1]>>

GradePlace(s, id) ==
    /\ Indexes(s.input, {s.currentInputIndex})
    /\ Indexes(s.count, {s.input[s.currentInputIndex]})
    /\ id = <<"v", s.count[s.input[s.currentInputIndex]] - 1>>

GradeSort(j, s, id) ==
    CASE j = "SWAP_DECISION" -> GradeSwap(s, id)
      [] j = "NEW_MINIMUM" -> GradeNewMinimum(s, id)
      [] j = "MERGE_DECISION" -> GradeMerge(s, id)
      [] j = "PARTITION_DECISION" -> GradePartition(s, id)
      [] j = "GAP_COMPARISON" -> GradeGap(s, id)
      [] j = "HEAP_COMPARE" -> GradeHeapCompare(s, id)
      [] j = "HEAP_EXTRACT" -> GradeHeapExtract(id)
      [] j = "COUNT_INCREMENT" -> GradeCountIncrement(s, id)
      [] j = "PREFIX_ACCUMULATE" -> GradePrefixAccumulate(s, id)
      [] j = "PLACE_ELEMENT" -> GradePlace(s, id)
      [] j = "DIGIT_BUCKET" -> id = <<"v", s.currentDigit>>
      [] OTHER -> FALSE

(***************************************************************************)
(* Searching                                                               *)
(***************************************************************************)

GradeTarget(s, id) ==
    EitherOr(id, /\ Indexes(s.array, {s.currentIndex})
                 /\ s.array[s.currentIndex] = s.target, "match", "no-match")

\* Wrong: the left half is accepted for the midpoint itself.
GradeMidpointInclusive(s, id) ==
    /\ "mid" \in DOMAIN s /\ Indexes(s.array, {s.mid})
    /\ \/ id = <<"found">> /\ s.array[s.mid] = s.target
       \/ id = <<"search-left">> /\ s.target <= s.array[s.mid]
       \/ id = <<"search-right">> /\ s.target > s.array[s.mid]

\* Without a midpoint every answer is wrong.
GradeMidpoint(s, id) ==
    /\ "mid" \in DOMAIN s /\ Indexes(s.array, {s.mid})
    /\ \/ id = <<"found">> /\ s.array[s.mid] = s.target
       \/ id = <<"search-left">> /\ s.target < s.array[s.mid]
       \/ id = <<"search-right">> /\ s.target > s.array[s.mid]

GradeRangeDouble(s, id) ==
    /\ Indexes(s.array, {s.bound})
    /\ EitherOr(id, s.array[s.bound] < s.target, "yes-too-small", "no-large-enough")

GradeSearch(j, s, id) ==
    CASE j = "TARGET_CHECK" -> GradeTarget(s, id)
      [] j = "MIDPOINT_DECISION" -> GradeMidpoint(s, id)
      [] j = "JUMP_SIZE" -> id = <<"size", s.jumpSize>>
      [] j = "PROBE_POSITION" -> id = <<"idx", s.probedIndex>>
      [] j = "RANGE_DOUBLE" -> GradeRangeDouble(s, id)
      [] OTHER -> FALSE

(***************************************************************************)
(* Linear structures                                                       *)
(***************************************************************************)

GradeDeleteShift(s, id) ==
    id = IF Indexes(s.array, {s.targetIndex}) THEN <<"idx", s.targetIndex>>
                                              ELSE <<"end-of-array">>

\* The end is read out of the question's wording, which names the operation.
GradeDequeEnd(s, id) ==
    id = IF s.asksAbout \in {"pushFront", "popFront"} THEN <<"front">> ELSE <<"back">>

GradeLinear(j, s, id) ==
    CASE j = "INDEX_ACCESS" -> id = <<"idx", s.targetIndex>>
      [] j = "INSERT_POSITION" -> id = <<"idx", s.targetIndex + 2>>
      [] j = "DELETE_SHIFT" -> GradeDeleteShift(s, id)
      [] j = "STACK_PUSH_RESULT" -> id = <<"pushed-value">>
      [] j = "STACK_POP_RESULT" -> id = <<"top-value">>
      [] j = "OVERFLOW_CHECK" -> id = <<"no-overflow">>
      [] j = "UNDERFLOW_CHECK" -> id = <<"error-underflow">>
      [] j = "QUEUE_REAR" -> id = <<"idx", s.rearIndex>>
      [] j = "QUEUE_FRONT" -> id = <<"front-value">>
      [] j = "CIRCULAR_WRAP" -> id = <<"idx", 0>>
      [] j = "DEQUE_END" -> GradeDequeEnd(s, id)
      [] j = "LOAD_FACTOR" /\ "frontIndex" \in DOMAIN s -> id = <<"wasted", s.frontIndex>>
      [] j = "LOAD_FACTOR" /\ "frontIndex" \notin DOMAIN s -> id = <<"yes-too-high">>
      [] OTHER -> FALSE

(***************************************************************************)
(* Linked lists                                                            *)
(***************************************************************************)

GradeNullCheck(s, id) ==
    id = CASE s.operation = "traverse" -> <<"when-head-again">>
           [] s.operation # "traverse" /\ s.currentId \in DOMAIN s.nodes ->
                IF s.nodes[s.currentId].next = -1 THEN <<"yes-last">> ELSE <<"no-more">>
           [] OTHER -> IF s.headId # -1 THEN <<"current-head">> ELSE <<"null">>

\* _is_dll and _insert_case.
IsDll(s) == \E x \in DOMAIN s.nodes : "prev" \in DOMAIN s.nodes[x]
InsertCase(s) ==
    CASE s.insertPosition = 0 -> "front"
      [] s.insertPosition >= Cardinality(DOMAIN s.nodes) /\ s.insertPosition # 0 -> "append"
      [] OTHER -> "between"

GradeInsert(s, id) ==
    id = CASE InsertCase(s) = "append" \/ (InsertCase(s) = "front" /\ IsDll(s)) -> Correct
           [] InsertCase(s) = "between" /\ IsDll(s) -> <<"all-four">>
           [] OTHER -> <<"new-then-prev">>

GradeRelink(s, id) == id = IF IsDll(s) THEN <<"two">> ELSE <<"prev-next-eq-x-next">>

\* Wrong: the pointer asked about is not looked at.
GradeFollowNext(s, id) ==
    /\ s.currentId \in DOMAIN s.nodes
    /\ LET next == s.nodes[s.currentId].next
       IN  id = CASE s.operation = "reverse" -> <<"the-previous-node">>
                  [] s.operation # "reverse" /\ next = -1 -> <<"null">>
                  [] OTHER -> <<"node", next>>

GradeFollow(s, id) ==
    /\ s.currentId \in DOMAIN s.nodes
    /\ LET next == s.nodes[s.currentId][s.activePointer]
       IN  id = CASE s.operation = "reverse" -> <<"the-previous-node">>
                  [] s.operation # "reverse" /\ next = -1 -> <<"null">>
                  [] OTHER -> <<"node", next>>

GradeList(j, s, id) ==
    CASE j = "NULL_CHECK" -> GradeNullCheck(s, id)
      [] j = "INSERT_BETWEEN" -> GradeInsert(s, id)
      [] j = "DELETE_RELINK" -> GradeRelink(s, id)
      [] j \in {"POINTER_FOLLOW", "TRAVERSE_DIRECTION"} -> GradeFollow(s, id)
      [] j = "WRAP_CHECK" -> id = <<"the-head-node">>
      [] OTHER -> FALSE

(***************************************************************************)
(* Trees                                                                   *)
(***************************************************************************)

\* An equal value goes right.
GradeDirection(s, id) ==
    id = CASE "deleteCase" \in DOMAIN s -> Correct
           [] "deleteCase" \notin DOMAIN s /\ "node" \in DOMAIN s ->
                IF s.targetValue < s.node.value THEN <<"go-left">> ELSE <<"go-right">>
           [] "insertionParentValue" \in DOMAIN s ->
                IF s.targetValue < s.insertionParentValue
                THEN <<"attach-left">> ELSE <<"attach-right">>
           [] OTHER -> <<"becomes-root">>

GradeTree(j, s, id) ==
    CASE j = "BST_DIRECTION" -> GradeDirection(s, id)
      [] j = "VISIT_NODE" -> id = <<"v", s.nextVisitValue>>
      [] j = "AVL_BALANCE_CHECK" ->
            id = IF s.balanceFactor \in -1 .. 1 THEN <<"balanced">> ELSE <<"unbalanced">>
      [] j = "AVL_ROTATION_TYPE" -> id = <<s.rotationType>>
      [] j = "RB_COLOR_DECISION" -> (id = <<"recolor">>) = (s.uncleColor = "RED")
      [] j = "RB_ROTATION_RECOLOR" -> id = s.fixupOperation
      [] OTHER -> FALSE

GradeSiftUp(s, id) ==
    /\ Indexes(s.array, {s.currentIdx, s.parentIdx})
    /\ EitherOr(id, IF s.heapType = "max" THEN s.array[s.currentIdx] > s.array[s.parentIdx]
                                         ELSE s.array[s.currentIdx] < s.array[s.parentIdx],
                "swap", "stay")

\* The left child is looked at before the right one; equal children are both
\* accepted.
GradeSiftDown(s, id) ==
    LET before(x, y) == IF s.heapType = "max" THEN s.array[x] > s.array[y]
                                              ELSE s.array[x] < s.array[y]
        left == s.leftChildIdx \in DOMAIN s.array /\ before(s.leftChildIdx, s.currentIdx)
        best == IF left THEN s.leftChildIdx ELSE s.currentIdx
        right == s.rightChildIdx \in DOMAIN s.array /\ before(s.rightChildIdx, best)
        tie == /\ left /\ s.rightChildIdx \in DOMAIN s.array
               /\ s.array[s.leftChildIdx] = s.array[s.rightChildIdx]
    IN  CASE right -> id = <<"right">>
          [] ~right /\ left -> id = <<"left">> \/ (tie /\ id = <<"right">>)
          [] OTHER -> id = <<"stay">>

GradeHeap(j, s, id) ==
    CASE j = "HEAP_SIFT_UP" -> GradeSiftUp(s, id)
      [] j = "HEAP_SIFT_DOWN" -> GradeSiftDown(s, id)
      [] j = "TRIE_CHARACTER_MATCH" -> (id = <<"exists">>) = s.charExists
      [] j = "TRIE_INSERT_NEW" -> (id = <<"new">>) = s.needsNewNode
      [] OTHER -> FALSE

(***************************************************************************)
(* Hash tables                                                             *)
(***************************************************************************)

GradeHash(j, s, id) ==
    CASE j = "HASH_BUCKET" -> id = <<"bucket", s.hashResult>>
      [] j = "COLLISION_RESOLVE" -> id = <<"back-of-chain">>
      [] j = "PROBE_NEXT" -> id = <<"i-plus-1-mod">>
      [] OTHER -> FALSE

(***************************************************************************)
(* Graphs and grids.  JavaScript's Infinity arrives as null and is put back  *)
(* by the two rules that meet it.                                           *)
(***************************************************************************)

GradeNextNode(s, id) ==
    id = <<"node", s.frontier[IF "discoveryTime" \in DOMAIN s THEN Len(s.frontier) ELSE 1]>>

GradeRelax(s, id) == EitherOr(id, s.newDist < s.currentDist, "relax", "skip")

Inf == 1000
GradeMatrix(s, id) ==
    LET toMiddle == s.dist[s.i][s.k]
        onward == s.dist[s.k][s.j]
        improves == /\ Inf \notin {toMiddle, onward}
                    /\ toMiddle + onward < s.dist[s.i][s.j]
    IN  EitherOr(id, improves, "update", "keep")

\* The lightest of the edges offered; of equally light ones each.
GradeEdge(s, id) ==
    \E x \in DOMAIN s.candidateEdges :
        /\ \A y \in DOMAIN s.candidateEdges :
              s.candidateEdges[x].weight <= s.candidateEdges[y].weight
        /\ id = <<"edge", s.candidateEdges[x].from, s.candidateEdges[x].to>>

\* Any cell of the frontier with the least score, whatever the pathfinder.
GradeCell(s, id) ==
    LET cells == {s.frontierCells[x] : x \in DOMAIN s.frontierCells}
        score(c) == IF s.algorithmType = "Grid A*" THEN s.g[c] + s.h[c] ELSE s.g[c]
    IN  \E c \in cells : /\ \A d \in cells : score(c) <= score(d)
                         /\ id = <<"cell", c[1], c[2]>>

GradeGraph(j, s, id) ==
    CASE j = "NEXT_NODE_SELECTION" -> GradeNextNode(s, id)
      [] j = "EDGE_RELAX" -> GradeRelax(s, id)
      [] j = "BELLMAN_PASS_COMPLETE" -> EitherOr(id, s.anyChanged, "continue", "done")
      [] j = "MATRIX_UPDATE" -> GradeMatrix(s, id)
      [] j = "UNION_FIND_CHECK" -> EitherOr(id, ~s.sameComponent, "add", "skip")
      [] j = "MST_EDGE_SELECT" -> GradeEdge(s, id)
      [] j = "CYCLE_FOUND" -> EitherOr(id, s.isBackEdge, "cycle", "no-cycle")
      [] j = "NEW_COMPONENT" -> id = <<"v", s.totalComponents>>
      [] j = "TOPOLOGICAL_ORDER" -> id = <<"node", s.currentNode>>
      [] j = "GRID_NEXT_CELL" -> GradeCell(s, id)
      [] OTHER -> FALSE

(***************************************************************************)
(* Foundations                                                             *)
(***************************************************************************)

\* The numbers are read back from the question's wording.
GradeReturn(s, id) ==
    IF "returned" \in DOMAIN s THEN id = <<"sum", s.returned[1] + s.returned[2]>>
                               ELSE id = <<"mult", s.n * s.prev>>

GradeCalls(s, id) ==
    IF "totalCalls" \in DOMAIN s
    THEN \E n \in s.arguments : (\A m \in s.arguments : m <= n) /\ id = <<"exp", 2 ^ n>>
    ELSE \E n \in s.arguments : (\A m \in s.arguments : n <= m) /\ id = <<"remaining", n>>

GradePointers(s, id) ==
    /\ {s.left, s.right} \subseteq DOMAIN s.array
    /\ IF "target" \in DOMAIN s
       THEN LET total == s.array[s.left] + s.array[s.right]
            IN  \/ id = <<"move-left">> /\ total < s.target
                \/ id = <<"move-right">> /\ total > s.target
       ELSE EitherOr(id, s.array[s.left] = s.array[s.right], "match-inward", "no-match")

GradeWindow(s, id) ==
    IF "targetSum" \in DOMAIN s
    THEN EitherOr(id, s.windowSum < s.targetSum, "expand", "shrink")
    ELSE /\ {s.windowStart, s.windowEnd + 1} \subseteq DOMAIN s.array
         /\ id = <<"sum", s.windowSum - s.array[s.windowStart] + s.array[s.windowEnd + 1]>>

GradeFoundation(j, s, id) ==
    CASE j = "BASE_CASE" -> id = <<"one">>
      [] j = "RETURN_VALUE" -> GradeReturn(s, id)
      [] j = "RECURSIVE_CALL" -> GradeCalls(s, id)
      [] j = "POINTER_MOVE" -> GradePointers(s, id)
      [] j = "WINDOW_SUM" -> id = <<"sum", s.windowSum>>
      [] j = "WINDOW_EXPAND" -> GradeWindow(s, id)
      [] OTHER -> FALSE

\* evaluate_answer.  A junction without a rule is always wrong: those of the
\* techniques have none.
GradedRight(j, s, id) ==
    \/ j \in Conceptual /\ id = Correct
    \/ GradeSort(j, s, id)
    \/ GradeSearch(j, s, id)
    \/ GradeLinear(j, s, id)
    \/ GradeList(j, s, id)
    \/ GradeTree(j, s, id)
    \/ GradeHeap(j, s, id)
    \/ GradeHash(j, s, id)
    \/ GradeGraph(j, s, id)
    \/ GradeFoundation(j, s, id)

=============================================================================
