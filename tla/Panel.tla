------------------------------- MODULE Panel -------------------------------
(***************************************************************************)
(* The topics, the runs they open on, and the left panel. A topic's run    *)
(* can be made in two ways: from its registry entry, or by the switch in   *)
(* runFor.ts that the page and the panel go through. A run is a record of  *)
(* the engine and the arguments it is called with. The panel is one        *)
(* operator per control component, giving every outcome one press can      *)
(* have on the fields as they stand. A field holds text; what the model    *)
(* keeps of a text is what its parser makes of it.                         *)
(***************************************************************************)
EXTENDS Integers, Sequences, TLC, FiniteSets, SequencesExt

----------------------------------------------------------------------------
(***************************************************************************)
(* The registry                                                            *)
(***************************************************************************)

\* An element of a sequence by the program's index, which starts at 0.
At(s, index) == s[index + 1]
MinOf(a, b) == IF a < b THEN a ELSE b
MaxOf(a, b) == IF a > b THEN a ELSE b

----------------------------------------------------------------------------
(* Runs, by the kind of arguments their engine takes                        *)

OnValues(e, v) == [engine |-> e, input |-> v]
OnTarget(e, v, t) == [engine |-> e, input |-> v, target |-> t]
\* On the tree or heap that another engine builds of the values first.
OnBuilt(e, by, v) == [engine |-> e, built |-> by, input |-> v]
OnBuiltTarget(e, by, v, t) == [engine |-> e, built |-> by, input |-> v, target |-> t]
OnOps(e, seed, ops) == [engine |-> e, seed |-> seed, ops |-> ops]
OnWords(e, w) == [engine |-> e, word |-> w]
OnGraph(e, g, directed, from, to) ==
    [engine |-> e, graph |-> g, directed |-> directed, from |-> from, to |-> to]
OnBoard(e, b, from, to) == [engine |-> e, board |-> b, from |-> from, to |-> to]

Board(kind, rows, cols) == [kind |-> kind, rows |-> rows, cols |-> cols]
In(v) == [op |-> "enqueue", value |-> v]
Out == [op |-> "dequeue", value |-> 0]
Push(end, v) == [op |-> end, value |-> v]
Pop(end) == [op |-> end, value |-> 0]

----------------------------------------------------------------------------
(* Graphs and boards                                                        *)

Graph(ids, directed, weighted, edges) ==
    [ids |-> ids, directed |-> directed, weighted |-> weighted, edges |-> edges]

\* The preset graphs; an undirected edge is listed once here, and a weight is
\* left out, as no choice below depends on one.
GRAPH_PRESETS ==
    "small-7" :> Graph(<<"A", "B", "C", "D", "E", "F", "G">>, FALSE, FALSE,
       {<<"A", "B">>, <<"A", "C">>, <<"B", "D">>, <<"B", "E">>, <<"C", "F">>, <<"E", "F">>, <<"F", "G">>})
    @@ "medium-weighted" :> Graph(<<"A", "B", "C", "D", "E", "F", "G", "H">>, TRUE, TRUE,
       {<<"A", "B">>, <<"A", "C">>, <<"B", "D">>, <<"C", "D">>, <<"C", "E">>, <<"D", "F">>, <<"D", "G">>,
        <<"E", "G">>, <<"F", "H">>, <<"G", "H">>})
    @@ "grid-like" :> Graph(<<"A", "B", "C", "D", "E", "F", "G", "H", "I">>, FALSE, TRUE,
       {<<"A", "B">>, <<"A", "D">>, <<"B", "C">>, <<"B", "E">>, <<"C", "F">>, <<"D", "E">>, <<"D", "G">>,
        <<"E", "F">>, <<"E", "H">>, <<"F", "I">>, <<"G", "H">>, <<"H", "I">>})
    @@ "directed-cycle" :> Graph(<<"A", "B", "C", "D", "E", "F">>, TRUE, FALSE,
       {<<"A", "B">>, <<"B", "C">>, <<"B", "D">>, <<"C", "F">>, <<"D", "E">>, <<"E", "F">>, <<"E", "D">>})
    @@ "two-components" :> Graph(<<"A", "B", "C", "D", "E", "F", "G", "H">>, FALSE, FALSE,
       {<<"A", "B">>, <<"A", "C">>, <<"C", "D">>, <<"E", "F">>, <<"E", "G">>, <<"G", "H">>})

\* The graphs that only one topic runs on.
DirectedAcyclic ==
    Graph(<<"A", "B", "C", "D", "E", "F">>, TRUE, FALSE,
          {<<"A", "B">>, <<"B", "C">>, <<"B", "D">>, <<"C", "F">>, <<"D", "E">>, <<"E", "F">>})
BellmanFordDefault ==
    Graph(<<"A", "B", "C", "D", "E">>, TRUE, TRUE,
          {<<"A", "B">>, <<"A", "C">>, <<"B", "D">>, <<"C", "D">>, <<"D", "E">>})
Graphs == GRAPH_PRESETS @@ "directed-acyclic" :> DirectedAcyclic
            @@ "bellman-ford-default" :> BellmanFordDefault

PATHFINDER_BOARD == [rows |-> 10, cols |-> 16, start |-> <<5, 1>>, end |-> <<5, 14>>]
ASTAR_BOARD == [rows |-> 14, cols |-> 24, start |-> <<7, 1>>, end |-> <<7, 22>>]
MAZE_BOARD == [rows |-> 14, cols |-> 24]

----------------------------------------------------------------------------
(* The seeds several topics share                                           *)

BST_DEFAULT_SEED == <<8, 4, 12, 2, 6, 10, 14>>
BST_DEFAULT_SEARCH_TARGET == 6
BST_DEFAULT_DELETE_TARGET == 4
BST_DEFAULT_INSERT_VALUE == 20
HEAP_DEFAULT_SEED == <<15, 3, 17, 10, 84, 19, 6, 22, 9>>
HEAP_DEFAULT_INSERT_VALUE == 90
ROTATION_SEED == <<10, 20, 30, 40, 50, 25>>
ARRAY_OPERATION_DEFAULTS ==
    [accessIndex |-> 2, insertIndex |-> 2, insertValue |-> 99, deleteIndex |-> 1]

CircularDemo == <<In(5), In(3), Out, In(8), In(1), In(9)>>
DequeDemo == <<Push("pushBack", 5), Push("pushFront", 3), Pop("popFront"), Push("pushBack", 8)>>

----------------------------------------------------------------------------
(* The registry: per topic its default input and target, and what its       *)
(* engineFunction passes on.                                                *)

NoTarget == 0

\* engineFunction calls the engine on the values and nothing else ...
Plain(e, v) == [default |-> v, target |-> NoTarget, passes |-> "values", engine |-> e]
\* ... on the values and the one before the last ...
Seeking(e, v, t) == [default |-> v, target |-> t, passes |-> "second-last", engine |-> e]
\* ... on the values and a fixed target ...
Aimed(e, v, t) == [default |-> v, target |-> t, passes |-> "target", engine |-> e]
\* ... on what another engine builds of them ...
Built(e, by, v) == [default |-> v, target |-> NoTarget, passes |-> "built", engine |-> e, by |-> by]
BuiltAimed(e, by, v, t) == [default |-> v, target |-> t, passes |-> "built-target", engine |-> e, by |-> by]
\* ... or always the same call.
Fixed(v, run) == [default |-> v, target |-> NoTarget, passes |-> "run", run |-> run]

SortingEntries ==
    "bubble-sort" :> Plain("bubbleSort", <<5, 3, 1, 4, 2>>)
    @@ "selection-sort" :> Plain("selectionSort", <<5, 3, 8, 1, 9, 2>>)
    @@ "insertion-sort" :> Plain("insertionSort", <<5, 2, 8, 1, 9>>)
    @@ "merge-sort" :> Plain("mergeSort", <<5, 2, 8, 1, 9, 3, 7, 4>>)
    @@ "quick-sort" :> Plain("quickSort", <<7, 2, 9, 1, 5, 8, 3>>)
    @@ "shell-sort" :> Plain("shellSort", <<8, 3, 7, 1, 5, 9, 2, 6>>)
    @@ "heap-sort" :> Plain("heapSort", <<4, 10, 3, 5, 1, 8, 7, 2>>)
    @@ "counting-sort" :> Plain("countingSort", <<4, 2, 2, 8, 3, 3, 1>>)
    @@ "radix-sort" :> Plain("radixSort", <<170, 45, 75, 90, 802, 24, 2, 66>>)

SearchTreeEntries ==
    "bst" :> Plain("bstInsert", BST_DEFAULT_SEED)
    @@ "bst-search" :> BuiltAimed("bstSearch", "bstInsert", BST_DEFAULT_SEED, BST_DEFAULT_SEARCH_TARGET)
    @@ "bst-delete" :> BuiltAimed("bstDelete", "bstInsert", BST_DEFAULT_SEED, BST_DEFAULT_DELETE_TARGET)
    @@ "tree-inorder" :> Built("inorder", "bstInsert", BST_DEFAULT_SEED)
    @@ "tree-preorder" :> Built("preorder", "bstInsert", BST_DEFAULT_SEED)
    @@ "tree-postorder" :> Built("postorder", "bstInsert", BST_DEFAULT_SEED)
    @@ "tree-level-order" :> Built("levelorder", "bstInsert", BST_DEFAULT_SEED)
    @@ "avl-insert" :> Plain("avlInsert", ROTATION_SEED)
    @@ "avl-delete" :> BuiltAimed("avlDelete", "avlInsert", ROTATION_SEED, 30)
    @@ "rb-insert" :> Plain("rbInsert", ROTATION_SEED)
    @@ "rb-delete" :> BuiltAimed("rbDelete", "rbInsert", ROTATION_SEED, 30)

HeapAndTrieEntries ==
    "max-heap-insert" :> Plain("maxHeapInsert", HEAP_DEFAULT_SEED)
    @@ "max-heap-delete" :> Built("maxHeapDelete", "buildMaxHeap", HEAP_DEFAULT_SEED)
    @@ "min-heap-insert" :> Plain("minHeapInsert", HEAP_DEFAULT_SEED)
    @@ "min-heap-delete" :> Built("minHeapDelete", "buildMinHeap", HEAP_DEFAULT_SEED)
    @@ "trie-insert" :> Fixed(<<>>, OnWords("trieInsert", ""))
    @@ "trie-search" :> Fixed(<<>>, OnWords("trieSearch", "apple"))
    @@ "trie-delete" :> Fixed(<<>>, OnWords("trieDelete", "apple"))

NodeGraphEntries ==
    "bfs" :> Fixed(<<>>, OnGraph("bfsNodeGraph", "small-7", FALSE, "A", "G"))
    @@ "dfs" :> Fixed(<<>>, OnGraph("dfsNodeGraph", "small-7", FALSE, "A", ""))
    @@ "dijkstra" :> Fixed(<<>>, OnGraph("dijkstra", "medium-weighted", TRUE, "A", "H"))
    @@ "bellman-ford" :> Fixed(<<>>, OnGraph("bellmanFord", "bellman-ford-default", TRUE, "A", ""))
    @@ "floyd-warshall" :> Fixed(<<>>, OnGraph("floydWarshall", "medium-weighted", TRUE, "", ""))
    @@ "kruskal" :> Fixed(<<>>, OnGraph("kruskal", "grid-like", FALSE, "", ""))
    @@ "prim" :> Fixed(<<>>, OnGraph("prim", "grid-like", FALSE, "A", ""))
    @@ "cycle-detection" :> Fixed(<<>>, OnGraph("cycleDetection", "directed-cycle", TRUE, "", ""))
    @@ "connected-components" :> Fixed(<<>>, OnGraph("connectedComponents", "two-components", FALSE, "", ""))
    @@ "topological-sort" :> Fixed(<<>>, OnGraph("topologicalSort", "directed-acyclic", TRUE, "", ""))

OnPathfinder(e, kind, b) == OnBoard(e, Board(kind, b.rows, b.cols), b.start, b.end)
OnMaze(e, b) == OnBoard(e, Board("open", b.rows, b.cols), <<>>, <<>>)

GridEntries ==
    "grid-bfs" :> Fixed(<<>>, OnPathfinder("gridBfs", "walled", PATHFINDER_BOARD))
    @@ "grid-dfs" :> Fixed(<<>>, OnPathfinder("gridDfs", "walled", PATHFINDER_BOARD))
    @@ "grid-dijkstra" :> Fixed(<<>>, OnPathfinder("gridDijkstra", "terrain", PATHFINDER_BOARD))
    @@ "grid-astar" :> Fixed(<<>>, OnPathfinder("gridAStar", "open", ASTAR_BOARD))
    @@ "maze-generation" :> Fixed(<<>>, OnMaze("mazeGeneration", MAZE_BOARD))
    @@ "maze-prim" :> Fixed(<<>>, OnMaze("mazePrim", MAZE_BOARD))
    @@ "maze-kruskal" :> Fixed(<<>>, OnMaze("mazeKruskal", MAZE_BOARD))

ArrayAndListEntries ==
    "array-access" :> Plain("arrayAccess", <<10, 20, 30, 40, 50>>)
    @@ "array-insert" :> Plain("arrayInsert", <<10, 20, 30, 40, 50>>)
    @@ "array-delete" :> Plain("arrayDelete", <<10, 20, 30, 40, 50>>)
    @@ "singly-linked-list" :> Plain("sllInsertBack", <<3, 7, 1, 9, 4>>)
    @@ "doubly-linked-list" :> Plain("dllInsertBack", <<3, 7, 1, 9, 4>>)
    @@ "circular-linked-list" :> Plain("cllInsert", <<3, 7, 1, 9, 4>>)

StackToRecursionEntries ==
    "stack" :> Fixed(<<5, 3, 8, 1, 9>>, OnOps("stackPush", <<>>, <<5, 3, 8, 1, 9>>))
    @@ "queue" :> Fixed(<<5, 3, 8, 1, 9>>, OnOps("queueEnqueue", <<>>, <<5, 3, 8, 1, 9>>))
    @@ "circular-queue" :> Fixed(<<5, 3, 8, 1, 9>>, OnOps("circularQueue", <<>>, CircularDemo))
    @@ "deque" :> Fixed(<<5, 3, 8>>, OnOps("deque", <<>>, DequeDemo))
    @@ "hash-table-chaining" :> Plain("hashInsertChaining", <<15, 11, 27, 8, 12, 19>>)
    @@ "hash-table-probing" :> Plain("hashInsertLinearProbing", <<15, 11, 27, 8, 12>>)
    @@ "recursion-factorial" :> Fixed(<<6>>, OnValues("factorial", <<6>>))
    @@ "recursion-fibonacci" :> Fixed(<<6>>, OnValues("fibonacci", <<6>>))

SearchEntries ==
    "linear-search" :> Seeking("linearSearch", <<3, 7, 1, 9, 4, 6>>, 9)
    @@ "binary-search" :> Seeking("binarySearch", <<1, 3, 5, 7, 9, 11, 15, 19>>, 15)
    @@ "jump-search" :> Seeking("jumpSearch", <<1, 3, 5, 7, 9, 11, 13, 15, 17, 19, 21>>, 15)
    @@ "interpolation-search" :> Seeking("interpolationSearch", <<1, 3, 5, 7, 9, 11, 13, 15, 17, 19>>, 7)
    @@ "exponential-search" :> Seeking("exponentialSearch", <<1, 2, 4, 8, 16, 32, 64, 128, 256>>, 64)

TechniqueEntries ==
    "two-pointer" :> Aimed("twoSumSorted", <<1, 2, 4, 6, 8, 10, 12>>, 14)
    @@ "sliding-window-fixed" :>
         [Aimed("fixedWindow", <<2, 1, 5, 1, 3, 2, 4, 1>>, NoTarget) EXCEPT !.passes = "window"]
    @@ "sliding-window-variable" :> Aimed("variableWindow", <<2, 3, 1, 2, 4, 3>>, 7)
    @@ "prefix-sum" :> Plain("prefixSum", <<3, 1, 4, 1, 5, 9>>)
    @@ "monotonic-stack" :> Plain("monotonicStack", <<2, 1, 2, 4, 3, 5>>)
    @@ "divide-and-conquer" :> Plain("divideConquer", <<-2, 1, -3, 4, -1, 2>>)
    @@ "greedy" :> Plain("greedy", <<>>)
    @@ "dp-1d" :> Plain("dp1D", <<-2, 1, -3, 4, -1, 2, 1, -5, 4>>)
    @@ "dp-2d" :> Plain("dp2D", <<>>)
    @@ "backtracking" :> Plain("backtracking", <<3, 4, 5, 2>>)

ALGORITHM_REGISTRY ==
    SortingEntries @@ SearchTreeEntries @@ HeapAndTrieEntries @@ NodeGraphEntries @@ GridEntries
    @@ ArrayAndListEntries @@ StackToRecursionEntries @@ SearchEntries @@ TechniqueEntries

Topics == DOMAIN ALGORITHM_REGISTRY
Default(topic) == ALGORITHM_REGISTRY[topic].default
DefaultTarget(topic) ==
    LET target == ALGORITHM_REGISTRY[topic].target IN IF target = NoTarget THEN 9 ELSE target

\* The value a search demonstration looks for.
SearchTargetFor(v) == IF v = <<>> THEN 0 ELSE At(v, MaxOf(0, Len(v) - 2))

\* The array operations keep the default index within the values.
Clamped(topic, v) ==
    CASE topic = "array-access" ->
           OnTarget("arrayAccess", v, MinOf(ARRAY_OPERATION_DEFAULTS.accessIndex, MaxOf(0, Len(v) - 1)))
      [] topic = "array-insert" ->
           OnTarget("arrayInsert", v, MinOf(ARRAY_OPERATION_DEFAULTS.insertIndex, Len(v)))
             @@ [value |-> ARRAY_OPERATION_DEFAULTS.insertValue]
      [] topic = "array-delete" ->
           OnTarget("arrayDelete", v, MinOf(ARRAY_OPERATION_DEFAULTS.deleteIndex, MaxOf(0, Len(v) - 1)))

ArrayOperations == {"array-access", "array-insert", "array-delete"}

engineFunction(topic, v) ==
    LET entry == ALGORITHM_REGISTRY[topic]
    IN  IF topic \in ArrayOperations THEN Clamped(topic, v)
        ELSE CASE entry.passes = "values"       -> OnValues(entry.engine, v)
               [] entry.passes = "second-last"  -> OnTarget(entry.engine, v, SearchTargetFor(v))
               [] entry.passes = "target"       -> OnTarget(entry.engine, v, entry.target)
               [] entry.passes = "window"       -> OnTarget(entry.engine, v, 3)
               [] entry.passes = "built"        -> OnBuilt(entry.engine, entry.by, v)
               [] entry.passes = "built-target" -> OnBuiltTarget(entry.engine, entry.by, v, entry.target)
               [] entry.passes = "run"          -> entry.run

----------------------------------------------------------------------------
(***************************************************************************)
(* The run builder and the panel                                           *)
(***************************************************************************)

CONSTANTS Half,      \* a number that is not whole
          Infinite,  \* a text that reads as a number, but not a finite one
          Word,      \* a text that is no number
          Blank      \* an empty field

CONSTANTS TypedTexts, TypedNumbers, TypedWords   \* what a learner may type

----------------------------------------------------------------------------
(* The run of a topic on given values (runFor.ts), case by case and apart   *)
(* from the registry's own.                                                 *)

OfValues ==
    "selection-sort" :> "selectionSort" @@ "insertion-sort" :> "insertionSort"
    @@ "merge-sort" :> "mergeSort" @@ "quick-sort" :> "quickSort" @@ "shell-sort" :> "shellSort"
    @@ "heap-sort" :> "heapSort" @@ "counting-sort" :> "countingSort" @@ "radix-sort" :> "radixSort"
    @@ "bst" :> "bstInsert" @@ "avl-insert" :> "avlInsert" @@ "rb-insert" :> "rbInsert"
    @@ "max-heap-insert" :> "maxHeapInsert" @@ "min-heap-insert" :> "minHeapInsert"
    @@ "singly-linked-list" :> "sllInsertBack" @@ "doubly-linked-list" :> "dllInsertBack"
    @@ "circular-linked-list" :> "cllInsert" @@ "hash-table-chaining" :> "hashInsertChaining"
    @@ "hash-table-probing" :> "hashInsertLinearProbing" @@ "bubble-sort" :> "bubbleSort"

OfValuesAndTarget ==
    "linear-search" :> "linearSearch" @@ "binary-search" :> "binarySearch" @@ "jump-search" :> "jumpSearch"
    @@ "interpolation-search" :> "interpolationSearch" @@ "exponential-search" :> "exponentialSearch"
    @@ "two-pointer" :> "twoSumSorted" @@ "sliding-window-variable" :> "variableWindow"

\* Built first: per topic the operation, what builds, and whether it takes a target.
OfBuilt ==
    "bst-search" :> <<"bstSearch", "bstInsert", TRUE>> @@ "bst-delete" :> <<"bstDelete", "bstInsert", TRUE>>
    @@ "tree-inorder" :> <<"inorder", "bstInsert", FALSE>> @@ "tree-preorder" :> <<"preorder", "bstInsert", FALSE>>
    @@ "tree-postorder" :> <<"postorder", "bstInsert", FALSE>>
    @@ "tree-level-order" :> <<"levelorder", "bstInsert", FALSE>>
    @@ "avl-delete" :> <<"avlDelete", "avlInsert", TRUE>> @@ "rb-delete" :> <<"rbDelete", "rbInsert", TRUE>>
    @@ "max-heap-delete" :> <<"maxHeapDelete", "buildMaxHeap", FALSE>>
    @@ "min-heap-delete" :> <<"minHeapDelete", "buildMinHeap", FALSE>>

OfFixtures ==
    "trie-insert" :> OnWords("trieInsert", "") @@ "trie-search" :> OnWords("trieSearch", "apple")
    @@ "trie-delete" :> OnWords("trieDelete", "apple")
    @@ "bfs" :> OnGraph("bfsNodeGraph", "small-7", FALSE, "A", "G")
    @@ "dfs" :> OnGraph("dfsNodeGraph", "small-7", FALSE, "A", "")
    @@ "dijkstra" :> OnGraph("dijkstra", "medium-weighted", TRUE, "A", "H")
    @@ "bellman-ford" :> OnGraph("bellmanFord", "bellman-ford-default", TRUE, "A", "")
    @@ "floyd-warshall" :> OnGraph("floydWarshall", "medium-weighted", TRUE, "", "")
    @@ "kruskal" :> OnGraph("kruskal", "grid-like", FALSE, "", "")
    @@ "prim" :> OnGraph("prim", "grid-like", FALSE, "A", "")
    @@ "cycle-detection" :> OnGraph("cycleDetection", "directed-cycle", TRUE, "", "")
    @@ "connected-components" :> OnGraph("connectedComponents", "two-components", FALSE, "", "")
    @@ "topological-sort" :> OnGraph("topologicalSort", "directed-acyclic", TRUE, "", "")
    @@ "grid-bfs" :> OnPathfinder("gridBfs", "walled", PATHFINDER_BOARD)
    @@ "grid-dfs" :> OnPathfinder("gridDfs", "walled", PATHFINDER_BOARD)
    @@ "grid-dijkstra" :> OnPathfinder("gridDijkstra", "terrain", PATHFINDER_BOARD)
    @@ "grid-astar" :> OnPathfinder("gridAStar", "open", ASTAR_BOARD)
    @@ "maze-generation" :> OnMaze("mazeGeneration", MAZE_BOARD)
    @@ "maze-prim" :> OnMaze("mazePrim", MAZE_BOARD) @@ "maze-kruskal" :> OnMaze("mazeKruskal", MAZE_BOARD)
    @@ "circular-queue" :> OnOps("circularQueue", <<>>, CircularDemo)
    @@ "deque" :> OnOps("deque", <<>>, DequeDemo)

buildRun(topic, v, target) ==
    CASE topic \in DOMAIN OfValues -> OnValues(OfValues[topic], v)
      [] topic \in DOMAIN OfValuesAndTarget -> OnTarget(OfValuesAndTarget[topic], v, target)
      [] topic \in DOMAIN OfFixtures -> OfFixtures[topic]
      [] topic \in DOMAIN OfBuilt ->
           LET by == OfBuilt[topic]
           IN  IF by[3] THEN OnBuiltTarget(by[1], by[2], v, target) ELSE OnBuilt(by[1], by[2], v)
      [] topic = "array-access" -> OnTarget("arrayAccess", v, ARRAY_OPERATION_DEFAULTS.accessIndex)
      [] topic = "array-insert" ->
           OnTarget("arrayInsert", v, ARRAY_OPERATION_DEFAULTS.insertIndex)
             @@ [value |-> ARRAY_OPERATION_DEFAULTS.insertValue]
      [] topic = "array-delete" -> OnTarget("arrayDelete", v, ARRAY_OPERATION_DEFAULTS.deleteIndex)
      [] topic = "stack" -> OnOps("stackPush", <<>>, v)
      [] topic = "queue" -> OnOps("queueEnqueue", <<>>, v)
      [] topic = "recursion-factorial" -> OnValues("factorial", <<IF v = <<>> THEN 6 ELSE Head(v)>>)
      [] topic = "recursion-fibonacci" -> OnValues("fibonacci", <<IF v = <<>> THEN 6 ELSE Head(v)>>)
      [] topic = "sliding-window-fixed" -> OnTarget("fixedWindow", v, 3)
      [] OTHER -> engineFunction(topic, v)

\* Without values, the topic's own.
runFor(topic, values) ==
    buildRun(topic, IF values # <<>> THEN values ELSE Default(topic), DefaultTarget(topic))

----------------------------------------------------------------------------
(* Reading the fields                                                       *)

Unread == <<"unread">>
\* An array text: its parts; one that is no number refuses the whole.
parseArrayInput(text) ==
    IF text = <<>> \/ Word \in Range(text) THEN Unread ELSE text
\* The array operations also refuse a number that is not finite.
parseArrayText(text) == IF Infinite \in Range(text) THEN Unread ELSE parseArrayInput(text)
\* Number(text) || other: an empty field, and zero, give the other.
NumberOr(text, other) == IF text \in {Blank, 0} THEN other ELSE text
Whole(lo, hi, v) == \A part \in Range(v) : part \in lo .. hi

\* Numbers in ascending order; the one that is not whole stands for two and a half.
Precedes(a, b) ==
    CASE a = Infinite -> FALSE
      [] b = Infinite -> TRUE
      [] a = Half -> b > 2
      [] b = Half -> a <= 2
      [] OTHER -> a < b
Ascending(v) == SortSeq(v, Precedes)

----------------------------------------------------------------------------
(* What a press can do                                                      *)

\* The fields of the topic's controls.
Fields(text, number, index, word) ==
    [text |-> text, number |-> number, index |-> index, word |-> word, error |-> FALSE,
     preset |-> "", directed |-> FALSE, from |-> "", to |-> "",
     size |-> "default", maze |-> Board("none", 0, 0)]

\* A run comes up, at its start or (an operation) at its result; or the press
\* is refused with a message and the run stays.
Shows(p, r, land) == [fields |-> [p EXCEPT !.error = FALSE], shows |-> TRUE, run |-> r, land |-> land]
Sets(p, r) == Shows(p, r, "start")
Performs(p, r) == Shows(p, r, "result")
Refuses(p) == [fields |-> [p EXCEPT !.error = TRUE], shows |-> FALSE]

\* What Random may draw: the shortest and the longest, of the least and of the
\* greatest value, and one that falls.
Drawn(shortest, longest, least, most) ==
    {[i \in 1 .. n |-> v] : n \in {shortest, longest}, v \in {least, most}}
      \cup {[i \in 1 .. shortest |-> most - i]}

----------------------------------------------------------------------------
(* Arrays, stacks, queues, lists, hash tables and recursion                 *)

\* Wrong: every operation may point past the last value.
PointsPastTheEnd(topic, v) == Len(v)
topIndex(topic, v) == IF topic = "array-insert" THEN Len(v) ELSE Len(v) - 1
arrayOperationRun(topic, v, index, value) ==
    CASE topic = "array-access" -> OnTarget("arrayAccess", v, index)
      [] topic = "array-insert" -> OnTarget("arrayInsert", v, index) @@ [value |-> value]
      [] topic = "array-delete" -> OnTarget("arrayDelete", v, index)

\* Insert and delete refuse an index the operation cannot take; access does not.
validateArrayOperation(topic, p) ==
    /\ parseArrayText(p.text) # Unread
    /\ p.index \notin {Blank, Half}
    /\ topic # "array-access" => p.index \in 0 .. topIndex(topic, p.text)
    /\ topic = "array-insert" => p.number # Blank

\* Random draws a value not yet in the array, giving up after twenty tries.
randomArrayOperation(topic, p) ==
    UNION {{[p EXCEPT !.text = v, !.index = i, !.number = IF topic = "array-insert" THEN n ELSE @] :
               i \in {0, topIndex(topic, v)}, n \in {Head(v), 99}} : v \in Drawn(5, 9, 1, 50)}

ArrayOperationControls(topic, p) ==
    LET show(q) == Sets(q, arrayOperationRun(topic, q.text, q.index, q.number))
    IN  {IF validateArrayOperation(topic, p) THEN show(p) ELSE Refuses(p)}
          \cup {show(q) : q \in randomArrayOperation(topic, p)}

STACK_SEED == <<5, 3, 8, 1, 9>>
QUEUE_SEED == <<5, 3, 8, 1, 9>>
CQ_SEED == <<In(5), In(3), In(8)>>
DQ_SEED == <<Push("pushBack", 5), Push("pushFront", 3), Push("pushBack", 8)>>
LL_SEED == <<3, 7, 1>>
HASH_SEED == <<15, 8, 23>>

StackControls(p) ==
    {Performs(p, OnOps("stackPush", STACK_SEED, <<NumberOr(p.number, 0)>>)),
     Performs(p, OnOps("stackPop", STACK_SEED, <<1>>)), Performs(p, OnOps("stackPeek", STACK_SEED, <<>>))}

QueueControls(topic, p) ==
    LET value == NumberOr(p.number, 0)
    IN  IF topic = "circular-queue"
        THEN {Performs(p, OnOps("circularQueue", <<>>, Append(CQ_SEED, op))) : op \in {In(value), Out}}
        ELSE {Performs(p, OnOps("queueEnqueue", QUEUE_SEED, <<value>>)),
              Performs(p, OnOps("queueDequeue", QUEUE_SEED, <<1>>))}

DequeControls(p) ==
    {Performs(p, OnOps("deque", <<>>, Append(DQ_SEED, op))) :
        op \in {Push(end, NumberOr(p.number, 0)) : end \in {"pushFront", "pushBack"}}
                 \cup {Pop(end) : end \in {"popFront", "popBack"}}}

\* The typed value is only for the operations that look for one.
LinkedListControls(topic, p) ==
    LET shows(e) == Performs(p, OnValues(e, LL_SEED))
        seeks(e) == Performs(p, OnTarget(e, LL_SEED, NumberOr(p.number, 0)))
    IN  CASE topic = "circular-linked-list" -> {shows("cllInsert"), seeks("cllDelete"), shows("cllTraverse")}
          [] topic = "singly-linked-list" ->
               {shows("sllInsertFront"), shows("sllInsertBack"), seeks("sllDelete"), seeks("sllSearch")}
          [] topic = "doubly-linked-list" ->
               {shows("dllInsertFront"), shows("dllInsertBack"), seeks("dllDelete"), seeks("dllSearch")}

HashTableControls(topic, p) ==
    LET key == NumberOr(p.number, 0)
        named == IF topic = "hash-table-probing"
                 THEN <<"hashInsertLinearProbing", "hashSearchLinearProbing", "hashDeleteLinearProbing">>
                 ELSE <<"hashInsertChaining", "hashSearchChaining", "hashDeleteChaining">>
    IN  {Performs(p, OnValues(named[1], Append(HASH_SEED, key))),
         Performs(p, OnTarget(named[2], HASH_SEED, key)), Performs(p, OnTarget(named[3], HASH_SEED, key))}

RecursionControls(topic, p) ==
    LET n == MinOf(10, MaxOf(1, NumberOr(p.number, 1)))
    IN  {Sets(p, OnValues(IF topic = "recursion-fibonacci" THEN "fibonacci" ELSE "factorial", <<n>>))}

----------------------------------------------------------------------------
(* Searches and techniques                                                  *)

\* Apply runs the text when it reads, and says so when it does not.
Applied(p, r) == IF parseArrayInput(p.text) = Unread THEN Refuses(p) ELSE Sets(p, r)
\* Wrong: the box keeps what was typed.
RunsOnly(p, v, r) == Sets(p, r)
\* Random fills the box with what it drew, and runs it.
Filled(p, v, r) == Sets([p EXCEPT !.text = v], r)

TwoPointerControls(p) ==
    LET r(v) == OnTarget("twoSumSorted", v, NumberOr(p.number, 0)) IN {Applied(p, r(p.text))}

SlidingWindowControls(topic, p) ==
    LET r(v) == OnTarget(IF topic = "sliding-window-fixed" THEN "fixedWindow" ELSE "variableWindow",
                         v, NumberOr(p.number, 0))
    IN  {Applied(p, r(p.text))} \cup {Filled(p, v, r(v)) : v \in Drawn(5, 8, 1, 9)}

SearchControls(topic, p) ==
    LET engine == CASE topic = "jump-search" -> "jumpSearch"
                    [] topic = "interpolation-search" -> "interpolationSearch"
                    [] topic = "exponential-search" -> "exponentialSearch"
        r(v) == OnTarget(engine, Ascending(v), NumberOr(p.number, 0))
    IN  {Applied(p, r(p.text))}

----------------------------------------------------------------------------
(* Trees, heaps, tries and the two sorts with a range                       *)

BSTControls(topic, p) ==
    LET target == NumberOr(p.number, 0)
    IN  {Performs(p,
           CASE topic = "bst-search" -> OnBuiltTarget("bstSearch", "bstInsert", BST_DEFAULT_SEED, target)
             [] topic = "bst-delete" -> OnBuiltTarget("bstDelete", "bstInsert", BST_DEFAULT_SEED, target)
             [] topic = "bst" -> OnValues("bstInsert", Append(BST_DEFAULT_SEED, target)))}

BalancedTreeControls(topic, p) ==
    LET target == NumberOr(p.number, 0)
    IN  {Performs(p,
           CASE topic = "avl-insert" -> OnValues("avlInsert", Append(ROTATION_SEED, target))
             [] topic = "avl-delete" -> OnBuiltTarget("avlDelete", "avlInsert", ROTATION_SEED, target)
             [] topic = "rb-insert" -> OnValues("rbInsert", Append(ROTATION_SEED, target))
             [] topic = "rb-delete" -> OnBuiltTarget("rbDelete", "rbInsert", ROTATION_SEED, target))}

HeapControls(topic, p) ==
    LET grown == Append(HEAP_DEFAULT_SEED, NumberOr(p.number, 0))
    IN  {Performs(p,
           CASE topic = "max-heap-insert" -> OnValues("maxHeapInsert", grown)
             [] topic = "min-heap-insert" -> OnValues("minHeapInsert", grown)
             [] topic = "max-heap-delete" -> OnBuilt("maxHeapDelete", "buildMaxHeap", HEAP_DEFAULT_SEED)
             [] topic = "min-heap-delete" -> OnBuilt("minHeapDelete", "buildMinHeap", HEAP_DEFAULT_SEED))}

\* The words made of letters only; any other is refused.
LetterWords == {"apple", "zebra"}
TrieControls(topic, p) ==
    LET engine == CASE topic = "trie-insert" -> "trieInsert" [] topic = "trie-search" -> "trieSearch"
                    [] topic = "trie-delete" -> "trieDelete"
    IN  {IF p.word \in LetterWords THEN Performs(p, OnWords(engine, p.word)) ELSE Refuses(p)}

TreeTraversalControls(topic, p) ==
    LET order == CASE topic = "tree-preorder" -> "preorder" [] topic = "tree-postorder" -> "postorder"
                   [] topic = "tree-level-order" -> "levelorder" [] topic = "tree-inorder" -> "inorder"
        r(v) == OnBuilt(order, "bstInsert", v)
    IN  {Applied(p, r(p.text))} \cup {Filled(p, v, r(v)) : v \in Drawn(6, 10, 1, 20)}

\* Counting Sort takes the digits, Radix Sort whole numbers up to 999.
RangedSort(p, e, top, drawn) ==
    LET r(v) == OnValues(e, v)
        fits == parseArrayInput(p.text) # Unread /\ Whole(0, top, p.text)
    IN  {IF fits THEN Applied(p, r(p.text)) ELSE Refuses(p)} \cup {Filled(p, v, r(v)) : v \in drawn}
CountingSortControls(p) == RangedSort(p, "countingSort", 9, Drawn(6, 8, 0, 9))
RadixSortControls(p) == RangedSort(p, "radixSort", 999, Drawn(6, 8, 1, 200))

----------------------------------------------------------------------------
(* Graphs and grids                                                         *)

WEIGHTED_GRAPH_ALGOS == {"dijkstra", "bellman-ford", "kruskal", "prim"}
NEEDS_TARGET_NODE == {"bfs", "dfs", "dijkstra", "bellman-ford"}
NEEDS_START_NODE == NEEDS_TARGET_NODE \cup {"prim"}
HAS_PRESET_CHOICE == NEEDS_START_NODE \cup {"connected-components", "kruskal"}
HAS_DIRECTED_TOGGLE == NEEDS_TARGET_NODE \cup {"connected-components", "cycle-detection"}
GRAPH_DEFAULT_PRESET ==
    "bfs" :> "small-7" @@ "dfs" :> "small-7" @@ "connected-components" :> "two-components"
    @@ "cycle-detection" :> "directed-cycle" @@ "dijkstra" :> "medium-weighted"
    @@ "bellman-ford" :> "medium-weighted" @@ "kruskal" :> "grid-like" @@ "prim" :> "grid-like"

presetOptions(topic) ==
    CASE topic \in WEIGHTED_GRAPH_ALGOS -> {"medium-weighted", "grid-like"}
      [] topic = "connected-components" -> {"two-components", "small-7", "directed-cycle"}
      [] OTHER -> {"small-7", "directed-cycle"}

\* Another preset brings its own direction and its first and last node.
changePreset(p, name) ==
    LET ids == GRAPH_PRESETS[name].ids
    IN  [p EXCEPT !.preset = name, !.directed = GRAPH_PRESETS[name].directed,
                  !.from = Head(ids), !.to = Last(ids)]

runGraphAlgorithm(topic, p) ==
    LET on(e, from, to) == OnGraph(e, p.preset, p.directed, from, to)
    IN  CASE topic = "bfs" -> on("bfsNodeGraph", p.from, p.to)
          [] topic = "dfs" -> on("dfsNodeGraph", p.from, "")
          [] topic = "dijkstra" -> on("dijkstra", p.from, p.to)
          [] topic = "bellman-ford" -> on("bellmanFord", p.from, "")
          [] topic = "kruskal" -> on("kruskal", "", "")
          [] topic = "prim" -> on("prim", p.from, "")
          [] topic = "cycle-detection" -> on("cycleDetection", "", "")
          [] topic = "connected-components" -> on("connectedComponents", "", "")

GraphControls(topic, p) == {Performs(p, runGraphAlgorithm(topic, p))}
TopologicalSortControls(p) ==
    {Performs(p, OnGraph("topologicalSort", "directed-acyclic", TRUE, "", ""))}

Size(rows, cols, start, end) == [rows |-> rows, cols |-> cols, start |-> start, end |-> end]
sizeOptionsFor(board) ==
    LET mid == board.rows \div 2
        own == Size(board.rows, board.cols, <<mid, 1>>, <<mid, board.cols - 2>>)
    IN  "default" :> [f \in DOMAIN own |-> IF f \in DOMAIN board THEN board[f] ELSE own[f]]
        @@ "small" :> Size(15, 25, <<7, 2>>, <<7, 22>>) @@ "medium" :> Size(20, 35, <<10, 2>>, <<10, 32>>)
        @@ "large" :> Size(25, 45, <<12, 2>>, <<12, 42>>)

GRID_ENGINE_FOR ==
    "grid-bfs" :> "gridBfs" @@ "grid-dfs" :> "gridDfs" @@ "grid-dijkstra" :> "gridDijkstra"
    @@ "grid-astar" :> "gridAStar"

\* Every control runs the topic's engine on a board of the chosen size, from
\* that size's start to its end: a fresh board, an empty one, or a maze.
GridControls(topic, p) ==
    LET options == sizeOptionsFor(IF topic = "grid-astar" THEN ASTAR_BOARD ELSE PATHFINDER_BOARD)
        buildBoard == CASE topic = "grid-astar" -> "open" [] topic = "grid-dijkstra" -> "terrain"
                        [] OTHER -> "walled"
        runOn(q, kind) ==
            LET cfg == options[q.size]
            IN  Sets(q, OnBoard(GRID_ENGINE_FOR[topic], Board(kind, cfg.rows, cfg.cols), cfg.start, cfg.end))
    IN  {runOn([p EXCEPT !.size = next], buildBoard) : next \in DOMAIN options}
          \cup {runOn(p, "empty"), runOn(p, "maze")}

MAZE_ENGINE_FOR ==
    "maze-generation" :> "mazeGeneration" @@ "maze-prim" :> "mazePrim" @@ "maze-kruskal" :> "mazeKruskal"

\* A maze runs from its first cell to its last, which lie on odd rows and columns.
LastCell(board) == <<2 * ((board.rows - 1) \div 2) - 1, 2 * ((board.cols - 1) \div 2) - 1>>
MazeControls(topic, p) ==
    LET options == sizeOptionsFor(MAZE_BOARD)
        generate(q) ==
            LET cfg == options[q.size]
            IN  Performs([q EXCEPT !.maze = Board("maze", cfg.rows, cfg.cols)],
                         OnBoard(MAZE_ENGINE_FOR[topic], Board("open", cfg.rows, cfg.cols), <<>>, <<>>))
    IN  {generate([p EXCEPT !.size = next]) : next \in DOMAIN options}
          \cup {Performs(p, OnBoard("gridAStar", m, <<1, 1>>, LastCell(m))) : m \in {p.maze} \ {Board("none", 0, 0)}}

----------------------------------------------------------------------------
(* The panel                                                                *)

ListTopics == {"singly-linked-list", "doubly-linked-list", "circular-linked-list"}
HashTopics == {"hash-table-chaining", "hash-table-probing"}
RecursionTopics == {"recursion-factorial", "recursion-fibonacci"}
WindowTopics == {"sliding-window-fixed", "sliding-window-variable"}
SteppedSearches == {"jump-search", "interpolation-search", "exponential-search"}
SearchTrees == {"bst", "bst-search", "bst-delete"}
BalancedTrees == {"avl-insert", "avl-delete", "rb-insert", "rb-delete"}
Heaps == {"max-heap-insert", "max-heap-delete", "min-heap-insert", "min-heap-delete"}
Tries == {"trie-insert", "trie-search", "trie-delete"}
Traversals == {"tree-inorder", "tree-preorder", "tree-postorder", "tree-level-order"}
GraphTopics == DOMAIN GRAPH_DEFAULT_PRESET
GridTopics == DOMAIN GRID_ENGINE_FOR
MazeTopics == DOMAIN MAZE_ENGINE_FOR

\* The topics with controls of their own, and the one with no input at all;
\* the rest have the custom-array box.
CONTEXTUAL_CONTROL_SLUGS ==
    UNION {ArrayOperations, {"stack", "queue", "circular-queue", "deque"}, ListTopics, HashTopics,
           RecursionTopics, {"two-pointer"}, WindowTopics, SteppedSearches, SearchTrees, BalancedTrees, Heaps,
           Tries, Traversals, GraphTopics, {"topological-sort"}, GridTopics, MazeTopics,
           {"counting-sort", "radix-sort"}}
FIXED_INPUT_SLUGS == {"floyd-warshall"}
BoxTopics == Topics \ (CONTEXTUAL_CONTROL_SLUGS \cup FIXED_INPUT_SLUGS)

\* The fields as the controls mount.
FreshFields(topic) ==
    LET holding(text, number) == Fields(text, number, Blank, "")
    IN  CASE topic \in ArrayOperations ->
               Fields(Default(topic), ARRAY_OPERATION_DEFAULTS.insertValue,
                      CASE topic = "array-access" -> ARRAY_OPERATION_DEFAULTS.accessIndex
                        [] topic = "array-insert" -> ARRAY_OPERATION_DEFAULTS.insertIndex
                        [] topic = "array-delete" -> ARRAY_OPERATION_DEFAULTS.deleteIndex, "")
          [] topic \in HashTopics -> holding(<<>>, 15)
          [] topic \in RecursionTopics -> holding(<<>>, 6)
          [] topic = "two-pointer" -> holding(<<1, 3, 4, 5, 7, 10, 11>>, 14)
          [] topic \in WindowTopics ->
               holding(<<2, 3, 1, 2, 4, 3>>, IF topic = "sliding-window-fixed" THEN 3 ELSE 7)
          [] topic \in SteppedSearches -> holding(<<1, 3, 5, 7, 9, 12, 15, 18, 21, 25>>, 12)
          [] topic = "bst" -> holding(<<>>, BST_DEFAULT_INSERT_VALUE)
          [] topic = "bst-search" -> holding(<<>>, BST_DEFAULT_SEARCH_TARGET)
          [] topic = "bst-delete" -> holding(<<>>, BST_DEFAULT_DELETE_TARGET)
          [] topic \in Heaps -> holding(<<>>, HEAP_DEFAULT_INSERT_VALUE)
          [] topic \in Tries -> Fields(<<>>, Blank, Blank, "apple")
          [] topic \in Traversals -> holding(BST_DEFAULT_SEED, Blank)
          [] topic = "counting-sort" -> holding(<<4, 2, 2, 8, 3, 3, 1>>, Blank)
          [] topic = "radix-sort" -> holding(<<170, 45, 75, 90, 802, 24, 2, 66>>, Blank)
          [] topic \in GraphTopics ->
               changePreset(holding(<<>>, Blank), GRAPH_DEFAULT_PRESET[topic])
          [] OTHER -> holding(<<>>, 7)

\* Every outcome a press of the topic's own controls can have.
AlgorithmControls(topic, p) ==
    CASE topic \in ArrayOperations -> ArrayOperationControls(topic, p)
      [] topic = "stack" -> StackControls(p)
      [] topic \in {"queue", "circular-queue"} -> QueueControls(topic, p)
      [] topic = "deque" -> DequeControls(p)
      [] topic \in ListTopics -> LinkedListControls(topic, p)
      [] topic \in HashTopics -> HashTableControls(topic, p)
      [] topic \in RecursionTopics -> RecursionControls(topic, p)
      [] topic = "two-pointer" -> TwoPointerControls(p)
      [] topic \in WindowTopics -> SlidingWindowControls(topic, p)
      [] topic \in SteppedSearches -> SearchControls(topic, p)
      [] topic \in GraphTopics -> GraphControls(topic, p)
      [] topic = "topological-sort" -> TopologicalSortControls(p)
      [] topic \in GridTopics -> GridControls(topic, p)
      [] topic \in MazeTopics -> MazeControls(topic, p)
      [] topic \in SearchTrees -> BSTControls(topic, p)
      [] topic \in Traversals -> TreeTraversalControls(topic, p)
      [] topic \in BalancedTrees -> BalancedTreeControls(topic, p)
      [] topic \in Heaps -> HeapControls(topic, p)
      [] topic \in Tries -> TrieControls(topic, p)
      [] topic = "counting-sort" -> CountingSortControls(p)
      [] topic = "radix-sort" -> RadixSortControls(p)
      [] OTHER -> {}

\* The custom-array box: Apply and Random.
LeftPanelBox(topic, p) ==
    {Applied(p, runFor(topic, p.text))} \cup {Filled(p, v, runFor(topic, v)) : v \in Drawn(6, 10, 1, 20)}

Presses(topic, p) == IF topic \in BoxTopics THEN LeftPanelBox(topic, p) ELSE AlgorithmControls(topic, p)

\* The fields that are on show, and what editing one of them leaves.
TextTopics == UNION {BoxTopics, ArrayOperations, {"two-pointer"}, WindowTopics, SteppedSearches, Traversals,
                     {"counting-sort", "radix-sort"}}
NumberTopics == UNION {{"array-insert", "stack", "queue", "circular-queue", "deque"}, ListTopics, HashTopics,
                       RecursionTopics, {"two-pointer"}, WindowTopics, SteppedSearches, SearchTrees,
                       BalancedTrees, {"max-heap-insert", "min-heap-insert"}}
NodesOf(p) == IF p.preset = "" THEN {} ELSE Range(GRAPH_PRESETS[p.preset].ids)
Edits(topic, p) ==
    UNION {{[p EXCEPT !.text = t]   : t \in IF topic \in TextTopics THEN TypedTexts ELSE {}},
           {[p EXCEPT !.number = n] : n \in IF topic \in NumberTopics THEN TypedNumbers ELSE {}},
           {[p EXCEPT !.index = n]  : n \in IF topic \in ArrayOperations THEN TypedNumbers \cup {Half} ELSE {}},
           {[p EXCEPT !.word = w]   : w \in IF topic \in Tries THEN TypedWords ELSE {}},
           {changePreset(p, name)   : name \in IF topic \in HAS_PRESET_CHOICE THEN presetOptions(topic) ELSE {}},
           {[p EXCEPT !.from = id]  : id \in IF topic \in NEEDS_START_NODE THEN NodesOf(p) ELSE {}},
           {[p EXCEPT !.to = id]    : id \in IF topic \in NEEDS_TARGET_NODE THEN NodesOf(p) ELSE {}},
           {[p EXCEPT !.directed = d] : d \in IF topic \in HAS_DIRECTED_TOGGLE THEN BOOLEAN ELSE {}}}

==============================================================================
