------------------------------- MODULE Lessons -------------------------------
(***************************************************************************)
(* The engines of the web client, the options built from their snapshots    *)
(* and the AI service's grading of those options, together.  Three sets of  *)
(* rules decide what the right answer to a question is - the engine that    *)
(* asks it and then carries the answer out, the tile builder that marks an  *)
(* option, the service that grades the choice - and they share no code.     *)
(***************************************************************************)
EXTENDS SortEngines, SearchEngines, LinearEngines, ListEngines,
        TreeEngines, BalancedTrees, HashEngines, GraphSearches,
        GridSearches, FoundationEngines, TechniqueEngines,
        Tiles, Grading, CodeLadders

Init == SortInit \/ SearchInit \/ LinearInit \/ ListInit \/ TreeInit
            \/ BalancedInit \/ HeapInit \/ TrieInit \/ HashInit
            \/ GraphSearchInit \/ WeightedInit \/ GridInit
            \/ FoundationInit \/ TechniqueInit \/ MazeInit
Next == SortNext \/ SearchNext \/ LinearNext \/ ListNext \/ TreeNext
            \/ BalancedNext \/ HeapNext \/ TrieNext \/ HashNext
            \/ GraphSearchNext \/ WeightedNext \/ GridNext
            \/ FoundationNext \/ TechniqueNext \/ MazeNext

\* An engine is one call: it runs on until it has returned or thrown.  (That
\* it is never stuck before is checked as the absence of deadlock.)
Over == step.final \/ ds.pc = "thrown"
Return == Over /\ UNCHANGED lesson
Fairness == []<>Over \/ []<><<Next>>_lesson
Spec == Init /\ [][Next \/ Return]_lesson /\ Fairness

\* getTilesForSnapshot, for the question on screen.
Options ==
    IF step.junction = "ALGORITHM_COMPLETE"
    THEN IF topic \in Searches THEN SearchClaims(step.state) ELSE Claims
    ELSE SortTiles(step.junction, step.state) \cup SearchTiles(step.junction, step.state)
            \cup LinearTiles(step.junction, step.state) \cup ListTiles(step.junction, step.state)
            \cup TreeTiles(step.junction, step.state) \cup HeapTiles(step.junction, step.state)
            \cup HashTiles(step.junction, step.state) \cup GraphTiles(step.junction, step.state)
            \cup FoundationTiles(step.junction, step.state) \cup TechniqueTiles(step.junction, step.state)

Right(id) == GradedRight(step.junction, step.state, id)

\* The questions of the techniques, which evaluate_answer does not know.
Ungraded == {"PREFIX_CELL", "RANGE_QUERY", "STACK_DISCHARGE", "COMBINE_RESULT",
             "GREEDY_CHOICE", "DP_CELL", "PRUNE_BRANCH"}

\* Questions whose rules are known to disagree; README, "Disagreements".
Disputed ==
    \/ step.junction = "HEAP_EXTRACT"       \* the grader knows only "extract"
    \/ step.junction = "GAP_COMPARISON"     \* graded against a shifted array
    \/ step.junction = "JUMP_SIZE"          \* options that read the same
    \/ step.junction = "MIDPOINT_DECISION" /\ topic = JumpSearch  \* no midpoint
    \/ step.junction = "INSERT_POSITION"    \* nothing two places further on
          /\ step.state.targetIndex + 2 \notin DOMAIN step.state.array
    \/ step.junction = "LOAD_FACTOR" /\ topic = QueueDequeue \* asked of short queues

    \/ step.junction = "BST_DIRECTION" /\ topic \in {AvlDelete, RbDelete}
          /\ AtSought                        \* asked at the node to be removed
    \/ step.junction = "RB_COLOR_DECISION" /\ topic = RbDelete \* insertion's rule
    \/ step.junction = "HASH_BUCKET"        \* asked without the answer
          /\ topic \in {ChainSearch, ChainDelete}
    \/ step.junction = "GRID_NEXT_CELL"     \* graded by the lowest score
          /\ topic = GridDfs
    \/ step.junction \in Ungraded

Asked == step.asks /\ ~Disputed

(***************************************************************************)
(* Properties                                                              *)
(***************************************************************************)


TypeOK ==
    /\ topic \in Sorts \cup Searches \cup Linears \cup Lists
                \cup SearchTrees \cup Balanced \cup Heaps \cup Tries \cup Hashes
                \cup GraphSearchTopics \cup WeightedTopics \cup GridTopics
                \cup Foundations \cup Techniques \cup Mazes
    /\ ds.pc \in STRING
    /\ step.final \in BOOLEAN /\ step.junction \in STRING
    /\ step.asks = (step.junction # "none")
    /\ did = NoTile \/ Head(did) \in STRING

\* Either of two equal children may be swapped with; of edges of the same
\* least weight any may be taken, and of cells of the same least cost.
EquallyGood ==
    \/ /\ step.junction = "HEAP_SIFT_DOWN" /\ step.state.rightChildIdx # Nowhere
       /\ step.state.array[step.state.leftChildIdx] = step.state.array[step.state.rightChildIdx]
    \/ /\ step.junction = "MST_EDGE_SELECT"
       /\ \A o \in Options : Right(o.id) => o.marked
    \/ step.junction = "GRID_NEXT_CELL"

\* Of the options offered at a question, exactly one is graded right, so that
\* no learner is marked wrong whatever they choose and none right for two
\* contradicting answers (tileBuilder.ts against predictions.py).
Answerable ==
    Asked => LET n == Cardinality({o \in Options : Right(o.id)})
             IN  n = 1 \/ (n > 1 /\ EquallyGood)

\* The option the tiles mark as the right one is the one graded right.
MarkedRight ==
    Asked => \A o \in Options : o.marked => Right(o.id)

\* What the learner is shown when they give up is graded right, and is one of
\* the options (correctTile.ts against predictions.py).
RevealedIsRight ==
    LET tile == Revealed(step.junction, step.state)
    IN  Asked /\ tile # NoTile => Right(tile) /\ tile \in {o.id : o \in Options}

\* Junctions whose labels read out values; with equal values two labels agree.
ReadsValues == {"INDEX_ACCESS", "INSERT_POSITION", "DELETE_SHIFT",
                "STACK_PUSH_RESULT", "STACK_POP_RESULT", "QUEUE_FRONT",
                "POINTER_FOLLOW", "TRAVERSE_DIRECTION", "WINDOW_SUM",
                "WINDOW_EXPAND", "COMBINE_RESULT"}
Repeats(f) == Cardinality({f[x] : x \in DOMAIN f}) < Cardinality(DOMAIN f)
EqualValues ==
    CASE topic \in {ArrayAccess, ArrayInsert, ArrayDelete} -> Repeats(ds.array)
      [] topic = StackPush -> Repeats(ds.items)
      [] topic \in {StackPop, QueueDequeue} \cup Lists -> Repeats(ds.input)
      [] topic = FixedWindow -> \E x \in DOMAIN ds.array : ds.array[x] \in {0, 1, 7}
      [] topic = DivideConquer -> step.state.left >= step.state.right /\ step.state.left > step.state.cross
      [] OTHER -> FALSE

\* No two options of a question read the same or carry the same id.
OptionsDiffer ==
    (Asked \/ step.junction \in Ungraded) /\ ~(step.junction \in ReadsValues /\ EqualValues)
        => \A o, p \in Options : o # p => o.id # p.id /\ o.text # p.text

\* What the algorithm does after a question is the answer graded right: the
\* learner who predicted the next step is never told otherwise.
PlayedAsGraded ==
    Asked /\ did' # NoTile => Right(did')

\* Where no grader knows the question, one option is marked as the right one,
\* and it names what the algorithm then does, by its id or by what it reads.
PlayedAsMarked ==
    step.junction \in Ungraded =>
        \E o \in Options : /\ \A p \in Options : p.marked <=> p = o
                           /\ did' # NoTile => did' \in {o.id, o.text}

\* A question a study topic asks has no second true answer: after a Bubble
\* Sort pass more than one place is still open, a run that stopped early had
\* passes left and is in order, and a search that says not every element was
\* visited has left one out.
OneTrueAnswer ==
    /\ topic = BubbleSort /\ step.junction = "PASS_COMPLETE" =>
          /\ step.state.settled >= 2
          /\ \A x \in 0 .. step.state.settled :
                step.state.array[x] <= step.state.array[step.state.settled]
    /\ step.junction = "EARLY_TERMINATION" =>
          ds.pass < N - 2 /\ step.state.array = SortedOf(ds.input)
    /\ topic \in {LinearSearch, BinarySearch} /\ step.junction = "ALGORITHM_COMPLETE" =>
          \A o \in Options : o.text = <<"every-element-visited">> =>
                                ds.probed # DOMAIN hay

\* Every sort ends with its input in order, every search with a place that
\* holds the target, or with none exactly when the target is absent.
ResultIsRight ==
    step.final =>
        /\ topic \in Sorts => ds.array = SortedOf(ds.input)
        /\ topic \in Searches =>
              IF ds.foundIndex = NotFound
              THEN \A x \in DOMAIN ds.input : ds.input[x] # ds.target
              ELSE hay[ds.foundIndex] = ds.target

\* A place painted as settled already holds its final value.
SettledIsFinal ==
    topic \in Sorts =>
        \A x \in Settled : ds.array[x] = SortedOf(ds.input)[x]

\* Nothing follows a final step, at which the page saves the session as
\* completed, except that a hash table takes a key equal to the last one for
\* the last one.
FinalIsLast ==
    step.final => topic \in HashInserts /\ Repeats(ds.input)

\* Every run reaches its final step, on every input.
Finishes == <>Over

(***************************************************************************)
(* What the run checks                                                     *)
(***************************************************************************)

\* A question can be answered, and in one way: its options differ, exactly one
\* is graded right, and no other is true; and a rung of a Code Mode ladder is
\* passed by the program it asks for.
AskedFairly == TypeOK /\ Answerable /\ OptionsDiffer /\ OneTrueAnswer /\ RungsCanBePassed

\* The tile the client marks, and the one it shows a student who gives up, is
\* offered and is the one the AI service grades right.
MarkedIsRight == MarkedRight /\ RevealedIsRight

\* A run does what its questions have for an answer, and ends with its first
\* final step; the ring's front moves as the rung on it says.
PlayedOut == [][PlayedAsGraded /\ PlayedAsMarked /\ FinalIsLast /\ FrontAdvances]_lesson

\* Sorting, searching and the linear structures compute what they are for.
SequencesAreRight ==
    ResultIsRight /\ SettledIsFinal /\ RingIsFifo /\ ArrayIsRight /\ ListIntact /\ ListIsRight

\* So do the trees, the heap, the trie and the hash tables, each operation
\* leaving the structure by its own rules.
StructuresAreRight ==
    /\ SearchTreeIsRight /\ TraversalIsRight /\ AvlIsBalanced /\ RedBlackRules
    /\ HeapIsRight /\ TrieIsRight /\ TableIsRight

\* So do the searches of graphs and boards, the shortest paths, the spanning
\* trees and the maze generators.
GraphsAreRight ==
    /\ DistancesAreFewest /\ TimesNest /\ GraphAnswerIsRight /\ DistancesAreShortest
    /\ TreeIsCheapest /\ GridRouteIsRight /\ MazeIsPerfect

\* So do recursion, the pointer techniques and the other paradigms.
TechniquesAreRight == RecursionIsRight /\ PointersAreRight /\ TechniqueIsRight

=============================================================================
