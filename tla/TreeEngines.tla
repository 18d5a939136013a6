----------------------------- MODULE TreeEngines -----------------------------
(***************************************************************************)
(* Trees as the engines of the web client build them, and the engines of   *)
(* the binary search tree (bst.ts), of the traversals (treeTraversal.ts),  *)
(* of the binary heap (heap.ts) and of the trie (trie.ts). A search, a     *)
(* deletion, a removal or a traversal works on a structure that the        *)
(* insertion engine has built first, without its questions.                *)
(***************************************************************************)
EXTENDS Lesson, TLC

----------------------------------------------------------------------------
(***************************************************************************)
(* Binary trees: a root and nodes that hold a value and two children,      *)
(* either of which may be missing. A node is known by the order it was     *)
(* created in.                                                             *)
(***************************************************************************)

\* The values a tree is built from, and values no tree holds.
CONSTANTS Keys, Unknown

ChildSides == {"left", "right"}
Other(side) == IF side = "left" THEN "right" ELSE "left"

\* Which child a value goes to: an equal value goes right.
SideOf(v, w) == IF v < w THEN "left" ELSE "right"

SetChild(nodes, x, side, y) ==
    IF x = Nowhere THEN nodes ELSE [nodes EXCEPT ![x][side] = y]

\* The nodes below a node, in order: left subtree, node, right subtree.
InOrder(nodes, root) ==
    LET below[x \in DOMAIN nodes \cup {Nowhere}] ==
            IF x = Nowhere THEN <<>>
            ELSE below[nodes[x].left] \o <<x>> \o below[nodes[x].right]
    IN  below[root]

PreOrder(nodes, root) ==
    LET below[x \in DOMAIN nodes \cup {Nowhere}] ==
            IF x = Nowhere THEN <<>>
            ELSE <<x>> \o below[nodes[x].left] \o below[nodes[x].right]
    IN  below[root]

PostOrder(nodes, root) ==
    LET below[x \in DOMAIN nodes \cup {Nowhere}] ==
            IF x = Nowhere THEN <<>>
            ELSE below[nodes[x].left] \o below[nodes[x].right] \o <<x>>
    IN  below[root]

HeightOf(nodes, root) ==
    LET height[x \in DOMAIN nodes \cup {Nowhere}] ==
            IF x = Nowhere THEN 0
            ELSE 1 + Greatest({height[nodes[x].left], height[nodes[x].right]})
    IN  height[root]

ParentsOf(nodes, x) == {p \in DOMAIN nodes : x \in {nodes[p].left, nodes[p].right}}

\* How far below the root a node is.
DepthOf(nodes, root, x) ==
    LET depth[y \in DOMAIN nodes] ==
            IF y = root \/ ParentsOf(nodes, y) = {} THEN 0
            ELSE 1 + depth[CHOOSE p \in ParentsOf(nodes, y) : TRUE]
    IN  depth[x]

\* The leftmost node below a node, where its in-order successor is found.
LeftmostOf(nodes, root) ==
    LET last[x \in DOMAIN nodes] ==
            IF nodes[x].left = Nowhere THEN x ELSE last[nodes[x].left]
    IN  last[root]

\* A tree is ordered when reading it in order never goes down, and it holds
\* the given values when each occurs in it as often as it was given.
Ordered(nodes, root) ==
    LET s == InOrder(nodes, root)
    IN  \A k \in 2 .. Len(s) : nodes[s[k - 1]].value <= nodes[s[k]].value

Holds(nodes, root, a, without) ==
    LET s == InOrder(nodes, root)
        values == {a[x] : x \in DOMAIN a} \cup {nodes[s[k]].value : k \in DOMAIN s}
        given(v) == Cardinality({x \in DOMAIN a : a[x] = v})
    IN  /\ Cardinality({s[k] : k \in DOMAIN s}) = Len(s)
        /\ \A v \in values :
              Cardinality({k \in DOMAIN s : nodes[s[k]].value = v})
                  = given(v) - (IF v = without /\ given(v) > 0 THEN 1 ELSE 0)

----------------------------------------------------------------------------
(***************************************************************************)
(* Binary search trees and traversals                                      *)
(***************************************************************************)

BstInsert == "BST Insert"
BstSearch == "BST Search"
BstDelete == "BST Delete"
Traversals == {"Inorder", "Preorder", "Postorder", "Level Order"}
SearchTrees == {BstInsert, BstSearch, BstDelete} \cup Traversals

TreeInit ==
    \E t \in SearchTrees, a \in Keys :
        \E arg \in IF t \in {BstSearch, BstDelete}
                   THEN Unknown \cup {a[x] : x \in DOMAIN a} ELSE {0},
           checked, priced \in IF t = BstInsert THEN BOOLEAN ELSE {FALSE} :
            Begin(t, [input |-> a, arg |-> arg, nodes |-> <<>>, root |-> Nowhere,
                      cursor |-> Nowhere, parent |-> Nowhere, i |-> 0,
                      comparisons |-> 0, order |-> <<>>, work |-> <<>>,
                      checked |-> checked /\ Size(a) > 0,
                      priced |-> priced, pc |-> "next"])

TN == Size(ds.input)
Bst(t, p) == topic = t /\ ds.pc = p
TreeEnds(locals, tile) == Go([locals EXCEPT !.pc = "ended"], Final, tile)

\* A question at a node on the way down, or at the empty place reached.
AtNode(x, v) == [node |-> [value |-> ds.nodes[x].value], targetValue |-> v]
AtSlot(parent, v) ==
    IF parent = Nowhere THEN [targetValue |-> v]
    ELSE [targetValue |-> v, insertionParentValue |-> ds.nodes[parent].value]
WhichWay(x, parent, v) ==
    Ask("BST_DIRECTION", IF x = Nowhere THEN AtSlot(parent, v) ELSE AtNode(x, v))

\* Which child of the parent the cursor has come down to.
SideBelow(parent, v) == SideOf(v, ds.nodes[parent].value)
GoTile(side) == IF side = "left" THEN <<"go-left">> ELSE <<"go-right">>

(***************************************************************************)
(* Insertion                                                               *)
(***************************************************************************)

Value == ds.input[ds.i]
Telling(snapshot) == IF topic = BstInsert THEN snapshot ELSE Say

InsertNext ==
    /\ topic \in SearchTrees /\ ds.pc = "next" /\ ds.i < TN
    /\ Go([ds EXCEPT !.cursor = ds.root, !.parent = Nowhere, !.pc = "descend"],
          Telling(WhichWay(ds.root, Nowhere, Value)), NoTile)

Descend ==
    /\ topic \in SearchTrees /\ ds.pc = "descend" /\ ds.cursor # Nowhere
    /\ LET side == SideOf(Value, ds.nodes[ds.cursor].value)
           child == ds.nodes[ds.cursor][side]
       IN  Go([ds EXCEPT !.cursor = child, !.parent = ds.cursor, !.comparisons = @ + 1],
              Telling(WhichWay(child, ds.cursor, Value)), GoTile(side))

\* What follows the last value: the question about traversals, the question
\* about the cost, or nothing.
Costs == ds.priced /\ ds.comparisons > 0
AfterInsert ==
    CASE ds.i + 1 < TN \/ topic # BstInsert -> "next"
      [] ds.i + 1 = TN /\ ds.checked -> "check"
      [] ds.i + 1 = TN /\ ~ds.checked /\ Costs -> "cost"
      [] OTHER -> "ended"

Attach ==
    /\ topic \in SearchTrees /\ ds.pc = "descend" /\ ds.cursor = Nowhere
    /\ LET x == ds.i
           node == [value |-> Value, left |-> Nowhere, right |-> Nowhere]
           side == IF ds.parent = Nowhere THEN "left" ELSE SideBelow(ds.parent, Value)
           \* The snapshot of the last insertion follows the cost question.
           snapshot == CASE AfterInsert = "ended" -> Final
                         [] AfterInsert = "cost" ->
                              Ask("COMPLEXITY_PREDICTION",
                                  [n |-> TN, comparisons |-> ds.comparisons])
                         [] OTHER -> Say
       IN  Go([ds EXCEPT !.nodes = SetChild(@, ds.parent, side, x) @@ (x :> node),
                         !.root = IF @ = Nowhere THEN x ELSE @,
                         !.i = @ + 1, !.pc = AfterInsert],
              snapshot,
              CASE ds.parent = Nowhere -> <<"becomes-root">>
                [] ds.parent # Nowhere /\ side = "left" -> <<"attach-left">>
                [] OTHER -> <<"attach-right">>)

WhichTraversal ==
    /\ Bst(BstInsert, "check")
    /\ Go([ds EXCEPT !.pc = IF Costs THEN "price" ELSE "last"],
          Ask("ALGORITHM_COMPLETE", <<>>), NoTile)

HowMany ==
    /\ Bst(BstInsert, "price")
    /\ Go([ds EXCEPT !.pc = "last"],
          Ask("COMPLEXITY_PREDICTION", [n |-> TN, comparisons |-> ds.comparisons]), NoTile)

InsertEnd ==
    /\ \/ Bst(BstInsert, "last") \/ Bst(BstInsert, "cost")
       \/ Bst(BstInsert, "next") /\ TN = 0
    /\ TreeEnds(ds, NoTile)

(***************************************************************************)
(* Search and deletion                                                     *)
(***************************************************************************)

TreeBuilt(t) == topic = t /\ ds.pc = "next" /\ ds.i = TN
Met(x) == x # Nowhere /\ ds.nodes[x].value = ds.arg
Arrive(x) == IF x = Nowhere \/ Met(x) THEN Say ELSE WhichWay(x, Nowhere, ds.arg)

SeekRoot ==
    /\ TreeBuilt(BstSearch) \/ TreeBuilt(BstDelete)
    /\ Go([ds EXCEPT !.cursor = ds.root, !.parent = Nowhere, !.pc = "seek"],
          Arrive(ds.root), NoTile)

SeekDown ==
    /\ topic \in {BstSearch, BstDelete} /\ ds.pc = "seek"
    /\ ds.cursor # Nowhere /\ ~Met(ds.cursor)
    /\ LET side == SideOf(ds.arg, ds.nodes[ds.cursor].value)
           child == ds.nodes[ds.cursor][side]
       IN  Go([ds EXCEPT !.cursor = child, !.parent = ds.cursor], Arrive(child), GoTile(side))

\* A search ends where it stands; a deletion with nothing to delete, too.
SeekEnd ==
    /\ topic \in {BstSearch, BstDelete} /\ ds.pc = "seek"
    /\ ds.cursor = Nowhere \/ (Bst(BstSearch, "seek") /\ Met(ds.cursor))
    /\ TreeEnds(ds, NoTile)

ChildrenOf(x) == {ds.nodes[x].left, ds.nodes[x].right} \ {Nowhere}

DeleteAsk ==
    /\ Bst(BstDelete, "seek") /\ Met(ds.cursor)
    /\ LET kids == Cardinality(ChildrenOf(ds.cursor))
       IN  Go([ds EXCEPT !.pc = "remove"],
              Ask("BST_DIRECTION",
                  [targetValue |-> ds.arg,
                   deleteCase |-> CASE kids = 2 -> "two-children" [] kids = 1 -> "one-child"
                                    [] OTHER -> "leaf"]), NoTile)

Without(nodes, x) == [y \in DOMAIN nodes \ {x} |-> nodes[y]]

\* With one child or none, that child takes the node's place.
RemoveOne ==
    /\ Bst(BstDelete, "remove") /\ Cardinality(ChildrenOf(ds.cursor)) < 2
    /\ LET x == ds.cursor
           child == IF ChildrenOf(x) = {} THEN Nowhere ELSE CHOOSE y \in ChildrenOf(x) : TRUE
           relinked == IF ds.parent = Nowhere THEN ds.nodes
                       ELSE SetChild(ds.nodes, ds.parent, SideBelow(ds.parent, ds.arg), child)
       IN  TreeEnds([ds EXCEPT !.nodes = Without(relinked, x),
                               !.root = IF ds.parent = Nowhere THEN child ELSE @], NoTile)

\* With two, the in-order successor's value is copied in and its node removed.
RemoveSuccessor ==
    /\ Bst(BstDelete, "remove") /\ Cardinality(ChildrenOf(ds.cursor)) = 2
    /\ LET x == ds.cursor
           y == LeftmostOf(ds.nodes, ds.nodes[x].right)
           above == CHOOSE p \in ParentsOf(ds.nodes, y) : TRUE
           relinked == SetChild(ds.nodes, above, IF above = x THEN "right" ELSE "left",
                                ds.nodes[y].right)
       IN  TreeEnds([ds EXCEPT !.nodes =
                        Without([relinked EXCEPT ![x].value = ds.nodes[y].value], y)], NoTile)

(***************************************************************************)
(* Traversals: the order is worked out first, then read out node by node.   *)
(***************************************************************************)

Sides(x, first) ==
    SelectSeq(<<ds.nodes[x][first], ds.nodes[x][Other(first)]>>, LAMBDA y : y # Nowhere)

OrderStart ==
    /\ topic \in Traversals /\ ds.pc = "next" /\ ds.i = TN
    /\ Go([ds EXCEPT !.i = 0, !.cursor = ds.root, !.pc = "order",
                     !.work = IF topic = "Inorder" \/ ds.root = Nowhere THEN <<>>
                              ELSE <<ds.root>>],
          Say, NoTile)

InorderStep ==
    /\ At("Inorder", "order")
    /\ \/ /\ ds.cursor # Nowhere
          /\ Go([ds EXCEPT !.work = Append(@, ds.cursor), !.cursor = ds.nodes[@].left],
                Say, NoTile)
       \/ /\ ds.cursor = Nowhere /\ ds.work # <<>>
          /\ LET x == LastOf(ds.work)
             IN  Go([ds EXCEPT !.work = ButLast(@), !.order = Append(@, x),
                               !.cursor = ds.nodes[x].right], Say, NoTile)

\* One stack; the right child goes in first, so that the left comes out first.
PreorderStep ==
    /\ At("Preorder", "order") /\ ds.work # <<>>
    /\ LET x == LastOf(ds.work)
       IN  Go([ds EXCEPT !.work = ButLast(@) \o Sides(x, "right"), !.order = Append(@, x)],
              Say, NoTile)

\* Two stacks; what goes on the second comes off in reverse.
PostorderStep ==
    /\ At("Postorder", "order") /\ ds.work # <<>>
    /\ LET x == LastOf(ds.work)
       IN  Go([ds EXCEPT !.work = ButLast(@) \o Sides(x, "left"), !.order = <<x>> \o @],
              Say, NoTile)

LevelOrderStep ==
    /\ At("Level Order", "order") /\ ds.work # <<>>
    /\ LET x == Head(ds.work)
       IN  Go([ds EXCEPT !.work = Tail(@) \o Sides(x, "left"), !.order = Append(@, x)],
              Say, NoTile)

Reading ==
    topic \in Traversals
    /\ \/ ds.pc = "read"
       \/ ds.pc = "order" /\ ds.work = <<>> /\ (topic = "Inorder" => ds.cursor = Nowhere)

\* Every other visit is asked about; in level order the first of each level.
NewLevel(k) ==
    k > 1 => DepthOf(ds.nodes, ds.root, ds.order[k]) # DepthOf(ds.nodes, ds.root, ds.order[k - 1])
Predicts(k) == IF topic = "Level Order" THEN NewLevel(k) ELSE (k - 1) % 2 = 0

VisitAsk ==
    /\ Reading /\ ds.i < Len(ds.order) /\ Predicts(ds.i + 1)
    /\ Go([ds EXCEPT !.pc = "visit"],
          Ask("VISIT_NODE",
              [nextVisitValue |-> ds.nodes[ds.order[ds.i + 1]].value,
               visitedOrder |-> [k \in 1 .. ds.i |-> ds.nodes[ds.order[k]].value],
               values |-> {ds.nodes[x].value : x \in DOMAIN ds.nodes}]), NoTile)

VisitRead ==
    /\ \/ topic \in Traversals /\ ds.pc = "visit"
       \/ Reading /\ ds.i < Len(ds.order) /\ ~Predicts(ds.i + 1)
    /\ Go([ds EXCEPT !.i = @ + 1, !.pc = "read"], Say,
          IF ds.pc = "visit" THEN <<"v", ds.nodes[ds.order[ds.i + 1]].value>> ELSE NoTile)

VisitEnd ==
    /\ Reading /\ ds.i = Len(ds.order)
    /\ TreeEnds(ds, NoTile)

\* The engines: each runs its steps, and those it shares, for its own topic.

bstInsertEngine ==
    /\ topic = BstInsert
    /\ \/ InsertNext \/ Descend \/ Attach \/ WhichTraversal \/ HowMany \/ InsertEnd

bstSearchEngine ==
    /\ topic = BstSearch
    /\ \/ InsertNext \/ Descend \/ Attach \/ SeekRoot \/ SeekDown \/ SeekEnd

bstDeleteEngine ==
    /\ topic = BstDelete
    /\ \/ InsertNext \/ Descend \/ Attach \/ SeekRoot \/ SeekDown \/ SeekEnd \/ DeleteAsk
       \/ RemoveOne \/ RemoveSuccessor

buildTraversalSnapshots ==
    /\ topic \in Traversals
    /\ \/ InsertNext \/ Descend \/ Attach \/ OrderStart \/ InorderStep \/ PreorderStep
       \/ PostorderStep \/ LevelOrderStep \/ VisitAsk \/ VisitRead \/ VisitEnd

TreeNext ==
    \/ bstInsertEngine \/ bstSearchEngine \/ bstDeleteEngine \/ buildTraversalSnapshots

(***************************************************************************)
(* What must be true of the trees                                           *)
(***************************************************************************)

\* At every step the tree is ordered and holds each value as often as it was
\* given; a deletion takes out one occurrence of its target and nothing else.
SearchTreeIsRight ==
    topic \in SearchTrees =>
        /\ Ordered(ds.nodes, ds.root)
        /\ step.final =>
              Holds(ds.nodes, ds.root, ds.input,
                    IF topic = BstDelete THEN ds.arg ELSE Nowhere)
        /\ step.final /\ topic = BstSearch /\ ds.cursor = Nowhere =>
              \A x \in DOMAIN ds.input : ds.input[x] # ds.arg

\* The stack machines visit the nodes in the order the traversal's name
\* promises: in order the values never go down, level by level the depth never
\* goes down and each level is read from the left.
TraversalIsRight ==
    topic \in Traversals /\ step.final =>
        LET position(x, s) == CHOOSE k \in DOMAIN s : s[k] = x
            depth(k) == DepthOf(ds.nodes, ds.root, ds.order[k])
            pre == PreOrder(ds.nodes, ds.root)
        IN  CASE topic = "Inorder" -> ds.order = InOrder(ds.nodes, ds.root)
              [] topic = "Preorder" -> ds.order = pre
              [] topic = "Postorder" -> ds.order = PostOrder(ds.nodes, ds.root)
              [] OTHER ->
                    /\ {ds.order[k] : k \in DOMAIN ds.order} = DOMAIN ds.nodes
                    /\ Len(ds.order) = Cardinality(DOMAIN ds.nodes)
                    /\ \A j, k \in DOMAIN ds.order : j < k =>
                          \/ depth(j) < depth(k)
                          \/ /\ depth(j) = depth(k)
                             /\ position(ds.order[j], pre) < position(ds.order[k], pre)

----------------------------------------------------------------------------
(***************************************************************************)
(* Heaps                                                                   *)
(***************************************************************************)

\* The arrays heaps are built from.
CONSTANTS HeapOrders

MaxInsert == "Max-Heap Insert"
MaxDelete == "Max-Heap Delete"
MinInsert == "Min-Heap Insert"
MinDelete == "Min-Heap Delete"
HeapDeletes == {MaxDelete, MinDelete}
Heaps == {MaxInsert, MinInsert} \cup HeapDeletes

HeapInit ==
    \E t \in Heaps, a \in HeapOrders :
        Begin(t, [input |-> a, array |-> <<>>, k |-> 0, i |-> 0, taken |-> Nowhere,
                  pc |-> "append"])

HeapAt(p) == topic \in Heaps /\ ds.pc = p
heapType == IF topic \in {MaxInsert, MaxDelete} THEN "max" ELSE "min"
parentOf(i) == (i - 1) \div 2
leftChildOf(i) == 2 * i + 1
rightChildOf(i) == 2 * i + 2

hasPriority(a, x, y) == IF heapType = "max" THEN a[x] > a[y] ELSE a[x] < a[y]

HeapFull == ds.k = Size(ds.input)

\* sift up: the question put at place i, where there is a parent to ask about.
SiftUp(locals) ==
    IF locals.i = 0 \/ topic \in HeapDeletes THEN Say
    ELSE Ask("HEAP_SIFT_UP", [array |-> locals.array, currentIdx |-> locals.i,
                              parentIdx |-> parentOf(locals.i), heapType |-> heapType])

Appended(a, v) == [x \in 0 .. Size(a) |-> IF x = Size(a) THEN v ELSE a[x]]

HeapAppend ==
    /\ HeapAt("append") /\ ~HeapFull
    /\ LET locals == [ds EXCEPT !.array = Appended(@, ds.input[ds.k]), !.i = ds.k, !.pc = "up"]
       IN  Go(locals, SiftUp(locals), NoTile)

HeapRise ==
    /\ HeapAt("up") /\ ds.i > 0 /\ hasPriority(ds.array, ds.i, parentOf(ds.i))
    /\ LET locals == [ds EXCEPT !.array = Swapped(@, ds.i, parentOf(ds.i)), !.i = parentOf(@)]
       IN  Go(locals, SiftUp(locals), <<"swap">>)

HeapRest ==
    /\ HeapAt("up") /\ (ds.i > 0 => ~hasPriority(ds.array, ds.i, parentOf(ds.i)))
    /\ LET last == ds.k + 1 = Size(ds.input) /\ topic \notin HeapDeletes
       IN  Go([ds EXCEPT !.k = @ + 1, !.pc = IF last THEN "ended" ELSE "append"],
              IF last THEN Final ELSE Say, IF ds.i = 0 THEN NoTile ELSE <<"stay">>)

HeapOver ==
    /\ HeapAt("append") /\ HeapFull /\ (topic \in HeapDeletes => ds.k = 0)
    /\ Go([ds EXCEPT !.pc = "ended"], Final, NoTile)

(***************************************************************************)
(* Removal of the root                                                     *)
(***************************************************************************)

Child(a, x) == IF x \in DOMAIN a THEN x ELSE Nowhere

SiftDown(locals) ==
    LET a == locals.array
        l == leftChildOf(locals.i)
    IN  IF l \notin DOMAIN a THEN Say
        ELSE Ask("HEAP_SIFT_DOWN",
                 [array |-> a, currentIdx |-> locals.i, leftChildIdx |-> l,
                  rightChildIdx |-> Child(a, rightChildOf(locals.i)), heapType |-> heapType])

\* The last element moves to the root, unless it was the root.
HeapTake ==
    /\ HeapAt("append") /\ topic \in HeapDeletes /\ HeapFull /\ ds.k > 0
    /\ LET n == Size(ds.array)
           locals == [ds EXCEPT !.array = [x \in 0 .. n - 2 |->
                                               IF x = 0 THEN ds.array[n - 1] ELSE @[x]],
                                !.taken = ds.array[0], !.i = 0, !.pc = "down"]
       IN  Go(locals, SiftDown(locals), NoTile)

HeapSink(x, tile) ==
    LET locals == [ds EXCEPT !.array = Swapped(@, ds.i, x), !.i = x]
    IN  Go(locals, SiftDown(locals), tile)

\* The left child is looked at first, the right one replaces it only when it
\* comes before it.
LeftFirst == /\ leftChildOf(ds.i) \in DOMAIN ds.array
             /\ hasPriority(ds.array, leftChildOf(ds.i), ds.i)
RightFirst == /\ rightChildOf(ds.i) \in DOMAIN ds.array
              /\ hasPriority(ds.array, rightChildOf(ds.i),
                             IF LeftFirst THEN leftChildOf(ds.i) ELSE ds.i)

HeapSinkLeft == HeapAt("down") /\ LeftFirst /\ ~RightFirst /\ HeapSink(leftChildOf(ds.i), <<"left">>)
HeapSinkRight == HeapAt("down") /\ RightFirst /\ HeapSink(rightChildOf(ds.i), <<"right">>)

HeapSettle ==
    /\ HeapAt("down") /\ ~LeftFirst /\ ~RightFirst
    /\ Go([ds EXCEPT !.pc = "ended"], Final,
          IF leftChildOf(ds.i) \in DOMAIN ds.array THEN <<"stay">> ELSE NoTile)

\* The engines: each runs its steps, and those it shares, for its own topic.

buildInsertEngine ==
    /\ topic \notin HeapDeletes
    /\ \/ HeapAppend \/ HeapRise \/ HeapRest \/ HeapOver

buildDeleteEngine ==
    /\ topic \in HeapDeletes
    /\ \/ HeapAppend \/ HeapRise \/ HeapRest \/ HeapOver \/ HeapTake \/ HeapSinkLeft
       \/ HeapSinkRight \/ HeapSettle

HeapNext ==
    \/ buildInsertEngine \/ buildDeleteEngine

(***************************************************************************)
(* What must be true of the heap                                            *)
(***************************************************************************)

Occurrences(a, v) == Cardinality({x \in DOMAIN a : a[x] = v})

\* Between operations no element comes before its parent; the heap holds what
\* was put in, and what is taken out comes before everything that stays
\* (buildInsertEngine, buildDeleteEngine).
HeapIsRight ==
    /\ HeapAt("append") \/ HeapAt("ended") =>
          \A x \in DOMAIN ds.array \ {0} : ~hasPriority(ds.array, x, parentOf(x))
    /\ HeapAt("ended") =>
          \A v \in {ds.input[x] : x \in DOMAIN ds.input} :
              Occurrences(ds.input, v) = Occurrences(ds.array, v)
                                            + (IF v = ds.taken THEN 1 ELSE 0)
    /\ HeapAt("ended") /\ ds.taken # Nowhere =>
          \A x \in DOMAIN ds.array :
              IF heapType = "max" THEN ds.array[x] <= ds.taken ELSE ds.array[x] >= ds.taken

----------------------------------------------------------------------------
(***************************************************************************)
(* Tries. A word is a sequence of characters, a node the prefix that       *)
(* leads to it; the root is the empty prefix.                              *)
(***************************************************************************)

\* The lists of words tries are built from, and the words looked for in them.
CONSTANTS WordLists, Sought

TrieInsert == "Trie Insert"
TrieSearch == "Trie Search"
TrieDelete == "Trie Delete"
Tries == {TrieInsert, TrieSearch, TrieDelete}

TrieInit ==
    \E t \in Tries, words \in WordLists :
        \E arg \in IF t = TrieInsert THEN {<<>>} ELSE Sought :
            Begin(t, [input |-> words, arg |-> arg, w |-> 1, word |-> <<>>, at |-> <<>>,
                      nodes |-> {<<>>}, ends |-> {}, found |-> FALSE, pc |-> "next"])

TrieAt(p) == topic \in Tries /\ ds.pc = p
TrieEnds(locals, tile) == Go([locals EXCEPT !.pc = "ended"], Final, tile)

\* The node one character further along the word.
Along(locals) == SubSeq(locals.word, 1, Len(locals.at) + 1)
AtEnd == Len(ds.at) = Len(ds.word)
Exists(locals) == Along(locals) \in locals.nodes

AskNew(locals) ==
    IF locals.at = locals.word \/ topic # TrieInsert THEN Say
    ELSE Ask("TRIE_INSERT_NEW", [needsNewNode |-> ~Exists(locals)])

AskMatch(locals) ==
    IF locals.at = locals.word THEN Say
    ELSE Ask("TRIE_CHARACTER_MATCH", [charExists |-> Exists(locals)])

NextWord ==
    /\ TrieAt("next") /\ ds.w <= Len(ds.input)
    /\ LET locals == [ds EXCEPT !.word = ds.input[ds.w], !.at = <<>>, !.pc = "grow"]
       IN  Go(locals, AskNew(locals), NoTile)

NoWords ==
    /\ TrieAt("next") /\ topic = TrieInsert /\ ds.input = <<>>
    /\ TrieEnds(ds, NoTile)

Grow ==
    /\ TrieAt("grow") /\ ~AtEnd
    /\ LET locals == [ds EXCEPT !.nodes = @ \cup {Along(ds)}, !.at = Along(ds)]
       IN  Go(locals, AskNew(locals), IF Exists(ds) THEN <<"existing">> ELSE <<"new">>)

EndWord ==
    /\ TrieAt("grow") /\ AtEnd
    /\ LET last == ds.w = Len(ds.input) /\ topic = TrieInsert
       IN  Go([ds EXCEPT !.ends = @ \cup {ds.at}, !.w = @ + 1,
                         !.pc = IF last THEN "ended" ELSE "next"],
              IF last THEN Final ELSE Say, NoTile)

(***************************************************************************)
(* Search and deletion                                                     *)
(***************************************************************************)

SeekWord ==
    /\ TrieAt("next") /\ topic # TrieInsert /\ ds.w > Len(ds.input)
    /\ LET locals == [ds EXCEPT !.word = ds.arg, !.at = <<>>, !.pc = "seek"]
       IN  Go(locals, AskMatch(locals), NoTile)

NextCharacter ==
    /\ TrieAt("seek") /\ ~AtEnd /\ Exists(ds)
    /\ LET locals == [ds EXCEPT !.at = Along(ds)]
       IN  Go(locals, AskMatch(locals), <<"exists">>)

Missing ==
    /\ TrieAt("seek") /\ ~AtEnd /\ ~Exists(ds)
    /\ TrieEnds(ds, <<"missing">>)

OnlyPrefix ==
    /\ TrieAt("seek") /\ AtEnd /\ ds.at \notin ds.ends
    /\ TrieEnds(ds, NoTile)

SearchFinds ==
    /\ TrieAt("seek") /\ topic = TrieSearch /\ AtEnd /\ ds.at \in ds.ends
    /\ TrieEnds([ds EXCEPT !.found = TRUE], NoTile)

Unmark ==
    /\ TrieAt("seek") /\ topic = TrieDelete /\ AtEnd /\ ds.at \in ds.ends
    /\ Go([ds EXCEPT !.ends = @ \ {ds.at}, !.found = TRUE, !.pc = "prune"], Say, NoTile)

Needed(x) == \/ x \in ds.ends
             \/ \E y \in ds.nodes : Len(y) = Len(x) + 1 /\ SubSeq(y, 1, Len(x)) = x

\* Pruning walks back up and stops at the first node still needed; the last
\* snapshot is the final one.
Prune ==
    /\ TrieAt("prune") /\ ds.at # <<>> /\ ~Needed(ds.at)
    /\ LET up == SubSeq(ds.at, 1, Len(ds.at) - 1)
       IN  Go([ds EXCEPT !.nodes = @ \ {ds.at}, !.at = up,
                         !.pc = IF up = <<>> THEN "ended" ELSE "prune"],
              IF up = <<>> THEN Final ELSE Say, NoTile)

PruneStops ==
    /\ TrieAt("prune") /\ ds.at # <<>> /\ Needed(ds.at)
    /\ TrieEnds(ds, NoTile)

\* The engines: each runs its steps, and those it shares, for its own topic.

trieInsertEngine == topic = TrieInsert /\ (NextWord \/ NoWords \/ Grow \/ EndWord)

trieSearchEngine ==
    /\ topic = TrieSearch
    /\ \/ NextWord \/ Grow \/ EndWord \/ SeekWord \/ NextCharacter \/ Missing \/ OnlyPrefix
       \/ SearchFinds

trieDeleteEngine ==
    /\ topic = TrieDelete
    /\ \/ NextWord \/ Grow \/ EndWord \/ SeekWord \/ NextCharacter \/ Missing \/ OnlyPrefix
       \/ Unmark \/ Prune \/ PruneStops

TrieNext ==
    \/ trieInsertEngine \/ trieSearchEngine \/ trieDeleteEngine

(***************************************************************************)
(* What must be true of the trie                                            *)
(***************************************************************************)

Given == {ds.input[k] : k \in DOMAIN ds.input}
PrefixesOf(words) == {<<>>} \cup UNION {{SubSeq(x, 1, n) : n \in 1 .. Len(x)} : x \in words}

\* At the end the trie ends exactly the words it was given, less a deleted one,
\* has a node for each of their prefixes and for nothing else, and the answer
\* is whether the word was one of them (trieInsertEngine, trieDeleteEngine).
TrieIsRight ==
    TrieAt("ended") =>
        /\ ds.ends = Given \ (IF topic = TrieDelete THEN {ds.arg} ELSE {})
        /\ ds.nodes = PrefixesOf(ds.ends)
        /\ topic # TrieInsert => ds.found = (ds.arg \in Given)

==============================================================================
