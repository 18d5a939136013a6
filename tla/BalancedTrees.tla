---------------------------- MODULE BalancedTrees ----------------------------
(***************************************************************************)
(* The engines of the AVL tree (avlTree.ts) and of the red-black tree       *)
(* (redBlackTree.ts).  A deletion works on a tree the insertion engine has  *)
(* built first, without its questions.                                      *)
(***************************************************************************)
EXTENDS TreeEngines

\* The arrays balanced trees are built from.
CONSTANTS Orders

AvlInsert == "AVL Insert"
AvlDelete == "AVL Delete"
RbInsert == "Red-Black Insert"
RbDelete == "Red-Black Delete"
Avls == {AvlInsert, AvlDelete}
RedBlacks == {RbInsert, RbDelete}
Balanced == Avls \cup RedBlacks

BalancedInit ==
    \E t \in Balanced, a \in Orders :
        \E arg \in IF t \in {AvlDelete, RbDelete}
                   THEN Unknown \cup {a[x] : x \in DOMAIN a} ELSE {0} :
            Begin(t, [input |-> a, arg |-> arg, nodes |-> <<>>, root |-> Nowhere,
                      cursor |-> Nowhere, path |-> <<>>, i |-> 0, sought |-> arg,
                      back |-> Nowhere, above |-> Nowhere, pc |-> "next"])

BN == Size(ds.input)
Bal(ts, p) == topic \in ts /\ ds.pc = p
Inserting == topic \in {AvlInsert, RbInsert} \/ ds.i < BN
Told(snapshot) == IF topic \in {AvlInsert, RbInsert} \/ ds.i = BN THEN snapshot ELSE Say

BEnds(locals) == Go([locals EXCEPT !.pc = "ended"], Final, NoTile)
GoTo(side) == IF side = "left" THEN <<"go-left">> ELSE <<"go-right">>

\* A comparison on the way down, asked unless an empty place is reached.
Compare(nodes, x) ==
    IF x = Nowhere THEN Say
    ELSE Told(Ask("BST_DIRECTION",
                  [node |-> [value |-> nodes[x].value],
                   targetValue |-> IF Inserting THEN ds.input[ds.i] ELSE ds.arg]))

NextKey ==
    /\ Bal(Balanced, "next") /\ ds.i < BN
    /\ Go([ds EXCEPT !.cursor = ds.root, !.path = <<>>, !.sought = ds.input[ds.i],
                     !.pc = "down"],
          Compare(ds.nodes, ds.root), NoTile)

NoKeys ==
    /\ Bal({AvlInsert, RbInsert}, "next") /\ BN = 0
    /\ BEnds(ds)

GoDown ==
    /\ Bal(Balanced, "down") /\ ds.cursor # Nowhere
    /\ LET side == SideOf(ds.sought, ds.nodes[ds.cursor].value)
           child == ds.nodes[ds.cursor][side]
       IN  Go([ds EXCEPT !.path = Append(@, [node |-> ds.cursor, side |-> side]),
                         !.cursor = child],
              Compare(ds.nodes, child), GoTo(side))

(***************************************************************************)
(* AVL tree: a node keeps its height.                                       *)
(***************************************************************************)

HeightAt(nodes, x) == IF x = Nowhere THEN 0 ELSE nodes[x].height
BalanceAt(nodes, x) == HeightAt(nodes, nodes[x].left) - HeightAt(nodes, nodes[x].right)
updateHeight(nodes, x) ==
    [nodes EXCEPT ![x].height =
        1 + Greatest({HeightAt(nodes, nodes[x].left), HeightAt(nodes, nodes[x].right)})]

\* rotateRight (side left) and rotateLeft (side right): the child on that side
\* comes up.
RotateUp(nodes, x, side) ==
    LET y == nodes[x][side]
        turned == SetChild(SetChild(nodes, x, side, nodes[y][Other(side)]), y, Other(side), x)
    IN  updateHeight(updateHeight(turned, x), y)

AvlCreate ==
    /\ Bal(Avls, "down") /\ ds.cursor = Nowhere
    /\ Go([ds EXCEPT !.nodes = @ @@ (ds.i :> [value |-> ds.sought, left |-> Nowhere,
                                               right |-> Nowhere, height |-> 1]),
                     !.back = ds.i, !.pc = "climb"], Say, NoTile)

\* On the way back every ancestor takes its new subtree, and is checked.
AvlClimb ==
    /\ Bal(Avls, "climb") /\ ds.path # <<>>
    /\ LET last == ds.path[Len(ds.path)]
           x == last.node
           nodes == updateHeight(SetChild(ds.nodes, x, last.side, ds.back), x)
       IN  Go([ds EXCEPT !.nodes = nodes, !.cursor = x, !.pc = "check",
                         !.path = SubSeq(@, 1, Len(@) - 1)],
              Told(Ask("AVL_BALANCE_CHECK", [balanceFactor |-> BalanceAt(nodes, x)])), NoTile)

AvlBalanced ==
    /\ Bal(Avls, "check") /\ BalanceAt(ds.nodes, ds.cursor) \in -1 .. 1
    /\ Go([ds EXCEPT !.back = ds.cursor, !.pc = "climb"], Say, <<"balanced">>)

Heavy == IF BalanceAt(ds.nodes, ds.cursor) > 1 THEN "left" ELSE "right"

\* Wrong: a balanced child is taken for one that leans inward.
StraightStrict ==
    LET child == ds.nodes[ds.cursor][Heavy]
    IN  IF Inserting
        THEN IF Heavy = "left" THEN ds.sought < ds.nodes[child].value
                               ELSE ds.sought > ds.nodes[child].value
        ELSE IF Heavy = "left" THEN BalanceAt(ds.nodes, child) > 0
                               ELSE BalanceAt(ds.nodes, child) < 0

\* After an insertion the values decide which rotation it is, after a deletion
\* the balance of the heavy child.
Straight ==
    LET child == ds.nodes[ds.cursor][Heavy]
    IN  IF Inserting
        THEN IF Heavy = "left" THEN ds.sought < ds.nodes[child].value
                               ELSE ds.sought > ds.nodes[child].value
        ELSE IF Heavy = "left" THEN BalanceAt(ds.nodes, child) >= 0
                               ELSE BalanceAt(ds.nodes, child) <= 0

rotationType ==
    IF Heavy = "left" THEN IF Straight THEN "LL" ELSE "LR"
                      ELSE IF Straight THEN "RR" ELSE "RL"

AvlUnbalanced ==
    /\ Bal(Avls, "check") /\ BalanceAt(ds.nodes, ds.cursor) \notin -1 .. 1
    /\ Go([ds EXCEPT !.pc = "rotate"],
          Told(Ask("AVL_ROTATION_TYPE", [rotationType |-> rotationType])), <<"unbalanced">>)

\* A double rotation turns the heavy child first.  Turning over a child that is
\* not there throws, and the run with it.
InnerChild == ds.nodes[ds.nodes[ds.cursor][Heavy]][Other(Heavy)]

AvlRotate ==
    /\ Bal(Avls, "rotate") /\ (Straight \/ InnerChild # Nowhere)
    /\ LET x == ds.cursor
           child == ds.nodes[x][Heavy]
           turned == RotateUp(ds.nodes, child, Other(Heavy))
           ready == IF Straight THEN ds.nodes ELSE SetChild(turned, x, Heavy, InnerChild)
           top == ready[x][Heavy]
       IN  Go([ds EXCEPT !.nodes = RotateUp(ready, x, Heavy), !.back = top, !.pc = "climb",
                         !.root = IF @ = x THEN top ELSE @],
              Say, <<rotationType>>)

AvlThrow ==
    /\ Bal(Avls, "rotate") /\ ~Straight /\ InnerChild = Nowhere
    /\ Go([ds EXCEPT !.pc = "thrown"], Say, NoTile)

AvlInserted ==
    /\ Bal(Avls, "climb") /\ ds.path = <<>> /\ ds.i < BN
    /\ LET last == topic = AvlInsert /\ ds.i + 1 = BN
       IN  Go([ds EXCEPT !.root = ds.back, !.i = @ + 1, !.pc = IF last THEN "ended" ELSE "next"],
              IF last THEN Final ELSE Say, NoTile)

AvlDeleteStart ==
    /\ Bal({AvlDelete}, "next") /\ ds.i = BN
    /\ IF ds.root = Nowhere THEN BEnds(ds)
       ELSE Go([ds EXCEPT !.cursor = ds.root, !.path = <<>>, !.sought = ds.arg, !.pc = "seek"],
               Compare(ds.nodes, ds.root), NoTile)

AtSought == ds.cursor # Nowhere /\ ds.nodes[ds.cursor].value = ds.sought

AvlSeek ==
    /\ Bal({AvlDelete}, "seek") /\ ds.cursor # Nowhere /\ ~AtSought
    /\ LET side == SideOf(ds.sought, ds.nodes[ds.cursor].value)
           child == ds.nodes[ds.cursor][side]
       IN  Go([ds EXCEPT !.path = Append(@, [node |-> ds.cursor, side |-> side]),
                         !.cursor = child],
              Compare(ds.nodes, child), GoTo(side))

AvlMiss ==
    /\ Bal({AvlDelete}, "seek") /\ ds.cursor = Nowhere
    /\ Go([ds EXCEPT !.back = Nowhere, !.pc = "climb"], Say, NoTile)

Kids(x) == {ds.nodes[x].left, ds.nodes[x].right} \ {Nowhere}
Lost(nodes, x) == [y \in DOMAIN nodes \ {x} |-> nodes[y]]

AvlRemoveOne ==
    /\ Bal({AvlDelete}, "seek") /\ AtSought /\ Cardinality(Kids(ds.cursor)) < 2
    /\ LET child == IF Kids(ds.cursor) = {} THEN Nowhere ELSE CHOOSE y \in Kids(ds.cursor) : TRUE
       IN  Go([ds EXCEPT !.nodes = Lost(@, ds.cursor), !.back = child, !.pc = "climb"],
              Say, <<"remove">>)

\* The successor's value is copied in; that value is then deleted on the right.
AvlReplace ==
    /\ Bal({AvlDelete}, "seek") /\ AtSought /\ Cardinality(Kids(ds.cursor)) = 2
    /\ LET right == ds.nodes[ds.cursor].right
           v == ds.nodes[LeftmostOf(ds.nodes, right)].value
           nodes == [ds.nodes EXCEPT ![ds.cursor].value = v]
       IN  Go([ds EXCEPT !.nodes = nodes, !.sought = v, !.cursor = right,
                         !.path = Append(@, [node |-> ds.cursor, side |-> "right"])],
              Compare(nodes, right), <<"remove">>)

AvlDeleted ==
    /\ Bal({AvlDelete}, "climb") /\ ds.path = <<>> /\ ds.i = BN
    /\ BEnds([ds EXCEPT !.root = ds.back])

(***************************************************************************)
(* Red-black tree: a node keeps its colour and its parent.                  *)
(***************************************************************************)

IsRed(nodes, x) == x # Nowhere /\ nodes[x].color = "RED"
Color(nodes, x, c) == IF x = Nowhere THEN nodes ELSE [nodes EXCEPT ![x].color = c]
SetParent(nodes, x, p) == IF x = Nowhere THEN nodes ELSE [nodes EXCEPT ![x].parent = p]

\* leftRotate (side right) and rightRotate (side left), on a tree with parents.
Rotate(nodes, x, side) ==
    LET y == nodes[x][side]
        inner == nodes[y][Other(side)]
        p == nodes[x].parent
        a == SetParent(SetChild(nodes, x, side, inner), inner, x)
        b == SetParent(a, y, p)
        c == IF p = Nowhere THEN b
             ELSE SetChild(b, p, IF b[p].left = x THEN "left" ELSE "right", y)
    IN  SetParent(SetChild(c, y, Other(side), x), x, y)
RootAfter(x, side) == IF ds.root = x THEN ds.nodes[x][side] ELSE ds.root
RotationName(side) == IF side = "right" THEN <<"left-rotate">> ELSE <<"right-rotate">>

RbAttach ==
    /\ Bal(RedBlacks, "down") /\ ds.cursor = Nowhere
    /\ LET x == ds.i
           up == IF ds.path = <<>> THEN Nowhere ELSE ds.path[Len(ds.path)].node
           side == IF up = Nowhere THEN "left" ELSE SideOf(ds.sought, ds.nodes[up].value)
           node == [value |-> ds.sought, left |-> Nowhere, right |-> Nowhere,
                    color |-> "RED", parent |-> up]
       IN  Go([ds EXCEPT !.nodes = SetChild(@, up, side, x) @@ (x :> node),
                         !.root = IF up = Nowhere THEN x ELSE @, !.cursor = x,
                         !.pc = "fix"], Say, NoTile)

Up(x) == ds.nodes[x].parent
SideAt(x) == IF ds.nodes[Up(x)].left = x THEN "left" ELSE "right"
RedParent == Up(ds.cursor) # Nowhere /\ IsRed(ds.nodes, Up(ds.cursor)) /\ Up(Up(ds.cursor)) # Nowhere
Grand == Up(Up(ds.cursor))
Uncle == ds.nodes[Grand][Other(SideAt(Up(ds.cursor)))]
ColorOf(x) == IF IsRed(ds.nodes, x) THEN "RED" ELSE "BLACK"

FixAsk ==
    /\ Bal(RedBlacks, "fix") /\ RedParent
    /\ Go([ds EXCEPT !.pc = "uncle"],
          Told(Ask("RB_COLOR_DECISION", [uncleColor |-> ColorOf(Uncle)])), NoTile)

FixRecolor ==
    /\ Bal(RedBlacks, "uncle") /\ IsRed(ds.nodes, Uncle)
    /\ Go([ds EXCEPT !.nodes = Color(Color(Color(@, Up(ds.cursor), "BLACK"), Uncle, "BLACK"),
                                     Grand, "RED"),
                     !.cursor = Grand, !.pc = "fix"],
          Told(Ask("RB_ROTATION_RECOLOR", [fixupOperation |-> <<"recolor">>])), <<"recolor">>)

\* Parent and grandparent change colour before the last rotation is asked about.
Outer(nodes, z) ==
    LET p == nodes[z].parent
        gp == nodes[p].parent
    IN  [nodes |-> Color(Color(nodes, p, "BLACK"), gp, "RED"), top |-> gp,
         side |-> IF nodes[gp].left = p THEN "left" ELSE "right"]
AskOuter(nodes, z, tile) ==
    LET o == Outer(nodes, z)
    IN  Go([ds EXCEPT !.nodes = o.nodes, !.cursor = o.top, !.back = z, !.pc = "outer",
                      !.root = IF tile = <<"rotate">> THEN @ ELSE
                               IF nodes[z].parent = Nowhere THEN z ELSE @],
           Told(Ask("RB_ROTATION_RECOLOR", [fixupOperation |-> RotationName(o.side)])), tile)

Inner == SideAt(ds.cursor) # SideAt(Up(ds.cursor))

FixOuter ==
    /\ Bal(RedBlacks, "uncle") /\ ~IsRed(ds.nodes, Uncle) /\ ~Inner
    /\ AskOuter(ds.nodes, ds.cursor, <<"rotate">>)

FixInner ==
    /\ Bal(RedBlacks, "uncle") /\ ~IsRed(ds.nodes, Uncle) /\ Inner
    /\ Go([ds EXCEPT !.pc = "inner"],
          Told(Ask("RB_ROTATION_RECOLOR",
                   [fixupOperation |-> RotationName(SideAt(ds.cursor))])), <<"rotate">>)

FixInnerRotate ==
    /\ Bal(RedBlacks, "inner")
    /\ LET side == SideAt(ds.cursor)
           p == Up(ds.cursor)
       IN  AskOuter(Rotate(ds.nodes, p, side), p, RotationName(side))

FixOuterRotate ==
    /\ Bal(RedBlacks, "outer")
    /\ LET side == Other(IF ds.nodes[ds.cursor].left = Up(ds.back) THEN "right" ELSE "left")
       IN  Go([ds EXCEPT !.nodes = Rotate(@, ds.cursor, side),
                         !.root = RootAfter(ds.cursor, side), !.pc = "black"],
              Say, RotationName(side))

\* The root ends black, and the next value comes in.
FixDone ==
    /\ Bal(RedBlacks, "black") \/ (Bal(RedBlacks, "fix") /\ ~RedParent)
    /\ LET last == topic = RbInsert /\ ds.i + 1 = BN
       IN  Go([ds EXCEPT !.nodes = Color(@, ds.root, "BLACK"), !.i = @ + 1,
                         !.pc = IF last THEN "ended" ELSE "next"],
              IF last THEN Final ELSE Say, NoTile)

(***************************************************************************)
(* Red-black deletion                                                      *)
(***************************************************************************)

RbDeleteStart ==
    /\ Bal({RbDelete}, "next") /\ ds.i = BN
    /\ Go([ds EXCEPT !.cursor = ds.root, !.sought = ds.arg, !.pc = "seek"],
          Compare(ds.nodes, ds.root), NoTile)

RbSeek ==
    /\ Bal({RbDelete}, "seek") /\ ds.cursor # Nowhere /\ ~AtSought
    /\ LET side == SideOf(ds.sought, ds.nodes[ds.cursor].value)
           child == ds.nodes[ds.cursor][side]
       IN  Go([ds EXCEPT !.cursor = child], Compare(ds.nodes, child), GoTo(side))

RbMiss ==
    /\ Bal({RbDelete}, "seek") /\ ds.cursor = Nowhere
    /\ BEnds(ds)

transplant(nodes, u, v) ==
    LET p == nodes[u].parent
        linked == IF p = Nowhere THEN nodes
                  ELSE SetChild(nodes, p, IF nodes[p].left = u THEN "left" ELSE "right", v)
    IN  SetParent(linked, v, p)

\* x (cursor) takes the place left empty below its parent (above); back keeps
\* whether a black node has gone.
Spliced(nodes, gone, x, parent, color) ==
    Go([ds EXCEPT !.nodes = Lost(nodes, gone), !.cursor = x, !.above = parent,
                  !.root = IF ds.root # gone THEN @
                           ELSE IF ds.nodes[gone].left = Nowhere \/ ds.nodes[gone].right = Nowhere
                                THEN x ELSE LeftmostOf(ds.nodes, ds.nodes[gone].right),
                  !.pc = IF color = "BLACK" THEN "short" ELSE "last"],
       Say, <<"remove">>)

RbRemoveOne ==
    /\ Bal({RbDelete}, "seek") /\ AtSought /\ Cardinality(Kids(ds.cursor)) < 2
    /\ LET z == ds.cursor
           x == IF ds.nodes[z].left = Nowhere THEN ds.nodes[z].right ELSE ds.nodes[z].left
       IN  Spliced(transplant(ds.nodes, z, x), z, x, Up(z), ds.nodes[z].color)

\* The successor moves into the place of the node, and takes its colour.
RbReplace ==
    /\ Bal({RbDelete}, "seek") /\ AtSought /\ Cardinality(Kids(ds.cursor)) = 2
    /\ LET z == ds.cursor
           y == LeftmostOf(ds.nodes, ds.nodes[z].right)
           x == ds.nodes[y].right
           near == Up(y) = z
           freed == IF near THEN ds.nodes
                    ELSE LET out == transplant(ds.nodes, y, x)
                         IN  SetParent(SetChild(out, y, "right", out[z].right), out[z].right, y)
           moved == transplant(freed, z, y)
           whole == SetParent(SetChild(moved, y, "left", moved[z].left), moved[z].left, y)
       IN  Spliced(Color(whole, y, ds.nodes[z].color), z, x, IF near THEN y ELSE Up(y),
                   ds.nodes[y].color)

\* While the subtree at x is short of a black node.
Short == ds.cursor # ds.root /\ ~IsRed(ds.nodes, ds.cursor) /\ ds.above # Nowhere
ShortSide == IF ds.nodes[ds.above].left = ds.cursor THEN "left" ELSE "right"
Sibling == ds.nodes[ds.above][Other(ShortSide)]
Nephew(side) == ds.nodes[Sibling][side]

SiblingAsk ==
    /\ Bal({RbDelete}, "short") /\ Short
    /\ Go([ds EXCEPT !.pc = "sibling"],
          Ask("RB_COLOR_DECISION", [uncleColor |-> ColorOf(Sibling)]), NoTile)

RedSibling ==
    /\ Bal({RbDelete}, "sibling") /\ IsRed(ds.nodes, Sibling)
    /\ LET far == Other(ShortSide)
           colored == Color(Color(ds.nodes, Sibling, "BLACK"), ds.above, "RED")
       IN  Go([ds EXCEPT !.nodes = Rotate(colored, ds.above, far),
                         !.root = RootAfter(ds.above, far)], Say, <<"rotate">>)

BlackNephews ==
    /\ Bal({RbDelete}, "sibling") /\ ~IsRed(ds.nodes, Sibling)
    /\ \A side \in ChildSides : ~IsRed(ds.nodes, Nephew(side))
    /\ Go([ds EXCEPT !.nodes = Color(@, Sibling, "RED"), !.cursor = ds.above,
                     !.above = Up(ds.above), !.pc = "short"],
          Ask("RB_ROTATION_RECOLOR", [fixupOperation |-> <<"recolor">>]), <<"recolor">>)

\* Only the near nephew is red: the sibling is turned first.
NearNephew ==
    /\ Bal({RbDelete}, "sibling") /\ ~IsRed(ds.nodes, Sibling)
    /\ IsRed(ds.nodes, Nephew(ShortSide)) /\ ~IsRed(ds.nodes, Nephew(Other(ShortSide)))
    /\ Go([ds EXCEPT !.nodes = Color(Color(@, Nephew(ShortSide), "BLACK"), Sibling, "RED"),
                     !.back = Sibling, !.pc = "near"],
          Ask("RB_ROTATION_RECOLOR", [fixupOperation |-> RotationName(ShortSide)]), <<"rotate">>)

\* The shortage is made up, and the loop is left.
Repaired(nodes, tile) ==
    LET far == Other(ShortSide)
        sibling == nodes[ds.above][far]
        colored == Color(Color(Color(nodes, sibling, nodes[ds.above].color), ds.above, "BLACK"),
                         nodes[sibling][far], "BLACK")
        root == IF ds.root = ds.above THEN sibling ELSE ds.root
    IN  Go([ds EXCEPT !.nodes = Rotate(colored, ds.above, far), !.root = root,
                      !.cursor = root, !.above = Nowhere, !.pc = "short"], Say, tile)

NearRotate ==
    /\ Bal({RbDelete}, "near")
    /\ Repaired(Rotate(ds.nodes, ds.back, ShortSide), RotationName(ShortSide))

FarNephew ==
    /\ Bal({RbDelete}, "sibling") /\ ~IsRed(ds.nodes, Sibling)
    /\ IsRed(ds.nodes, Nephew(Other(ShortSide)))
    /\ Repaired(ds.nodes, <<"rotate">>)

RbDeleted ==
    /\ Bal({RbDelete}, "last") \/ (Bal({RbDelete}, "short") /\ ~Short)
    /\ LET made == IF ds.pc = "short" THEN Color(ds.nodes, ds.cursor, "BLACK") ELSE ds.nodes
       IN  BEnds([ds EXCEPT !.nodes = Color(made, ds.root, "BLACK")])

\* The engines: each runs its steps, and those it shares, for its own topic.

avlInsertEngine ==
    /\ topic = AvlInsert
    /\ \/ NextKey \/ NoKeys \/ GoDown \/ AvlCreate \/ AvlClimb \/ AvlBalanced
       \/ AvlUnbalanced \/ AvlRotate \/ AvlThrow \/ AvlInserted

avlDeleteEngine ==
    /\ topic = AvlDelete
    /\ \/ NextKey \/ NoKeys \/ GoDown \/ AvlCreate \/ AvlClimb \/ AvlBalanced
       \/ AvlUnbalanced \/ AvlRotate \/ AvlThrow \/ AvlInserted \/ AvlDeleteStart
       \/ AvlSeek \/ AvlMiss \/ AvlRemoveOne \/ AvlReplace \/ AvlDeleted

fixupInsert ==
    /\ topic \in RedBlacks
    /\ \/ FixAsk \/ FixRecolor \/ FixOuter \/ FixInner \/ FixInnerRotate \/ FixOuterRotate

rbInsertEngine ==
    /\ topic = RbInsert
    /\ \/ NextKey \/ NoKeys \/ GoDown \/ RbAttach \/ fixupInsert \/ FixDone

fixupDelete ==
    /\ topic = RbDelete
    /\ \/ SiblingAsk \/ RedSibling \/ BlackNephews \/ NearNephew \/ NearRotate \/ FarNephew

rbDeleteEngine ==
    /\ topic = RbDelete
    /\ \/ NextKey \/ NoKeys \/ GoDown \/ RbAttach \/ fixupInsert \/ FixDone
       \/ RbDeleteStart \/ RbSeek \/ RbMiss \/ RbRemoveOne \/ RbReplace \/ fixupDelete
       \/ RbDeleted

BalancedNext ==
    \/ avlInsertEngine \/ avlDeleteEngine \/ rbInsertEngine \/ rbDeleteEngine

(***************************************************************************)
(* What must be true of the trees                                           *)
(***************************************************************************)

Standing == topic \in Balanced /\ ds.pc \in {"next", "ended"}
Whole == IF topic \in {AvlInsert, RbInsert} \/ ds.pc = "next" THEN Nowhere ELSE ds.arg

\* A rotation has the node it turns up: every unbalanced node leans the way
\* the values say.  (The code tells the lean by comparing values, although an
\* equal value went right; avlTree.ts:142-143 calls its rotation "the one
\* rotation that always suffices to rebalance an AVL insert".)
RotationFits == Bal(Avls, "rotate") => Straight \/ InnerChild # Nowhere

\* Between operations an AVL tree is ordered, holds what it was given, keeps
\* the true heights, and no node is more than one higher on one side.
AvlIsBalanced ==
    Standing /\ topic \in Avls =>
        /\ Ordered(ds.nodes, ds.root)
        /\ \A x \in DOMAIN ds.nodes :
              /\ ds.nodes[x].height = HeightOf(ds.nodes, x)
              /\ BalanceAt(ds.nodes, x) \in -1 .. 1
        /\ step.final => Holds(ds.nodes, ds.root, ds.input, Whole)

\* Between operations a red-black tree is ordered, holds what it was given, its
\* parents are those its children name, its root is black, no red node has a
\* red child, and every path to an empty place passes as many black nodes.
RedBlackRules ==
    Standing /\ topic \in RedBlacks =>
        LET nodes == ds.nodes
            blacks[x \in DOMAIN nodes \cup {Nowhere}] ==
                IF x = Nowhere THEN {0}
                ELSE {b + (IF nodes[x].color = "BLACK" THEN 1 ELSE 0) :
                        b \in blacks[nodes[x].left] \cup blacks[nodes[x].right]}
        IN  /\ Ordered(nodes, ds.root)
            /\ step.final => Holds(nodes, ds.root, ds.input, Whole)
            /\ ~IsRed(nodes, ds.root)
            /\ Cardinality(blacks[ds.root]) = 1
            /\ \A x \in DOMAIN nodes :
                  /\ {nodes[x].parent} \ {Nowhere} = ParentsOf(nodes, x)
                  /\ IsRed(nodes, x) =>
                        \A side \in ChildSides : ~IsRed(nodes, nodes[x][side])

=============================================================================
