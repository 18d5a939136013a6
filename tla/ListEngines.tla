----------------------------- MODULE ListEngines -----------------------------
(***************************************************************************)
(* The engines of the linked lists (singlyLinkedList.ts,                    *)
(* doublyLinkedList.ts, circularLinkedList.ts).  A node is known by the     *)
(* order it was created in; only a doubly linked list's nodes have a prev.  *)
(* Every engine builds its list first, by appending, and then works on the  *)
(* pointers.  Inserting at a position and reversing are exported by the     *)
(* engines but no control of the page runs them.                            *)
(***************************************************************************)
EXTENDS Lesson, TLC

CONSTANTS
    Chains,     \* the arrays of values lists are built from
    Strangers   \* values looked for that no list holds

Singly == "Singly Linked List"
Doubly == "Doubly Linked List"
Circular == "Circular Linked List"
Lists == {Singly, Doubly, Circular}

InsertOps == {"insertFront", "insertBack", "insertAt"}
OpsOf(t) == IF t = Circular THEN {"insertBack", "delete", "traverse"}
            ELSE InsertOps \cup {"delete", "search", "reverse"}

\* What an operation is given: a value to look for, a position or nothing.
ArgsOf(op, a) ==
    CASE op \in {"delete", "search"} -> Strangers \cup {a[x] : x \in DOMAIN a}
      [] op = "insertAt" -> 0 .. Size(a) + 1
      [] OTHER -> {0}

ListInit ==
    \E t \in Lists, a \in Chains : \E op \in OpsOf(t) : \E arg \in ArgsOf(op, a) :
        Begin(t, [input |-> a, op |-> op, arg |-> arg, nodes |-> <<>>,
                  head |-> Nowhere, tail |-> Nowhere, cursor |-> Nowhere,
                  prev |-> Nowhere, i |-> 0, pc |-> "build"])

LN == Size(ds.input)
InList(op, p) == topic \in Lists /\ ds.op = op /\ ds.pc = p

\* synthesizeNewValue: one more than the greatest value of the list.
NewListValue == IF LN = 0 THEN 1 ELSE Greatest({ds.input[x] : x \in DOMAIN ds.input}) + 1
New == LN
Node(v, next, prev) ==
    IF topic = Doubly THEN [value |-> v, next |-> next, prev |-> prev]
                      ELSE [value |-> v, next |-> next]

\* A pointer of a node is set, if there is such a node.
Point(nodes, x, field, y) == IF x \in DOMAIN nodes THEN [nodes EXCEPT ![x][field] = y] ELSE nodes
PointBack(nodes, x, y) == IF topic = Doubly THEN Point(nodes, x, "prev", y) ELSE nodes

\* A node goes in between two others, either of which may be missing.
Between(id, v, prev, next) ==
    PointBack(Point(ds.nodes, prev, "next", id), next, id) @@ (id :> Node(v, next, prev))

Position ==
    CASE ds.op = "insertFront" -> 0
      [] ds.op = "insertBack" -> LN
      [] ds.op = "insertAt" -> IF ds.arg > LN THEN LN ELSE ds.arg
      [] OTHER -> Nowhere

\* What the snapshots show: currentId, activePointer, and the list.
Shown(current, pointer) ==
    [nodes |-> ds.nodes, headId |-> ds.head, tailId |-> ds.tail,
     currentId |-> current, activePointer |-> pointer, operation |-> ds.op,
     operationValue |-> NewListValue, insertPosition |-> Position]

Linking == Ask("INSERT_BETWEEN", Shown(ds.cursor, "next"))

\* Which node follows: the junction has another name in a doubly linked list.
Following(current, pointer) ==
    Ask(IF topic = Doubly THEN "TRAVERSE_DIRECTION" ELSE "POINTER_FOLLOW",
        Shown(current, pointer))

ToTile(x) == IF x = Nowhere THEN <<"null">> ELSE <<"node", x>>
ListEnds(locals, tile) == Go([locals EXCEPT !.pc = "ended"], Final, tile)

(***************************************************************************)
(* Building                                                                *)
(***************************************************************************)

\* In a circular list the last node always points to the first.
BuildNode ==
    /\ topic \in Lists /\ ds.pc = "build" /\ ds.i < LN
    /\ LET x == ds.i
           linked == Between(x, ds.input[x], ds.tail, Nowhere)
       IN  Go([ds EXCEPT !.nodes = IF topic = Circular THEN Point(linked, x, "next", 0)
                                                       ELSE linked,
                         !.head = 0, !.tail = x, !.i = x + 1],
              Say, NoTile)

Built ==
    /\ topic \in Lists /\ ds.pc = "build" /\ ds.i = LN
    /\ Go([ds EXCEPT !.pc = "built", !.i = 0, !.cursor = ds.head], Say, NoTile)

(***************************************************************************)
(* Inserting                                                               *)
(***************************************************************************)

\* A singly linked list asks where the new node will point, a doubly linked
\* one which pointers change.
FrontAsk ==
    /\ InList("insertFront", "built")
    /\ Go([ds EXCEPT !.pc = "front"],
          IF topic = Singly THEN Ask("NULL_CHECK", Shown(New, "next")) ELSE Linking,
          NoTile)

FrontLink ==
    /\ InList("insertFront", "front")
    /\ ListEnds([ds EXCEPT !.nodes = Between(New, NewListValue, Nowhere, ds.head),
                           !.head = New,
                           !.tail = IF @ = Nowhere THEN New ELSE @],
                CASE topic = Doubly -> NoTile
                  [] ds.head = Nowhere -> <<"null">>
                  [] OTHER -> <<"current-head">>)

BackIntoEmpty ==
    /\ InList("insertBack", "built") /\ LN = 0
    /\ LET next == IF topic = Circular THEN New ELSE Nowhere
       IN  ListEnds([ds EXCEPT !.nodes = (New :> Node(NewListValue, next, Nowhere)),
                               !.head = New, !.tail = New], NoTile)

\* Only a singly linked list walks to its last node.
BackStart ==
    /\ InList("insertBack", "built") /\ LN > 0
    /\ \/ /\ topic = Singly
          /\ Go([ds EXCEPT !.pc = "walk"], Ask("NULL_CHECK", Shown(ds.cursor, "next")), NoTile)
       \/ /\ topic = Doubly
          /\ Go([ds EXCEPT !.pc = "back"], Linking, NoTile)
       \/ /\ topic = Circular
          /\ Go([ds EXCEPT !.pc = "wrap"], Ask("WRAP_CHECK", Shown(ds.tail, "next")),
                IF ds.nodes[ds.tail].next = ds.head THEN <<"the-head-node">> ELSE <<"null">>)

BackWalk ==
    /\ InList("insertBack", "walk") /\ ds.nodes[ds.cursor].next # Nowhere
    /\ LET next == ds.nodes[ds.cursor].next
       IN  Go([ds EXCEPT !.cursor = next], Ask("NULL_CHECK", Shown(next, "next")),
              <<"no-more">>)

BackAsk ==
    /\ \/ InList("insertBack", "walk") /\ ds.nodes[ds.cursor].next = Nowhere
       \/ InList("insertBack", "wrap")
    /\ Go([ds EXCEPT !.pc = "back"], Linking,
          IF ds.pc = "walk" THEN <<"yes-last">> ELSE NoTile)

BackLink ==
    /\ InList("insertBack", "back")
    /\ LET after == IF topic = Circular THEN ds.head ELSE Nowhere
       IN  ListEnds([ds EXCEPT !.nodes = Between(New, NewListValue, ds.tail, after),
                               !.tail = New], NoTile)

\* At the front, a singly linked list asks when the node is already in.  The
\* tail is left as it was, also when there was none.
AtFront ==
    /\ \/ InList("insertAt", "built") /\ Position = 0 /\ topic = Singly
       \/ InList("insertAt", "front")
    /\ LET l == [ds EXCEPT !.nodes = Between(New, NewListValue, Nowhere, ds.head),
                           !.head = New, !.pc = "ended"]
           shown == [Shown(Nowhere, "next") EXCEPT !.nodes = l.nodes, !.headId = New]
       IN  Go(l, IF topic = Singly THEN AskLast("INSERT_BETWEEN", shown) ELSE Final, NoTile)

AtFrontAsk ==
    /\ InList("insertAt", "built") /\ Position = 0 /\ topic = Doubly
    /\ Go([ds EXCEPT !.pc = "front"], Linking, NoTile)

AtStart ==
    /\ InList("insertAt", "built") /\ Position > 0
    /\ Go([ds EXCEPT !.pc = "follow"], Following(ds.cursor, "next"), NoTile)

AtFollow ==
    /\ InList("insertAt", "follow")
    /\ LET next == ds.nodes[ds.cursor].next
           arrived == ds.i + 1 = Position \/ next = Nowhere
       IN  Go([ds EXCEPT !.prev = ds.cursor, !.cursor = next, !.i = @ + 1,
                         !.pc = IF arrived THEN "link" ELSE "follow"],
              IF arrived THEN Ask("INSERT_BETWEEN", Shown(ds.cursor, "next"))
                         ELSE Following(next, "next"),
              ToTile(next))

AtLink ==
    /\ InList("insertAt", "link")
    /\ ListEnds([ds EXCEPT !.nodes = Between(New, NewListValue, ds.prev, ds.cursor),
                           !.tail = IF ds.cursor = Nowhere THEN New ELSE @], NoTile)

(***************************************************************************)
(* Searching and deleting                                                  *)
(***************************************************************************)

Matches(x) == ds.nodes[x].value = ds.arg

\* A doubly linked list is searched backward from its tail.
Direction == IF topic = Doubly THEN "prev" ELSE "next"

LookStart ==
    /\ InList("search", "built")
    /\ LET first == IF topic = Doubly THEN ds.tail ELSE ds.head
       IN  IF first = Nowhere THEN ListEnds(ds, NoTile)
           ELSE Go([ds EXCEPT !.cursor = first, !.pc = "look"],
                   Following(first, Direction), NoTile)

LookOn ==
    /\ InList("search", "look") /\ ~Matches(ds.cursor)
    /\ LET next == ds.nodes[ds.cursor][Direction]
       IN  IF next = Nowhere THEN ListEnds([ds EXCEPT !.cursor = Nowhere], ToTile(next))
           ELSE Go([ds EXCEPT !.cursor = next], Following(next, Direction), ToTile(next))

LookFound ==
    /\ InList("search", "look") /\ Matches(ds.cursor)
    /\ ListEnds(ds, NoTile)

\* A node on the way is asked about only where the walk may end.
Visit(x) ==
    CASE topic = Circular -> IF Matches(x) THEN Ask("WRAP_CHECK", Shown(x, "next")) ELSE Say
      [] Matches(x) \/ ds.nodes[x].next = Nowhere -> Following(x, "next")
      [] OTHER -> Say

\* A circular list of one node is emptied without a question.
DeleteAll ==
    /\ topic = Circular /\ InList("delete", "built")
    /\ LN = 1 /\ Matches(ds.head)
    /\ ListEnds([ds EXCEPT !.nodes = <<>>, !.head = Nowhere, !.tail = Nowhere], NoTile)

SeekStart ==
    /\ InList("delete", "built") /\ ~(topic = Circular /\ LN = 1 /\ Matches(ds.head))
    /\ IF LN = 0 THEN ListEnds(ds, NoTile)
       ELSE Go([ds EXCEPT !.pc = "seek"], Visit(ds.head), NoTile)

SeekOn ==
    /\ InList("delete", "seek") /\ ~Matches(ds.cursor)
    /\ LET next == ds.nodes[ds.cursor].next
           missed == next = IF topic = Circular THEN ds.head ELSE Nowhere
       IN  IF missed THEN ListEnds(ds, IF topic = Circular THEN NoTile ELSE ToTile(next))
           ELSE Go([ds EXCEPT !.prev = ds.cursor, !.cursor = next], Visit(next), NoTile)

SeekFound ==
    /\ InList("delete", "seek") /\ Matches(ds.cursor)
    /\ Go([ds EXCEPT !.pc = "unlink"], Ask("DELETE_RELINK", Shown(ds.cursor, "next")), NoTile)

\* The predecessor of a circular list's head is its tail.
Unlink ==
    /\ InList("delete", "unlink")
    /\ LET x == ds.cursor
           next == ds.nodes[x].next
           prev == IF ds.prev = Nowhere /\ topic = Circular THEN ds.tail ELSE ds.prev
           rest == [y \in DOMAIN ds.nodes \ {x} |-> ds.nodes[y]]
       IN  ListEnds([ds EXCEPT
                        !.nodes = PointBack(Point(rest, prev, "next", next), next, prev),
                        !.head = IF x = ds.head THEN next ELSE @,
                        !.tail = IF x = ds.tail THEN prev ELSE @], NoTile)

(***************************************************************************)
(* Reversing and traversing                                                *)
(***************************************************************************)

ReverseStart ==
    /\ InList("reverse", "built")
    /\ IF LN < 2 THEN ListEnds(ds, NoTile)
       ELSE Go([ds EXCEPT !.pc = "reverse"], Following(ds.head, "next"), NoTile)

\* The pointers of one node are turned round.
ReverseStep ==
    /\ InList("reverse", "reverse")
    /\ LET x == ds.cursor
           next == ds.nodes[x].next
           back == IF topic = Doubly THEN ds.nodes[x].prev ELSE ds.prev
           l == [ds EXCEPT !.nodes = PointBack(Point(ds.nodes, x, "next", back), x, next),
                           !.prev = x, !.cursor = next]
       IN  IF next = Nowhere
           THEN ListEnds([l EXCEPT !.head = ds.tail, !.tail = ds.head], <<"the-previous-node">>)
           ELSE Go(l, [Following(next, "next") EXCEPT !.state.nodes = l.nodes],
                   <<"the-previous-node">>)

\* One round of a circular list; the last visit is asked about.
Visited(k) == IF k = LN THEN Ask("NULL_CHECK", Shown(ds.cursor, "next")) ELSE Say

TraverseStep ==
    /\ InList("traverse", "built") /\ ds.i < LN
    /\ Go([ds EXCEPT !.i = @ + 1, !.cursor = ds.nodes[@].next], Visited(ds.i + 1), NoTile)

TraverseEnd ==
    /\ InList("traverse", "built") /\ ds.i = LN
    /\ ListEnds(ds, IF LN > 0 /\ ds.cursor = ds.head THEN <<"when-head-again">> ELSE NoTile)

\* The engines: each runs its steps, and those it shares, for its own topic.
Running(t, op) == topic = t /\ ds.op = op

\* Every operation is given a list that was built node by node.
buildInitialList == topic # Circular /\ (BuildNode \/ Built)
buildCircularList == topic = Circular /\ (BuildNode \/ Built)

sllInsertFrontEngine ==
    /\ Running(Singly, "insertFront")
    /\ \/ buildInitialList \/ FrontAsk \/ FrontLink

sllInsertBackEngine ==
    /\ Running(Singly, "insertBack")
    /\ \/ buildInitialList \/ BackIntoEmpty \/ BackStart \/ BackWalk \/ BackAsk
       \/ BackLink

sllInsertAtEngine ==
    /\ Running(Singly, "insertAt")
    /\ \/ buildInitialList \/ AtFront \/ AtStart \/ AtFollow \/ AtLink

sllDeleteEngine ==
    /\ Running(Singly, "delete")
    /\ \/ buildInitialList \/ SeekStart \/ SeekOn \/ SeekFound \/ Unlink

sllSearchEngine ==
    /\ Running(Singly, "search")
    /\ \/ buildInitialList \/ LookStart \/ LookOn \/ LookFound

sllReverseEngine ==
    /\ Running(Singly, "reverse")
    /\ \/ buildInitialList \/ ReverseStart \/ ReverseStep

dllInsertFrontEngine ==
    /\ Running(Doubly, "insertFront")
    /\ \/ buildInitialList \/ FrontAsk \/ FrontLink

dllInsertBackEngine ==
    /\ Running(Doubly, "insertBack")
    /\ \/ buildInitialList \/ BackIntoEmpty \/ BackStart \/ BackLink

dllInsertAtEngine ==
    /\ Running(Doubly, "insertAt")
    /\ \/ buildInitialList \/ AtFront \/ AtFrontAsk \/ AtStart \/ AtFollow \/ AtLink

dllDeleteEngine ==
    /\ Running(Doubly, "delete")
    /\ \/ buildInitialList \/ SeekStart \/ SeekOn \/ SeekFound \/ Unlink

dllSearchEngine ==
    /\ Running(Doubly, "search")
    /\ \/ buildInitialList \/ LookStart \/ LookOn \/ LookFound

dllReverseEngine ==
    /\ Running(Doubly, "reverse")
    /\ \/ buildInitialList \/ ReverseStart \/ ReverseStep

cllInsertEngine ==
    /\ Running(Circular, "insertBack")
    /\ \/ buildCircularList \/ BackIntoEmpty \/ BackStart \/ BackAsk \/ BackLink

cllDeleteEngine ==
    /\ Running(Circular, "delete")
    /\ \/ buildCircularList \/ DeleteAll \/ SeekStart \/ SeekOn \/ SeekFound \/ Unlink

cllTraverseEngine ==
    /\ Running(Circular, "traverse")
    /\ \/ buildCircularList \/ TraverseStep \/ TraverseEnd

ListNext ==
    \/ sllInsertFrontEngine \/ sllInsertBackEngine \/ sllInsertAtEngine \/ sllDeleteEngine
    \/ sllSearchEngine \/ sllReverseEngine \/ dllInsertFrontEngine \/ dllInsertBackEngine
    \/ dllInsertAtEngine \/ dllDeleteEngine \/ dllSearchEngine \/ dllReverseEngine
    \/ cllInsertEngine \/ cllDeleteEngine \/ cllTraverseEngine

(***************************************************************************)
(* What must be true of the lists                                           *)
(***************************************************************************)

\* The nodes met by following next from the head, as many as there are.
Walk(nodes, head) ==
    LET w[k \in 1 .. Cardinality(DOMAIN nodes)] ==
            IF k = 1 THEN head
            ELSE IF w[k - 1] = Nowhere THEN Nowhere ELSE nodes[w[k - 1]].next
    IN  w

\* What the list must hold when the operation is done.
Held ==
    LET given == [k \in 1 .. LN |-> ds.input[k - 1]]
        first == {k \in 1 .. LN : given[k] = ds.arg}
        at == IF first = {} THEN LN + 1 ELSE Least(first)
        p == CASE ds.op = "insertFront" -> 0
               [] ds.op = "insertAt" -> Least({ds.arg, LN})
               [] OTHER -> LN
    IN  CASE ds.op \in InsertOps -> SubSeq(given, 1, p) \o <<NewListValue>>
                                        \o SubSeq(given, p + 1, LN)
          [] ds.op = "delete" -> SubSeq(given, 1, at - 1) \o SubSeq(given, at + 1, LN)
          [] ds.op = "reverse" -> [k \in 1 .. LN |-> given[LN + 1 - k]]
          [] OTHER -> given

\* Whenever a list is shown, following next from its head meets every node
\* exactly once and stops at the tail, prev leads the same way back, and a
\* circular list closes on its head.  A reversal is excepted until it is done,
\* and so is the tail after inserting at a position into an empty list, where
\* the code leaves none.
ListIntact ==
    topic \in Lists /\ (ds.op = "reverse" => ds.pc \in {"build", "built", "ended"}) =>
        LET w == Walk(ds.nodes, ds.head)
            n == Cardinality(DOMAIN ds.nodes)
        IN  /\ n = 0 => ds.head = Nowhere /\ ds.tail = Nowhere
            /\ n > 0 =>
                  /\ {w[k] : k \in 1 .. n} = DOMAIN ds.nodes
                  /\ ds.nodes[w[n]].next = IF topic = Circular THEN ds.head ELSE Nowhere
                  /\ w[n] = ds.tail \/ (ds.op = "insertAt" /\ LN = 0)
                  /\ topic = Doubly => ds.nodes[w[1]].prev = Nowhere
                  /\ topic = Doubly =>
                        \A k \in 2 .. n : ds.nodes[w[k]].prev = w[k - 1]

\* An operation ends with the list it promises, in order; a search ends on a
\* node with the value looked for, or nowhere when there is none.
ListIsRight ==
    topic \in Lists /\ step.final =>
        LET w == Walk(ds.nodes, ds.head)
        IN  /\ \A k \in DOMAIN w : w[k] \in DOMAIN ds.nodes
            /\ [k \in DOMAIN w |-> ds.nodes[w[k]].value] = Held
            /\ ds.op = "search" =>
                  IF ds.cursor \in DOMAIN ds.nodes THEN Matches(ds.cursor)
                  ELSE \A x \in DOMAIN ds.nodes : ~Matches(x)

=============================================================================
