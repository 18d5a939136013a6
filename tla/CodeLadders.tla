----------------------------- MODULE CodeLadders -----------------------------
(***************************************************************************)
(* Code Mode's ladders (config/codeLadders.ts): of seventeen topics, four   *)
(* rungs each, from one expression to the whole algorithm.  A rung hands    *)
(* the learner's program its globals, reads one variable back and compares  *)
(* it with an answer.  Globals and answer are both read off the run on the  *)
(* canvas, but from different snapshots of it and by different code; what   *)
(* the program asked for makes of the globals (codeLadders.solutions.ts has *)
(* one for each rung) has to be the answer, or nobody can pass the rung.    *)
(***************************************************************************)
EXTENDS SortEngines, SearchEngines, LinearEngines, ListEngines,
        TreeEngines, HashEngines, FoundationEngines

\* A value, unless it is null: expectedFor has no answer, a program raises.
AnswerIf(exists, v) == IF exists THEN <<v>> ELSE <<>>

Rung(expected, solved) == [expected |-> expected, solved |-> solved]
\* The program and the answer are one expression of the same globals.
Same(v) == Rung(v, v)

\* A loop that makes one move for each index in turn.
Repeated(move(_, _), a, ks) ==
    LET after[k \in 0 .. Len(ks)] == IF k = 0 THEN a ELSE move(after[k - 1], ks[k])
    IN  after[Len(ks)]
Upward(from, to) == [k \in 1 .. to - from + 1 |-> from + k - 1]
Downward(from, to) == [k \in 1 .. from - to + 1 |-> from - k + 1]

Cut(a, from, to) == SubSeq(AsSeq(a), from + 1, IF to > Size(a) THEN Size(a) ELSE to)
Placed(s) == [x \in 0 .. Len(s) - 1 |-> s[x + 1]]
Write(a, k, v) == AnswerIf(k \in DOMAIN a, [a EXCEPT ![k] = v])

(***************************************************************************)
(* Sorting and searching                                                   *)
(***************************************************************************)

SwapPair(a, j) == IF a[j] > a[j + 1] THEN Swapped(a, j, j + 1) ELSE a
onePass(a) == Repeated(SwapPair, a, Upward(0, Size(a) - 2))

BUBBLE_SORT ==
    LET a == ds.input
        pass(b, i) == Repeated(SwapPair, b, Upward(0, Size(a) - 2 - i))
    IN  <<Same(AnswerIf(Size(a) >= 2, a[0] > a[1])),
          Same(AnswerIf(Size(a) >= 2, Swapped(a, 0, 1))),
          Same(AnswerIf(Size(a) >= 2, onePass(a))),
          Rung(<<ds.array>>, <<Repeated(pass, a, Upward(0, Size(a) - 1))>>)>>

\* The search starts from the whole array, which the run has put in order.
BINARY_SEARCH ==
    LET a == SortedOf(ds.input)
        high == Size(a) - 1
        mid == high \div 2
        half == CASE a[mid] = ds.target -> "found"
                  [] a[mid] < ds.target -> "right"
                  [] OTHER -> "left"
        bounds == CASE half = "found" -> <<mid, mid>>
                    [] half = "right" -> <<mid + 1, high>>
                    [] half = "left" -> <<0, mid - 1>>
        search[lo \in 0 .. high + 1, hi \in -1 .. high] ==
            LET m == (lo + hi) \div 2
            IN  IF lo > hi THEN NotFound
                ELSE IF a[m] = ds.target THEN m
                ELSE IF a[m] < ds.target THEN search[m + 1, hi] ELSE search[lo, m - 1]
    IN  <<Same(AnswerIf(Size(a) > 0, mid)), Same(AnswerIf(Size(a) > 0, half)),
          Same(AnswerIf(Size(a) > 0, bounds)),
          Rung(<<ds.foundIndex>>, <<search[0, high]>>)>>

(***************************************************************************)
(* Trees, as nested triples                                                *)
(***************************************************************************)

plainTree(nodes, root) ==
    LET below[x \in DOMAIN nodes \cup {Nowhere}] ==
            IF x = Nowhere THEN <<>>
            ELSE <<nodes[x].value, below[nodes[x].left], below[nodes[x].right]>>
    IN  below[root]

RECURSIVE Planted(_, _)
Planted(tree, v) ==
    CASE tree = <<>> -> <<v, <<>>, <<>>>>
      [] tree # <<>> /\ v < tree[1] -> [tree EXCEPT ![2] = Planted(@, v)]
      [] OTHER -> [tree EXCEPT ![3] = Planted(@, v)]
buildBst(values) == Repeated(Planted, <<>>, values)

\* The values in pre-order, from which the same tree should grow again.
bstValues ==
    LET order == PreOrder(ds.nodes, ds.root)
    IN  [k \in DOMAIN order |-> ds.nodes[order[k]].value]

BST ==
    LET v == bstValues
    IN  <<Same(AnswerIf(Len(v) >= 2, SideOf(v[2], v[1]))),
          Same(AnswerIf(Len(v) >= 1, buildBst(<<v[1]>>))),
          Rung(AnswerIf(Len(v) >= 4, buildBst(SubSeq(v, 1, 4))),
               AnswerIf(Len(v) >= 4, Planted(buildBst(SubSeq(v, 1, 3)), v[4]))),
          LET tree == plainTree(ds.nodes, ds.root)
          IN  Rung(AnswerIf(tree # <<>>, tree), AnswerIf(tree # <<>>, buildBst(v)))>>

(***************************************************************************)
(* Arrays: the globals are the run's first snapshot, the answer its last.   *)
(***************************************************************************)

ARRAY_ACCESS ==
    LET a == ds.input
        at(k) == AnswerIf(k \in DOMAIN a, a[k])
    IN  <<Same(at(ds.target)), Same(<<64 + 4 * ds.target>>), Same(at(Size(a) - 1)),
          Same(AnswerIf(Size(a) > 0, <<at(ds.target), at(Size(a)), at(-1)>>))>>

ARRAY_INSERT ==
    LET a == ds.input
        n == Size(a)
        pos == ds.target
        grown == [x \in 0 .. n |-> IF x < n THEN a[x] ELSE 0]
        move(b, k) == [b EXCEPT ![k] = b[k - 1]]
        gap == Placed(Cut(a, 0, pos + 1) \o Cut(a, pos, n))
        shifted == Repeated(move, grown, Downward(n, pos + 1))
        ifAny(v) == AnswerIf(n > 0, v)
    IN  <<Same(ifAny(move(grown, n))),
          Rung(ifAny(gap), <<shifted>>),
          Rung(ifAny(ds.array), Write(gap, pos, NewValue)),
          Rung(ifAny(ds.array), Write(shifted, pos, NewValue))>>

ARRAY_DELETE ==
    LET a == ds.input
        n == Size(a)
        pos == ds.target
        move(b, k) == [b EXCEPT ![k] = b[k + 1]]
        closed == Placed(Cut(a, 0, pos) \o Cut(a, pos + 1, n) \o <<a[n - 1]>>)
        shifted == Repeated(move, a, Upward(pos, n - 2))
        popped(b) == Placed(ButLast(AsSeq(b)))
        ifAny(v) == AnswerIf(n > 0, v)
    IN  <<Same(AnswerIf(pos + 1 < n, move(a, pos))),
          Rung(ifAny(closed), ifAny(shifted)),
          Rung(ifAny(ds.array), ifAny(popped(closed))),
          Rung(ifAny(ds.array), ifAny(popped(shifted)))>>

(***************************************************************************)
(* Stack, queues and deque: what the run left in the structure              *)
(***************************************************************************)

itemValues ==
    IF topic \in {QueueEnqueue, QueueDequeue, CircularQueue}
    THEN [k \in DOMAIN ds.items |-> ds.items[k].value] ELSE ds.items

STACK ==
    LET v == itemValues
        top == AnswerIf(v # <<>>, LastOf(v))
    IN  <<Rung(AnswerIf(v # <<>>, v), AnswerIf(v # <<>>, Append(ButLast(v), LastOf(v)))),
          Same(top), Same(top),
          Rung(AnswerIf(Len(v) >= 2, <<v[Len(v)], v[Len(v) - 1]>>),
               AnswerIf(Len(v) >= 2, <<LastOf(v), LastOf(ButLast(v))>>))>>

\* The two that were put in first come off.
FirstTwo(v) == Rung(AnswerIf(Len(v) >= 2, <<v[1], v[2]>>), AnswerIf(Len(v) >= 2, <<Head(v), Head(Tail(v))>>))

QUEUE ==
    LET v == itemValues
        front == AnswerIf(v # <<>>, Head(v))
    IN  <<Rung(AnswerIf(v # <<>>, v), AnswerIf(v # <<>>, Append(ButLast(v), LastOf(v)))),
          Same(front), Same(front), FirstTwo(v)>>

DEQUE ==
    LET v == itemValues
    IN  <<Rung(AnswerIf(v # <<>>, v), AnswerIf(v # <<>>, <<Head(v)>> \o Tail(v))),
          Rung(AnswerIf(v # <<>>, v), AnswerIf(v # <<>>, Append(ButLast(v), LastOf(v)))),
          Same(AnswerIf(v # <<>>, Head(v))), Same(AnswerIf(v # <<>>, Tail(v)))>>

\* The third rung compares two snapshots; it is FrontAdvances, below.
CIRCULAR_QUEUE ==
    <<Same(<<(ds.rear + 1) % ds.cap>>), Same(<<ds.size >= ds.cap>>), Same(<<>>), FirstTwo(itemValues)>>

\* circularDequeueSnapshot: the front before a dequeue and the one after it.
FrontAdvances ==
    topic = CircularQueue /\ step'.junction = "QUEUE_FRONT" =>
        ds'.front = IF ds'.size > 0 THEN (ds.front + 1) % ds'.cap ELSE Nowhere

(***************************************************************************)
(* Linked lists: the values met from the head on                            *)
(***************************************************************************)

\* A list that ends is walked to its end, and one node too far if it does not.
Walked(limit) ==
    LET from[k \in 1 .. limit + 1] ==   \* the k-th node of the walk
            IF k = 1 THEN ds.head
            ELSE IF from[k - 1] \in DOMAIN ds.nodes THEN ds.nodes[from[k - 1]].next ELSE Nowhere
        met == {k \in 1 .. limit : from[k] \in DOMAIN ds.nodes}
    IN  [k \in 1 .. Cardinality(met) |-> ds.nodes[from[k]].value]
linkedValues == Walked(Cardinality(DOMAIN ds.nodes) + 1)
circularValues == Walked(Cardinality(DOMAIN ds.nodes))

Reversed(v) == [k \in DOMAIN v |-> v[Len(v) + 1 - k]]
Chained(v) == LET before(head, x) == <<x>> \o head IN Repeated(before, <<>>, Reversed(v))

SINGLY_LINKED_LIST ==
    LET v == linkedValues
    IN  <<Rung(AnswerIf(Len(v) >= 2, v[2]), AnswerIf(Len(v) >= 2, Head(Tail(v)))),
          Same(AnswerIf(v # <<>>, Len(v))),
          Rung(AnswerIf(v # <<>>, v), AnswerIf(v # <<>>, <<Head(v)>> \o Tail(v))),
          Rung(AnswerIf(v # <<>>, v), AnswerIf(v # <<>>, Chained(v)))>>

\* The node in the middle and the one before; two neighbours relinked.
DOUBLY_LINKED_LIST ==
    LET v == linkedValues
        middle == Len(v) \div 2
        a == IF v = <<>> THEN 1 ELSE v[1]
        b == IF Len(v) < 2 THEN a + 1 ELSE v[2]
    IN  <<Same(AnswerIf(middle > 0, v[middle])),
          Rung(AnswerIf(v # <<>>, TRUE), AnswerIf(v # <<>>, \E k \in DOMAIN v : v[k] = v[1])),
          Same(<<<<b, a>>>>),
          Rung(AnswerIf(v # <<>>, v \o Reversed(v)), AnswerIf(v # <<>>, Chained(v) \o Reversed(v)))>>

CIRCULAR_LINKED_LIST ==
    LET v == circularValues
        a == IF v = <<>> THEN 1 ELSE v[1]
        extra == IF v = <<>> THEN 1 ELSE Greatest({v[k] : k \in DOMAIN v}) + 1
    IN  <<Same(AnswerIf(v # <<>>, a)), Same(<<IF Len(v) < 2 THEN a + 1 ELSE v[2]>>),
          Same(AnswerIf(v # <<>>, Len(v))), Same(AnswerIf(v # <<>>, Append(v, extra)))>>

(***************************************************************************)
(* Hash tables                                                             *)
(***************************************************************************)

\* The keys in the table, in the order they were put in.  A deletion has taken
\* out every entry of its key from a chain, and the first from the slots.
insertionOrderKeys ==
    LET put == SubSeq(ds.input, 1, ds.k - 1)
        other(key) == key # ds.target
        first == Least({k \in DOMAIN put : put[k] = ds.target})
    IN  CASE topic = ChainDelete -> SelectSeq(put, other)
          [] topic = ProbeDelete /\ ds.found -> SubSeq(put, 1, first - 1) \o SubSeq(put, first + 1, Len(put))
          [] OTHER -> put

NoEntries == [x \in 0 .. HashCapacity - 1 |-> <<>>]

HASH_TABLE_CHAINING ==
    LET keys == insertionOrderKeys
        append(buckets, key) == [buckets EXCEPT ![key % HashCapacity] = Append(@, key)]
        first(n) == LET long == {x \in DOMAIN ds.buckets : Len(ds.buckets[x]) >= n}
                    IN  IF long = {} THEN <<>> ELSE ds.buckets[Least(long)]
    IN  <<Same(<<>>), Same(AnswerIf(first(2) # <<>>, first(2))), Same(AnswerIf(first(1) # <<>>, TRUE)),
          Rung(AnswerIf(keys # <<>>, ds.buckets), AnswerIf(keys # <<>>, Repeated(append, NoEntries, keys)))>>

HASH_TABLE_PROBING ==
    LET keys == insertionOrderKeys
        place(slots, key) ==
            LET free == {d \in 0 .. HashCapacity - 1 : slots[Probed(key, d)] = <<>>}
            IN  [slots EXCEPT ![Probed(key, Least(free))] = <<key>>]
    IN  <<Same(<<>>), Same(<<>>), Same(<<>>),
          Rung(AnswerIf(keys # <<>>, ds.buckets), AnswerIf(keys # <<>>, Repeated(place, NoEntries, keys)))>>

\* The first rung of both is about the junction that asks for the bucket: the
\* key inserted or looked for there, and the result the snapshot holds.
BucketOfKey ==
    step.junction = "HASH_BUCKET" /\ step.state.hashResult # Nowhere =>
        step.state.hashResult
            = (IF topic \in HashInserts THEN ds.input[ds.k] ELSE ds.target) % step.state.capacity

(***************************************************************************)
(* Recursion                                                               *)
(***************************************************************************)

RECURSION_FACTORIAL ==
    LET factorial[n \in 0 .. ds.n] == IF n = 0 THEN 1 ELSE n * factorial[n - 1]
    IN  <<Same(<<1>>), Same(AnswerIf(ds.n > 2, (ds.n + 1) \div 2)),
          Rung(<<ds.computed[ds.n - 1] * ds.n>>, <<ds.n * ds.computed[ds.n - 1]>>),
          Rung(<<ds.computed[ds.n]>>, <<factorial[ds.n]>>)>>

\* The first call to return with something to add is fib(2).  Whether a call is
\* repeated work is told by the narration that the rung is read from.
RECURSION_FIBONACCI ==
    LET fib[k \in 0 .. ds.n] == IF k <= 1 THEN k ELSE fib[k - 1] + fib[k - 2]
    IN  <<Same(AnswerIf(ds.n >= 2, 1)), Same(<<2 ^ ds.n>>), Same(AnswerIf(ds.n > 2, TRUE)),
          Rung(<<ds.prev>>, <<fib[ds.n]>>)>>

(***************************************************************************)
(* The rungs of a run                                                      *)
(***************************************************************************)

\* The run is at its last snapshot; hash tables go on past a final step.
RunOver == step.final /\ (topic \in Hashes => ds.pc = "ended")

CODE_LADDERS ==
    CASE topic = BubbleSort -> BUBBLE_SORT
      [] topic = BinarySearch -> BINARY_SEARCH
      [] topic \in {BstInsert, BstSearch, BstDelete} -> BST
      [] topic = ArrayAccess -> ARRAY_ACCESS
      [] topic = ArrayInsert -> ARRAY_INSERT
      [] topic = ArrayDelete -> ARRAY_DELETE
      [] topic \in {StackPush, StackPop} -> STACK
      [] topic \in {QueueEnqueue, QueueDequeue} -> QUEUE
      [] topic = CircularQueue -> CIRCULAR_QUEUE
      [] topic = Deque -> DEQUE
      [] topic = Singly -> SINGLY_LINKED_LIST
      [] topic = Doubly -> DOUBLY_LINKED_LIST
      [] topic = Circular -> CIRCULAR_LINKED_LIST
      [] topic \in Chainings -> HASH_TABLE_CHAINING
      [] topic \in Probings -> HASH_TABLE_PROBING
      [] topic = Factorial -> RECURSION_FACTORIAL
      [] topic = Fibonacci -> RECURSION_FIBONACCI
      [] OTHER -> <<>>

\* codeTaskForRung: a rung without an answer is not asked.
codeTaskForRung(k) == AnswerIf(CODE_LADDERS[k].expected # <<>>, CODE_LADDERS[k])

\* Rungs known to have no passing program; README, "Disagreements".
Unpassable(k) ==
    \/ topic = ArrayInsert /\ k \in {2, 3}          \* there is no gap at the end
          /\ ds.target = Size(ds.input)
    \/ topic = ProbeDelete /\ k = 4 /\ ds.found     \* the keys that are left lie elsewhere

\* Whatever the run, the program a rung asks for, given the rung's globals,
\* leaves what the rung is graded against (codeLadders.ts against the engines).
RungsCanBePassed ==
    /\ BucketOfKey
    /\ RunOver => \A k \in DOMAIN CODE_LADDERS :
          LET task == codeTaskForRung(k)
          IN  task # <<>> /\ ~Unpassable(k) => task[1].solved = task[1].expected

=============================================================================
