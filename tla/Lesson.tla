------------------------------- MODULE Lesson -------------------------------
(***************************************************************************)
(* What the algorithm engines of the web client have in common.  An engine  *)
(* runs an algorithm on an input and emits snapshots: narrated steps,       *)
(* questions (Critical Junctions) about what happens next, and one final    *)
(* step.  The engines are pure functions; their runs are modelled here as   *)
(* state machines, one action per stretch of code up to a snapshot that     *)
(* matters, so that what is asked at a junction can be compared with what   *)
(* the very next stretch of code does.                                      *)
(*                                                                         *)
(* Arrays are functions on 0 .. n-1, as they are indexed in the code.       *)
(***************************************************************************)
EXTENDS Integers, Sequences, FiniteSets

VARIABLES
    topic,  \* the engine that is running
    ds,     \* its local variables, with pc, the place it has reached
    step,   \* the snapshot it emitted last
    did     \* the option the code has just carried out, as a tile id

lesson == <<topic, ds, step, did>>

\* A tile id is a tuple: its name, followed by a number or a node where the
\* code pastes one into the string.
NoTile == <<>>

\* A snapshot that only narrates, one that asks, and the final step; some
\* engines ask on the final step.  The state of a question holds the fields
\* that tiles and graders read.
Say == [asks |-> FALSE, final |-> FALSE, junction |-> "none", state |-> <<>>]
Ask(junction, state) ==
    [asks |-> TRUE, final |-> FALSE, junction |-> junction, state |-> state]
Final == [Say EXCEPT !.final = TRUE]
AskLast(junction, state) == [Ask(junction, state) EXCEPT !.final = TRUE]

At(t, p) == topic = t /\ ds.pc = p

\* One stretch of an engine: its locals, the snapshot, the option carried out.
Go(locals, snapshot, tile) ==
    /\ ds' = locals
    /\ step' = snapshot
    /\ did' = tile
    /\ UNCHANGED topic

\* A run of topic t begins: nothing has been asked yet.
Begin(t, locals) ==
    /\ topic = t
    /\ ds = locals
    /\ step = Say
    /\ did = NoTile

\* No place, no node: null, -1 and undefined in the code.
Nowhere == -1

Size(a) == Cardinality(DOMAIN a)
Swapped(a, x, y) == [a EXCEPT ![x] = a[y], ![y] = a[x]]
Least(S) == CHOOSE x \in S : \A y \in S : x <= y
Greatest(S) == CHOOSE x \in S : \A y \in S : x >= y

LastOf(s) == s[Len(s)]
ButLast(s) == SubSeq(s, 1, Len(s) - 1)
SumOver(a, from, to) ==
    LET f[k \in Int] == IF k < from THEN 0 ELSE LET before == f[k - 1] IN before + a[k]
    IN  f[to]

\* What sorting the array means, independently of any engine: the value at
\* place k is the one with at most k smaller and more than k not larger.
SortedOf(a) ==
    [k \in DOMAIN a |->
        CHOOSE v \in {a[x] : x \in DOMAIN a} :
            /\ Cardinality({x \in DOMAIN a : a[x] < v}) <= k
            /\ k < Cardinality({x \in DOMAIN a : a[x] <= v})]

=============================================================================
