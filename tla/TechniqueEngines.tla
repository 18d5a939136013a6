--------------------------- MODULE TechniqueEngines ---------------------------
(***************************************************************************)
(* The engines of the Techniques track: prefix sums, the monotonic stack,   *)
(* divide and conquer, the greedy choice, dynamic programming over one and  *)
(* two dimensions, and backtracking.  Each has an input of its own that it  *)
(* falls back to; the fallbacks are among the inputs here, not in the code. *)
(***************************************************************************)
EXTENDS Lesson, TLC

CONSTANTS
    Series,     \* arrays of numbers, negative ones too
    Activities, \* sequences of [start, finish], as the learner's numbers make them
    WordPairs,  \* pairs of words, as sequences of letters
    Purses      \* sequences of positive numbers to choose from

PrefixSum == "Prefix Sums"
MonotonicStack == "Monotonic Stack"
DivideConquer == "Divide and Conquer"
Greedy == "Greedy Choice"
LineTable == "Dynamic Programming (1D)"
EditTable == "Dynamic Programming (2D)"
Backtracking == "Backtracking"

Techniques == {PrefixSum, MonotonicStack, DivideConquer, Greedy, LineTable, EditTable, Backtracking}

\* No finish yet: minus infinity in the code.
Open == -1

Chopped(s) == SubSeq(s, 1, Len(s) - 1)

(***************************************************************************)
(* prefixSumEngine.  Two ranges are asked about once the table is full.      *)
(***************************************************************************)

PrefixLocals(a) ==
    [input |-> a, table |-> (0 :> 0), i |-> 0,
     queries |-> <<<<0, Least({2, Size(a) - 1})>>, <<Least({1, Size(a) - 1}), Size(a) - 1>>>>,
     answers |-> <<>>, pc |-> "fill"]

PrefixAsk ==
    /\ At(PrefixSum, "fill")
    /\ ds.i < Size(ds.input)
    /\ Go([ds EXCEPT !.pc = "cell"],
          Ask("PREFIX_CELL", [input |-> ds.input, table |-> ds.table, current |-> ds.i + 1]), NoTile)

PrefixFill ==
    /\ At(PrefixSum, "cell")
    /\ LET value == ds.table[ds.i] + ds.input[ds.i]
       IN  Go([ds EXCEPT !.table = @ @@ (ds.i + 1 :> value), !.i = @ + 1, !.pc = "fill"],
              Say, <<"v", value>>)

RangeAsk ==
    /\ topic = PrefixSum
    /\ ds.pc = "range" \/ (ds.pc = "fill" /\ ds.i = Size(ds.input))
    /\ LET q == ds.queries[Len(ds.answers) + 1]
       IN  Go([ds EXCEPT !.pc = "answer"],
              Ask("RANGE_QUERY", [dependsOn |-> {q[2] + 1, q[1]}]), NoTile)

RangeAnswer ==
    /\ At(PrefixSum, "answer")
    /\ LET q == ds.queries[Len(ds.answers) + 1]
           last == Len(ds.answers) + 1 = Len(ds.queries)
       IN  Go([ds EXCEPT !.answers = Append(@, ds.table[q[2] + 1] - ds.table[q[1]]),
                         !.pc = IF last THEN "over" ELSE "range"],
              IF last THEN Final ELSE Say, <<"difference", q[2] + 1, q[1]>>)

(***************************************************************************)
(* monotonicStackEngine: for each place the next greater value to its right. *)
(***************************************************************************)

StackLocals(a) ==
    [input |-> a, result |-> [x \in {} |-> 0], stack |-> <<>>, i |-> 0, popped |-> FALSE,
     pushes |-> 0, pops |-> 0, pc |-> "look"]

\* A value that meets an empty stack is pushed without a question.
StackAsk ==
    /\ At(MonotonicStack, "look")
    /\ ds.i < Size(ds.input)
    /\ IF ds.stack = <<>>
       THEN Go([ds EXCEPT !.pc = "discharge"], Say, NoTile)
       ELSE Go([ds EXCEPT !.pc = "discharge"],
               Ask("STACK_DISCHARGE",
                   [input |-> ds.input, current |-> ds.i, marked |-> ds.stack]), NoTile)

\* The value pops all it beats and is pushed.
StackDischarge ==
    /\ At(MonotonicStack, "discharge")
    /\ LET v == ds.input[ds.i]
           stays == {x \in DOMAIN ds.stack : \E y \in x .. Len(ds.stack) : ds.input[ds.stack[y]] >= v}
           kept == SubSeq(ds.stack, 1, Cardinality(stays))
           gone == {ds.stack[x] : x \in DOMAIN ds.stack \ stays}
       IN  Go([ds EXCEPT !.result = @ @@ [x \in gone |-> v], !.pops = @ + Cardinality(gone),
                         !.pushes = @ + 1, !.stack = Append(kept, ds.i), !.i = @ + 1, !.pc = "look"],
              Say, IF gone # {} THEN <<"discharge-yes">> ELSE <<"discharge-no">>)

StackLeftover ==
    /\ At(MonotonicStack, "look")
    /\ ds.i = Size(ds.input)
    /\ Go([ds EXCEPT !.pc = "over",
                     !.result = @ @@ [x \in {ds.stack[y] : y \in DOMAIN ds.stack} |-> -1]],
          Final, NoTile)

(***************************************************************************)
(* divideConquerEngine: the greatest sum of a run, in halves.                *)
(***************************************************************************)

HalvesLocals(a) ==
    [input |-> a, range |-> <<0, Size(a) - 1>>, frames |-> <<>>, answer |-> 0, pc |-> "solve"]

HalfWay(f) == (f.lo + f.hi) \div 2

\* A range of one place returns its value, another one goes on with its left half.
HalvesSolve ==
    /\ At(DivideConquer, "solve")
    /\ LET lo == ds.range[1]
           hi == ds.range[2]
       IN  IF lo = hi
           THEN Go([ds EXCEPT !.answer = ds.input[lo], !.pc = "return"], Say, NoTile)
           ELSE Go([ds EXCEPT !.frames = Append(@, [lo |-> lo, hi |-> hi, got |-> <<>>]),
                              !.range = <<lo, (lo + hi) \div 2>>], Say, NoTile)

\* A half has been solved: the right one is next, then the two are combined.
HalvesReturn ==
    /\ At(DivideConquer, "return")
    /\ ds.frames # <<>>
    /\ LET top == LastOf(ds.frames)
           got == Append(top.got, ds.answer)
           frames == [ds.frames EXCEPT ![Len(ds.frames)].got = got]
       IN  IF Len(got) = 1
           THEN Go([ds EXCEPT !.frames = frames, !.range = <<HalfWay(top) + 1, top.hi>>,
                              !.pc = "solve"], Say, NoTile)
           ELSE Go([ds EXCEPT !.frames = frames, !.pc = "combine"], Say, NoTile)

Crossing(f) ==
    Greatest({SumOver(ds.input, x, HalfWay(f)) : x \in f.lo .. HalfWay(f)})
        + Greatest({SumOver(ds.input, HalfWay(f) + 1, x) : x \in HalfWay(f) + 1 .. f.hi})

HalvesAsk ==
    /\ At(DivideConquer, "combine")
    /\ LET top == LastOf(ds.frames)
       IN  Go([ds EXCEPT !.pc = "take"],
              Ask("COMBINE_RESULT",
                  [left |-> top.got[1], right |-> top.got[2], cross |-> Crossing(top)]), NoTile)

\* Narrated as the crossing run when neither half reaches it.
HalvesTake ==
    /\ At(DivideConquer, "take")
    /\ LET top == LastOf(ds.frames)
           cross == Crossing(top)
           answer == Greatest({top.got[1], top.got[2], cross})
       IN  Go([ds EXCEPT !.answer = answer, !.frames = Chopped(@), !.pc = "return"],
              Say, IF answer \notin {top.got[1], top.got[2]} THEN <<"combine-cross">> ELSE NoTile)

HalvesEnd ==
    /\ At(DivideConquer, "return")
    /\ ds.frames = <<>>
    /\ Go([ds EXCEPT !.pc = "over"], Final, NoTile)

(***************************************************************************)
(* greedyEngine: activities by their finish, each taken when it fits.        *)
(***************************************************************************)

\* Wrong: activities are sorted by their start.
EarlierStart(p, q) == p.start < q.start \/ (p.start = q.start /\ p.finish < q.finish)

Earlier(p, q) == p.finish < q.finish \/ (p.finish = q.finish /\ p.start < q.start)

GreedyLocals(acts) ==
    [input |-> SortSeq(acts, Earlier), i |-> 1, chosen |-> {}, free |-> Open, pc |-> "look"]

GreedyAsk ==
    /\ At(Greedy, "look")
    /\ ds.i <= Len(ds.input)
    /\ Go([ds EXCEPT !.pc = "choose"],
          Ask("GREEDY_CHOICE", [start |-> ds.input[ds.i].start, lastFinish |-> ds.free]), NoTile)

GreedyChoose ==
    /\ At(Greedy, "choose")
    /\ LET a == ds.input[ds.i]
       IN  IF a.start >= ds.free
           THEN Go([ds EXCEPT !.chosen = @ \cup {ds.i}, !.free = a.finish, !.i = @ + 1, !.pc = "look"],
                   Say, <<"greedy-take">>)
           ELSE Go([ds EXCEPT !.i = @ + 1, !.pc = "look"], Say, <<"greedy-skip">>)

GreedyEnd ==
    /\ At(Greedy, "look")
    /\ ds.i > Len(ds.input)
    /\ Go([ds EXCEPT !.pc = "over"], Final, NoTile)

(***************************************************************************)
(* dp1DEngine and dp2DEngine                                                 *)
(***************************************************************************)

LineLocals(a) ==
    [input |-> a, table |-> (0 :> a[0]), i |-> 1, answer |-> 0, run |-> <<0, 0>>, pc |-> "look"]

LineAsk ==
    /\ At(LineTable, "look")
    /\ ds.i < Size(ds.input)
    /\ Go([ds EXCEPT !.pc = "fill"],
          Ask("DP_CELL", [reads |-> <<ds.table[ds.i - 1]>>, element |-> ds.input[ds.i]]), NoTile)

LineFill ==
    /\ At(LineTable, "fill")
    /\ LET value == Greatest({ds.input[ds.i], ds.table[ds.i - 1] + ds.input[ds.i]})
       IN  Go([ds EXCEPT !.table = @ @@ (ds.i :> value), !.i = @ + 1, !.pc = "look"],
              Say, <<"v", value>>)

\* The run is walked back from where it ends, by what is left of its sum.
LineEnd ==
    /\ At(LineTable, "look")
    /\ ds.i = Size(ds.input)
    /\ LET answer == Greatest({ds.table[x] : x \in DOMAIN ds.table})
           endsAt == Least({x \in DOMAIN ds.table : ds.table[x] = answer})
           startsAt == Greatest({0} \cup {x \in 0 .. endsAt :
                                            answer - SumOver(ds.input, x + 1, endsAt) = ds.input[x]})
       IN  Go([ds EXCEPT !.answer = answer, !.run = <<startsAt, endsAt>>, !.pc = "over"],
              Final, NoTile)

Table2(a, b) ==
    [c \in (0 .. Len(a)) \X (0 .. Len(b)) |-> IF c[1] = 0 THEN c[2] ELSE IF c[2] = 0 THEN c[1] ELSE Open]

EditLocals(a, b) ==
    [source |-> a, target |-> b, table |-> Table2(a, b), i |-> 1, j |-> 1, pc |-> "look"]

Matched == ds.source[ds.i] = ds.target[ds.j]
DeleteCost == ds.table[<<ds.i - 1, ds.j>>]
InsertCost == ds.table[<<ds.i, ds.j - 1>>]
SubstituteCost == ds.table[<<ds.i - 1, ds.j - 1>>]

\* Wrong: the row is not advanced.
NextCellSameRow(locals, pc) ==
    IF ds.j < Len(ds.target)
    THEN [locals EXCEPT !.j = @ + 1, !.pc = pc]
    ELSE [locals EXCEPT !.j = 1, !.pc = IF ds.i < Len(ds.source) THEN pc ELSE "end"]

\* The next cell, along the row and then on the next one.
NextCell(locals, pc) ==
    IF ds.j < Len(ds.target)
    THEN [locals EXCEPT !.j = @ + 1, !.pc = pc]
    ELSE [locals EXCEPT !.i = @ + 1, !.j = 1, !.pc = IF ds.i < Len(ds.source) THEN pc ELSE "end"]

EditAsk ==
    /\ At(EditTable, "look")
    /\ ~Matched
    /\ Go([ds EXCEPT !.pc = "fill"],
          Ask("DP_CELL", [reads |-> <<DeleteCost, InsertCost, SubstituteCost>>]), NoTile)

\* Equal letters are not asked about: the cell takes the diagonal as it is.
EditFill ==
    /\ topic = EditTable
    /\ \/ ds.pc = "fill"
       \/ ds.pc = "look" /\ Matched
    /\ LET value == IF Matched THEN SubstituteCost
                    ELSE 1 + Least({DeleteCost, InsertCost, SubstituteCost})
       IN  Go(NextCell([ds EXCEPT !.table[<<ds.i, ds.j>>] = value], "look"), Say,
              IF Matched THEN NoTile ELSE <<"v", value>>)

EditEnd ==
    /\ At(EditTable, "end")
    /\ Go([ds EXCEPT !.pc = "over"], Final, NoTile)

(***************************************************************************)
(* backtrackingEngine: the subsets that add up to the target.  A frame is a  *)
(* node of the search; its branches are taken before they are left out.     *)
(***************************************************************************)

PurseLocals(p) ==
    [candidates |-> p,
     target |-> Greatest({p[x] : x \in DOMAIN p}) + Least({p[x] : x \in DOMAIN p}),
     frames |-> <<[index |-> 1, chosen |-> {}, total |-> 0, branch |-> "take"]>>,
     solutions |-> <<>>, visited |-> 1, pc |-> "enter"]

Branch == LastOf(ds.frames)

\* A node that meets the target, one past it, and one with nothing left to
\* decide all return; only the second asks.
SearchSolution ==
    /\ At(Backtracking, "enter")
    /\ Branch.total = ds.target
    /\ Go([ds EXCEPT !.solutions = Append(@, Branch.chosen), !.pc = "leave"], Say, NoTile)

SearchAbandon ==
    /\ At(Backtracking, "enter")
    /\ Branch.total > ds.target
    /\ Go([ds EXCEPT !.pc = "prune"],
          Ask("PRUNE_BRANCH", [total |-> Branch.total, target |-> ds.target]), NoTile)

SearchPrune ==
    /\ At(Backtracking, "prune")
    /\ Go([ds EXCEPT !.pc = "leave"], Say, <<"prune-yes">>)

SearchLeaf ==
    /\ At(Backtracking, "enter")
    /\ Branch.total < ds.target
    /\ Branch.index > Len(ds.candidates)
    /\ Go([ds EXCEPT !.pc = "leave"], Say, NoTile)

\* The child that takes the element, and afterwards the one that does not.
Enter(frames, child) ==
    Go([ds EXCEPT !.frames = Append(frames, child), !.visited = @ + 1, !.pc = "enter"], Say, NoTile)

SearchTake ==
    /\ At(Backtracking, "enter")
    /\ Branch.total < ds.target
    /\ Branch.index <= Len(ds.candidates)
    /\ Enter(ds.frames,
             [index |-> Branch.index + 1, chosen |-> Branch.chosen \cup {Branch.index},
              total |-> Branch.total + ds.candidates[Branch.index], branch |-> "take"])

SearchReturn ==
    /\ At(Backtracking, "leave")
    /\ LET below == Chopped(ds.frames)
           parent == LastOf(below)
       IN  CASE below = <<>> -> Go([ds EXCEPT !.frames = below, !.pc = "over"], Final, NoTile)
             [] below # <<>> /\ Branch.branch = "take" ->
                   Enter(below, [parent EXCEPT !.index = @ + 1, !.branch = "skip"])
             [] OTHER -> Go([ds EXCEPT !.frames = below], Say, NoTile)

TechniqueInit ==
    \/ \E a \in Series :
          \/ Begin(PrefixSum, PrefixLocals(a))
          \/ Begin(MonotonicStack, StackLocals(a))
          \/ Size(a) > 1 /\ (Begin(DivideConquer, HalvesLocals(a)) \/ Begin(LineTable, LineLocals(a)))
    \/ \E acts \in Activities : Begin(Greedy, GreedyLocals(acts))
    \/ \E words \in WordPairs : Begin(EditTable, EditLocals(words[1], words[2]))
    \/ \E p \in Purses : Begin(Backtracking, PurseLocals(p))

\* The engines: each runs its steps, and those it shares, for its own topic.

prefixSumEngine == topic = PrefixSum /\ (PrefixAsk \/ PrefixFill \/ RangeAsk \/ RangeAnswer)

monotonicStackEngine ==
    /\ topic = MonotonicStack
    /\ \/ StackAsk \/ StackDischarge \/ StackLeftover

divideConquerEngine ==
    /\ topic = DivideConquer
    /\ \/ HalvesSolve \/ HalvesReturn \/ HalvesAsk \/ HalvesTake \/ HalvesEnd

greedyEngine == topic = Greedy /\ (GreedyAsk \/ GreedyChoose \/ GreedyEnd)

dp1DEngine == topic = LineTable /\ (LineAsk \/ LineFill \/ LineEnd)

dp2DEngine == topic = EditTable /\ (EditAsk \/ EditFill \/ EditEnd)

backtrackingEngine ==
    /\ topic = Backtracking
    /\ \/ SearchSolution \/ SearchAbandon \/ SearchPrune \/ SearchLeaf \/ SearchTake
       \/ SearchReturn

TechniqueNext ==
    \/ prefixSumEngine \/ monotonicStackEngine \/ divideConquerEngine \/ greedyEngine
    \/ dp1DEngine \/ dp2DEngine \/ backtrackingEngine

(***************************************************************************)
(* Properties                                                              *)
(***************************************************************************)

Runs(a) == {r \in (DOMAIN a) \X (DOMAIN a) : r[1] <= r[2]}
BestRun(a) == Greatest({SumOver(a, r[1], r[2]) : r \in Runs(a)})

Compatible(acts, S) ==
    \A x, y \in S : x # y => acts[x].finish <= acts[y].start \/ acts[y].finish <= acts[x].start

\* The k-th smallest of a set of places.
Kth(S, k) == CHOOSE x \in S : Cardinality({y \in S : y <= x}) = k

\* The cheapest way to align two words: letters of one are paired with letters
\* of the other in order, each pair of different letters and each letter left
\* out costs one edit.
Alignments(a, b) ==
    {p \in (SUBSET (1 .. Len(a))) \X (SUBSET (1 .. Len(b))) : Cardinality(p[1]) = Cardinality(p[2])}
EditDistance(a, b) ==
    Least({Len(a) + Len(b) - 2 * Cardinality(p[1])
             + Cardinality({k \in 1 .. Cardinality(p[1]) : a[Kth(p[1], k)] # b[Kth(p[2], k)]}) :
             p \in Alignments(a, b)})

PurseSum(p, S) == SumOver([x \in DOMAIN p |-> IF x \in S THEN p[x] ELSE 0], 1, Len(p))

\* What each technique computes by its short cut is what trying everything
\* would give: the sum of each range asked about, the next greater value, the
\* greatest sum of a run (twice, by halves and by a table), the greatest number
\* of activities that do not overlap, the edit distance, and every subset that
\* adds up to the target, each once, within the nodes of the full tree.
TechniqueIsRight ==
    step.final =>
        CASE topic = PrefixSum ->
                \A q \in DOMAIN ds.queries :
                    ds.answers[q] = SumOver(ds.input, ds.queries[q][1], ds.queries[q][2])
          [] topic = MonotonicStack ->
                /\ ds.pushes = Size(ds.input) /\ ds.pops <= ds.pushes
                /\ \A x \in DOMAIN ds.input :
                      LET greater == {y \in DOMAIN ds.input : y > x /\ ds.input[y] > ds.input[x]}
                      IN  ds.result[x] = IF greater = {} THEN -1 ELSE ds.input[Least(greater)]
          [] topic = DivideConquer -> ds.answer = BestRun(ds.input)
          [] topic = LineTable ->
                /\ ds.answer = BestRun(ds.input)
                /\ SumOver(ds.input, ds.run[1], ds.run[2]) = ds.answer
          [] topic = Greedy ->
                /\ Compatible(ds.input, ds.chosen)
                /\ \A S \in SUBSET DOMAIN ds.input :
                      Compatible(ds.input, S) => Cardinality(S) <= Cardinality(ds.chosen)
          [] topic = EditTable ->
                ds.table[<<Len(ds.source), Len(ds.target)>>] = EditDistance(ds.source, ds.target)
          [] topic = Backtracking ->
                LET found == {ds.solutions[x] : x \in DOMAIN ds.solutions}
                IN  /\ found = {S \in SUBSET DOMAIN ds.candidates :
                                   PurseSum(ds.candidates, S) = ds.target}
                    /\ Cardinality(found) = Len(ds.solutions)
                    /\ ds.visited < 2 ^ (Len(ds.candidates) + 1)
          [] OTHER -> TRUE

=============================================================================
