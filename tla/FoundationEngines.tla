-------------------------- MODULE FoundationEngines --------------------------
(***************************************************************************)
(* The engines of the Foundations track: the two recursions                 *)
(* (recursionFactorial.ts, recursionFibonacci.ts), the two-pointer engines  *)
(* (twoPointer.ts) and the sliding windows (slidingWindow.ts).              *)
(***************************************************************************)
EXTENDS Lesson, TLC

CONSTANTS
    Depths,        \* what a learner asks a recursion for
    Strips,        \* the arrays the pointers and windows move over
    Goals          \* target sums and window sizes

Factorial == "Factorial"
Fibonacci == "Fibonacci"
TwoSum == "Two Pointer"
Palindrome == "Palindrome"
FixedWindow == "Fixed Window"
VariableWindow == "Variable Window"

Foundations == {Factorial, Fibonacci, TwoSum, Palindrome, FixedWindow, VariableWindow}

Clamped(n, top) == Greatest({1, Least({top, n})})
(***************************************************************************)
(* factorialEngine and fibonacciEngine.  Of the calls of the factorial only *)
(* how many are open matters; Fibonacci's are a stack, and an open call     *)
(* keeps what its own calls returned.                                       *)
(***************************************************************************)

RecursionLocals(t, n) ==
    LET top == Clamped(n, IF t = Factorial THEN 10 ELSE 8)
    IN  [n |-> top, arg |-> top, frames |-> <<>>, prev |-> 1, calls |-> 0,
         asked |-> {}, computed |-> [k \in {} |-> 0], pc |-> "call"]

\* Down to the call half way, where the learner is asked how many are left.
FactorialDescend ==
    /\ At(Factorial, "call")
    /\ ds.n > 2
    /\ LET half == (ds.n + 1) \div 2
       IN  Go([ds EXCEPT !.arg = half - 1, !.calls = ds.n + 1 - half, !.pc = "deeper"],
              Ask("RECURSIVE_CALL", [arguments |-> half .. ds.n]), NoTile)

\* The calls that are left, down to factorial(0), which asks what it returns.
FactorialBase ==
    /\ topic = Factorial
    /\ \/ ds.pc = "deeper"
       \/ ds.pc = "call" /\ ds.n <= 2
    /\ LET left == ds.arg + 1
       IN  Go([ds EXCEPT !.arg = 1, !.calls = @ + left, !.pc = "base"],
              Ask("BASE_CASE", [baseCase |-> 0]),
              IF ds.pc = "deeper" THEN <<"remaining", left>> ELSE NoTile)

FactorialReturnsOne ==
    /\ At(Factorial, "base")
    /\ Go([ds EXCEPT !.computed = 0 :> 1, !.pc = "ask"], Say, <<"one">>)

FactorialAsk ==
    /\ At(Factorial, "ask")
    /\ Go([ds EXCEPT !.pc = "multiply"],
          Ask("RETURN_VALUE", [n |-> ds.arg, prev |-> ds.prev]), NoTile)

FactorialMultiply ==
    /\ At(Factorial, "multiply")
    /\ LET value == ds.arg * ds.prev
       IN  Go([ds EXCEPT !.prev = value, !.arg = @ + 1,
                         !.pc = IF ds.arg = ds.n THEN "over" ELSE "ask",
                         !.computed = @ @@ (ds.arg :> value)],
              IF ds.arg = ds.n THEN Final ELSE Say, <<"mult", value>>)

\* fib(k) is entered; the first call asks what the whole recursion will cost.
FibonacciEnter ==
    /\ At(Fibonacci, "call")
    /\ LET k == ds.arg
           first == "calls" \notin ds.asked /\ k = ds.n /\ ds.n > 2
       IN  Go([ds EXCEPT !.frames = Append(@, [arg |-> k, got |-> <<>>]), !.calls = @ + 1,
                         !.asked = IF first THEN @ \cup {"calls"} ELSE @,
                         !.arg = k - 1, !.pc = IF k <= 1 THEN "base" ELSE "call"],
              IF first
              THEN Ask("RECURSIVE_CALL", [arguments |-> {k}, totalCalls |-> 1])
              ELSE Say, NoTile)

\* The call on top returns; its caller goes on with fib(k - 2), or adds up.
GiveBack(value, tile) ==
    LET done == LastOf(ds.frames)
        rest == SubSeq(ds.frames, 1, Len(ds.frames) - 1)
        learnt == (done.arg :> value) @@ ds.computed
        got == IF rest = <<>> THEN <<>> ELSE Append(LastOf(rest).got, value)
    IN  IF rest = <<>>
        THEN Go([ds EXCEPT !.frames = rest, !.computed = learnt, !.prev = value, !.pc = "over"],
                Final, tile)
        ELSE Go([ds EXCEPT !.frames = [rest EXCEPT ![Len(rest)].got = got], !.computed = learnt,
                           !.arg = LastOf(rest).arg - 2,
                           !.pc = IF Len(got) = 1 THEN "call" ELSE "combine"],
                Say, tile)

FibonacciBase ==
    /\ At(Fibonacci, "base")
    /\ IF LastOf(ds.frames).arg = 1 /\ "base" \notin ds.asked
       THEN Go([ds EXCEPT !.asked = @ \cup {"base"}, !.pc = "one"],
               Ask("BASE_CASE", [baseCase |-> 1]), NoTile)
       ELSE GiveBack(LastOf(ds.frames).arg, NoTile)

FibonacciReturnsOne ==
    /\ At(Fibonacci, "one")
    /\ GiveBack(1, <<"one">>)

FibonacciAsk ==
    /\ At(Fibonacci, "combine")
    /\ Go([ds EXCEPT !.pc = "sum"],
          Ask("RETURN_VALUE", [returned |-> LastOf(ds.frames).got]), NoTile)

FibonacciSum ==
    /\ At(Fibonacci, "sum")
    /\ LET got == LastOf(ds.frames).got
           value == got[1] + got[2]
       IN  GiveBack(value, <<"sum", value>>)

(***************************************************************************)
(* twoSumSortedEngine and palindromeCheckEngine                             *)
(***************************************************************************)

PointerLocals(t, a, goal) ==
    [input |-> a, array |-> IF t = TwoSum THEN SortedOf(a) ELSE a, goal |-> goal,
     left |-> 0, right |-> Size(a) - 1, found |-> FALSE, pc |-> "look"]

PointersAt ==
    [array |-> ds.array, left |-> ds.left, right |-> ds.right]
        @@ (IF topic = TwoSum THEN "target" :> ds.goal ELSE <<>>)

\* With fewer than two values there is nothing to ask; a palindrome it is.
PointersMeet ==
    /\ topic \in {TwoSum, Palindrome} /\ ds.pc = "look"
    /\ ds.left < ds.right =>
          topic = TwoSum /\ ds.array[ds.left] + ds.array[ds.right] = ds.goal
    /\ Go([ds EXCEPT !.pc = "over",
                     !.found = IF topic = TwoSum THEN ds.left < ds.right ELSE TRUE],
          Final, NoTile)

PointersAsk ==
    /\ topic \in {TwoSum, Palindrome} /\ ds.pc = "look"
    /\ ds.left < ds.right
    /\ topic = TwoSum => ds.array[ds.left] + ds.array[ds.right] # ds.goal
    /\ Go([ds EXCEPT !.pc = "move"], Ask("POINTER_MOVE", PointersAt), NoTile)

TwoSumMove ==
    /\ At(TwoSum, "move")
    /\ IF ds.array[ds.left] + ds.array[ds.right] < ds.goal
       THEN Go([ds EXCEPT !.left = @ + 1, !.pc = "look"], Say, <<"move-left">>)
       ELSE Go([ds EXCEPT !.right = @ - 1, !.pc = "look"], Say, <<"move-right">>)

PalindromeMove ==
    /\ At(Palindrome, "move")
    /\ IF ds.array[ds.left] = ds.array[ds.right]
       THEN Go([ds EXCEPT !.left = @ + 1, !.right = @ - 1, !.pc = "look"], Say, <<"match-inward">>)
       ELSE Go([ds EXCEPT !.pc = "over"], Final, <<"no-match">>)

(***************************************************************************)
(* fixedWindowEngine and variableWindowEngine.  best is the window kept, as *)
(* its two ends.                                                            *)
(***************************************************************************)

WindowLocals(t, a, goal) ==
    [input |-> a, array |-> a,
     goal |-> IF t = FixedWindow THEN Clamped(goal, Greatest({1, Size(a)})) ELSE goal,
     start |-> 0, end |-> -1, sum |-> 0, best |-> <<>>, bestSum |-> 0, pc |-> "start"]

WindowAt == [array |-> ds.array, windowStart |-> ds.start, windowEnd |-> ds.end,
             windowSum |-> ds.sum]

FixedStart ==
    /\ At(FixedWindow, "start")
    /\ IF DOMAIN ds.array = {}
       THEN Go([ds EXCEPT !.pc = "over"], Final, NoTile)
       ELSE LET sum == SumOver(ds.array, 0, ds.goal - 1)
            IN  Go([ds EXCEPT !.end = ds.goal - 1, !.sum = sum, !.bestSum = sum,
                              !.best = <<0, ds.goal - 1>>, !.pc = "next"],
                   Ask("WINDOW_SUM", [array |-> ds.array, windowStart |-> 0,
                                      windowEnd |-> ds.goal - 1, windowSum |-> sum]), NoTile)

FixedAsk ==
    /\ At(FixedWindow, "next")
    /\ IF ds.end + 1 \in DOMAIN ds.array
       THEN Go([ds EXCEPT !.pc = "slide"], Ask("WINDOW_EXPAND", WindowAt), NoTile)
       ELSE Go([ds EXCEPT !.pc = "over"], Final, NoTile)

FixedSlide ==
    /\ At(FixedWindow, "slide")
    /\ LET sum == ds.sum - ds.array[ds.start] + ds.array[ds.end + 1]
           better == sum > ds.bestSum
       IN  Go([ds EXCEPT !.start = @ + 1, !.end = @ + 1, !.sum = sum, !.pc = "next",
                         !.bestSum = IF better THEN sum ELSE @,
                         !.best = IF better THEN <<ds.start + 1, ds.end + 1>> ELSE @],
              Say, <<"sum", sum>>)

VariableAsk ==
    /\ topic = VariableWindow /\ ds.pc \in {"start", "next"}
    /\ IF ds.end + 1 \in DOMAIN ds.array
       THEN LET sum == ds.sum + ds.array[ds.end + 1]
            IN  Go([ds EXCEPT !.end = @ + 1, !.sum = sum, !.pc = "shrink"],
                   Ask("WINDOW_EXPAND",
                       [array |-> ds.array, windowStart |-> ds.start, windowEnd |-> ds.end + 1,
                        windowSum |-> sum, targetSum |-> ds.goal]), NoTile)
       ELSE Go([ds EXCEPT !.pc = "over"], Final, NoTile)

\* From the left as long as the sum still reaches the target.
VariableShrink ==
    /\ At(VariableWindow, "shrink")
    /\ LET stop == Least({x \in ds.start .. ds.end + 1 : SumOver(ds.array, x, ds.end) < ds.goal})
           shorter == /\ stop > ds.start
                      /\ ds.best # <<>> => ds.end - (stop - 1) < ds.best[2] - ds.best[1]
       IN  Go([ds EXCEPT !.start = stop, !.sum = SumOver(ds.array, stop, ds.end), !.pc = "next",
                         !.best = IF shorter THEN <<stop - 1, ds.end>> ELSE @],
              Say,
              CASE stop > ds.start -> <<"shrink">>
                [] stop = ds.start /\ ds.end + 1 \in DOMAIN ds.array -> <<"expand">>
                [] OTHER -> NoTile)

FoundationInit ==
    \/ \E t \in {Factorial, Fibonacci}, n \in Depths : Begin(t, RecursionLocals(t, n))
    \/ \E t \in {TwoSum, Palindrome}, a \in Strips, goal \in Goals :
          /\ t = Palindrome => goal = Least(Goals)
          /\ Begin(t, PointerLocals(t, a, goal))
    \/ \E t \in {FixedWindow, VariableWindow}, a \in Strips, goal \in Goals :
          Begin(t, WindowLocals(t, a, goal))

\* The engines: each runs its steps, and those it shares, for its own topic.

factorialEngine ==
    /\ topic = Factorial
    /\ \/ FactorialDescend \/ FactorialBase \/ FactorialReturnsOne \/ FactorialAsk
       \/ FactorialMultiply

fibonacciEngine ==
    /\ topic = Fibonacci
    /\ \/ FibonacciEnter \/ FibonacciBase \/ FibonacciReturnsOne \/ FibonacciAsk
       \/ FibonacciSum

twoSumSortedEngine == topic = TwoSum /\ (PointersMeet \/ PointersAsk \/ TwoSumMove)

palindromeCheckEngine ==
    /\ topic = Palindrome
    /\ \/ PointersMeet \/ PointersAsk \/ PalindromeMove

fixedWindowEngine == topic = FixedWindow /\ (FixedStart \/ FixedAsk \/ FixedSlide)

variableWindowEngine == topic = VariableWindow /\ (VariableAsk \/ VariableShrink)

FoundationNext ==
    \/ factorialEngine \/ fibonacciEngine \/ twoSumSortedEngine \/ palindromeCheckEngine
    \/ fixedWindowEngine \/ variableWindowEngine

(***************************************************************************)
(* Properties                                                              *)
(***************************************************************************)

FactorialOf == [n \in 0 .. 10 |-> LET f[k \in 0 .. 10] == IF k = 0 THEN 1 ELSE k * f[k - 1] IN f[n]]
FibonacciOf == <<1, 1, 2, 3, 5, 8, 13, 21, 34>>

\* Every value a recursion has returned is the right one, as often as naive
\* recursion recomputes it, and Fibonacci's bill is 2 F(n + 1) - 1 calls.
RecursionIsRight ==
    /\ topic = Factorial =>
          /\ \A k \in DOMAIN ds.computed : ds.computed[k] = FactorialOf[k]
          /\ step.final => ds.calls = ds.n + 1 /\ ds.prev = FactorialOf[ds.n]
    /\ topic = Fibonacci =>
          /\ \A k \in DOMAIN ds.computed : ds.computed[k] = IF k = 0 THEN 0 ELSE FibonacciOf[k]
          /\ step.final => ds.calls = 2 * FibonacciOf[ds.n + 1] - 1

Windows(a) == {w \in (DOMAIN a) \X (DOMAIN a) : w[1] <= w[2]}
SumOf(a, w) == SumOver(a, w[1], w[2])

\* Two pointers find a pair exactly when there is one and a palindrome exactly
\* when the strip reads the same backwards; the windows kept are the one of
\* the greatest sum, and a shortest one that reaches the target.
PointersAreRight ==
    step.final =>
        /\ topic = TwoSum =>
              ds.found = \E x, y \in DOMAIN ds.input : x < y /\ ds.input[x] + ds.input[y] = ds.goal
        /\ topic = Palindrome =>
              ds.found = \A x \in DOMAIN ds.input : ds.input[x] = ds.input[Size(ds.input) - 1 - x]
        /\ topic = FixedWindow /\ ds.best # <<>> =>
              /\ SumOf(ds.input, ds.best) = ds.bestSum
              /\ \A w \in Windows(ds.input) :
                    w[2] - w[1] + 1 = ds.goal => SumOf(ds.input, w) <= ds.bestSum
        /\ topic = VariableWindow =>
              LET reach == {w \in Windows(ds.input) : SumOf(ds.input, w) >= ds.goal}
              IN  IF reach = {} THEN ds.best = <<>>
                  ELSE /\ ds.best \in reach
                       /\ \A w \in reach : ds.best[2] - ds.best[1] <= w[2] - w[1]

=============================================================================
