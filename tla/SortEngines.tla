----------------------------- MODULE SortEngines -----------------------------
(***************************************************************************)
(* The eight sorting engines (apps/web/src/engine/*Sort.ts).                *)
(***************************************************************************)
EXTENDS Lesson

CONSTANT Arrays     \* the arrays a learner sorts

BubbleSort == "Bubble Sort"
InsertionSort == "Insertion Sort"
SelectionSort == "Selection Sort"
MergeSort == "Merge Sort"
QuickSort == "Quick Sort"
HeapSort == "Heap Sort"
ShellSort == "Shell Sort"
CountingSort == "Counting Sort"
RadixSort == "Radix Sort (LSD)"

Sorts == {BubbleSort, InsertionSort, SelectionSort, MergeSort, QuickSort,
          HeapSort, ShellSort, CountingSort, RadixSort}

N == Size(ds.array)
arr == ds.array

(***************************************************************************)
(* The end of every sort: ALGORITHM_COMPLETE, then the final step.          *)
(***************************************************************************)

\* Bubble Sort asks it only when there is more than one element, Merge, Quick,
\* Counting and Radix Sort return early on an array they have no work for.
AsksCompletion ==
    CASE topic \in {BubbleSort, MergeSort, QuickSort} -> N > 1
      [] topic \in {CountingSort, RadixSort} -> N > 0
      [] OTHER -> TRUE

SortComplete ==
    /\ topic \in Sorts /\ ds.pc = "complete"
    /\ IF AsksCompletion
       THEN Go([ds EXCEPT !.pc = "end"],
               Ask("ALGORITHM_COMPLETE", [array |-> arr]), NoTile)
       ELSE Go([ds EXCEPT !.pc = "ended"], Final, NoTile)

\* Only a Bubble Sort run that compared something asks for its own cost.
SortEnd ==
    /\ topic \in Sorts /\ ds.pc = "end"
    /\ IF topic = BubbleSort /\ ds.priced
       THEN Go([ds EXCEPT !.pc = "cost"],
               Ask("COMPLEXITY_PREDICTION",
                   [n |-> N, comparisons |-> ds.comparisons]), NoTile)
       ELSE Go([ds EXCEPT !.pc = "ended"], Final, NoTile)

SortCost ==
    /\ topic = BubbleSort /\ ds.pc = "cost"
    /\ Go([ds EXCEPT !.pc = "ended"], Final, NoTile)

(***************************************************************************)
(* Bubble Sort                                                             *)
(***************************************************************************)

BubbleInit ==
    \E a \in Arrays, forced, priced \in BOOLEAN :
        Begin(BubbleSort,
              [input |-> a, array |-> a, pass |-> 0, i |-> 0, swapped |-> FALSE,
               comparisons |-> 0, forced |-> forced, priced |-> priced,
               pc |-> IF Size(a) > 1 THEN "compare" ELSE "complete"])

\* A tenth of the spread of the input, rounded half up.
Threshold ==
    LET values == {ds.input[x] : x \in DOMAIN ds.input}
    IN  (Greatest(values) - Least(values) + 5) \div 10

Distance(x, y) == IF x > y THEN x - y ELSE y - x

BubbleLast == N - 1 - ds.pass

BubbleCompare ==
    /\ At(BubbleSort, "compare") /\ ds.i < BubbleLast
    /\ Go([ds EXCEPT !.pc = "decide", !.comparisons = @ + 1],
          IF ds.i = 0 \/ ds.forced
                      \/ Distance(arr[ds.i], arr[ds.i + 1]) <= Threshold
          THEN Ask("SWAP_DECISION",
                   [array |-> arr, active |-> <<ds.i, ds.i + 1>>])
          ELSE Say,
          NoTile)

BubbleSwap ==
    /\ At(BubbleSort, "decide") /\ arr[ds.i] > arr[ds.i + 1]
    /\ Go([ds EXCEPT !.array = Swapped(@, ds.i, ds.i + 1), !.swapped = TRUE,
                     !.i = @ + 1, !.pc = "compare"],
          Say, <<"swap">>)

BubbleKeep ==
    /\ At(BubbleSort, "decide") /\ arr[ds.i] <= arr[ds.i + 1]
    /\ Go([ds EXCEPT !.i = @ + 1, !.pc = "compare"], Say, <<"no-swap">>)

\* The question comes before the narration that answers it, and there is none
\* after the last possible pass.
BubblePassEnd ==
    /\ At(BubbleSort, "compare") /\ ds.i = BubbleLast
    /\ Go([ds EXCEPT !.pc = "passed"],
          IF ds.pass = N - 2 THEN Say
          ELSE Ask(IF ds.swapped THEN "PASS_COMPLETE" ELSE "EARLY_TERMINATION",
                   [array |-> arr, settled |-> BubbleLast]),
          NoTile)

BubbleNextPass ==
    /\ At(BubbleSort, "passed")
    /\ Go([ds EXCEPT !.pass = @ + 1, !.i = 0, !.swapped = FALSE,
                     !.pc = IF ds.swapped /\ ds.pass + 1 < N - 1
                            THEN "compare" ELSE "complete"],
          Say, NoTile)

(***************************************************************************)
(* Insertion Sort and Shell Sort: shift what is larger, then insert.        *)
(***************************************************************************)

InsertionInit ==
    \E a \in Arrays :
        Begin(InsertionSort,
              [input |-> a, array |-> a, i |-> 1, j |-> 0, key |-> 0, keyIndex |-> 1,
               gap |-> 1, pc |-> IF Size(a) > 1 THEN "take" ELSE "complete"])

ShellInit ==
    \E a \in Arrays :
        Begin(ShellSort,
              [input |-> a, array |-> a, i |-> Size(a) \div 2, j |-> 0, key |-> 0,
               keyIndex |-> -1, gap |-> Size(a) \div 2,
               pc |-> IF Size(a) > 1 THEN "take" ELSE "complete"])

Shifting == {InsertionSort, ShellSort}

TakeKey ==
    /\ topic \in Shifting /\ ds.pc = "take"
    /\ Go([ds EXCEPT !.key = arr[ds.i], !.j = ds.i - ds.gap, !.keyIndex = ds.i,
                     !.pc = "compare"],
          Say, NoTile)

\* The key is held aside while the array shows what has been shifted so far.
InsertionCompare ==
    /\ At(InsertionSort, "compare") /\ ds.j >= 0
    /\ Go([ds EXCEPT !.pc = "decide"],
          Ask("SWAP_DECISION",
              [array |-> arr, currentKey |-> ds.key, compareIndex |-> ds.j]),
          NoTile)

ShellCompare ==
    /\ At(ShellSort, "compare") /\ ds.j >= 0
    /\ Go([ds EXCEPT !.pc = "decide"],
          Ask("GAP_COMPARISON",
              [array |-> arr, keyIndex |-> ds.keyIndex, compareIndex |-> ds.j]),
          NoTile)

Shift ==
    /\ topic \in Shifting /\ ds.pc = "decide" /\ ds.key < arr[ds.j]
    /\ Go([ds EXCEPT !.array[ds.j + ds.gap] = arr[ds.j], !.keyIndex = ds.j,
                     !.j = @ - ds.gap, !.pc = "compare"],
          Say, <<"shift">>)

StopShifting ==
    /\ topic \in Shifting /\ ds.pc = "decide" /\ ds.key >= arr[ds.j]
    /\ Go([ds EXCEPT !.pc = "insert"], Say,
          IF topic = InsertionSort THEN <<"stop">> ELSE <<"no-shift">>)

RanOffTheFront ==
    /\ topic \in Shifting /\ ds.pc = "compare" /\ ds.j < 0
    /\ Go([ds EXCEPT !.pc = "insert"], Say, NoTile)

InsertionInsert ==
    /\ At(InsertionSort, "insert")
    /\ LET placed == [arr EXCEPT ![ds.j + 1] = ds.key]
       IN  Go([ds EXCEPT !.array = placed, !.i = @ + 1,
                         !.pc = IF ds.i + 1 < N THEN "take" ELSE "complete"],
              Ask("PASS_COMPLETE", [array |-> placed, settled |-> ds.i]),
              NoTile)

ShellInsert ==
    /\ At(ShellSort, "insert")
    /\ LET nextGap == ds.gap \div 2
           lastOfPass == ds.i + 1 = N
       IN  Go([ds EXCEPT !.array[ds.j + ds.gap] = ds.key,
                         !.i = IF lastOfPass THEN nextGap ELSE @ + 1,
                         !.gap = IF lastOfPass THEN nextGap ELSE @,
                         !.pc = IF lastOfPass /\ nextGap = 0
                                THEN "complete" ELSE "take"],
              Say, NoTile)

(***************************************************************************)
(* Selection Sort: only a new minimum is a junction.                        *)
(***************************************************************************)

SelectionInit ==
    \E a \in Arrays :
        Begin(SelectionSort,
              [input |-> a, array |-> a, i |-> 0, j |-> 1, currentMin |-> 0,
               pc |-> IF Size(a) > 1 THEN "compare" ELSE "complete"])

SelectionCompare ==
    /\ At(SelectionSort, "compare") /\ ds.j < N
    /\ IF arr[ds.j] < arr[ds.currentMin]
       THEN Go([ds EXCEPT !.pc = "decide"],
               Ask("NEW_MINIMUM", [array |-> arr, scanIndex |-> ds.j,
                                   currentMin |-> ds.currentMin]),
               NoTile)
       ELSE Go([ds EXCEPT !.j = @ + 1], Say, NoTile)

SelectionUpdate ==
    /\ At(SelectionSort, "decide")
    /\ Go([ds EXCEPT !.currentMin = ds.j, !.j = @ + 1, !.pc = "compare"],
          Say, <<"update">>)

SelectionPassEnd ==
    /\ At(SelectionSort, "compare") /\ ds.j = N
    /\ LET placed == Swapped(arr, ds.i, ds.currentMin)
       IN  Go([ds EXCEPT !.array = placed, !.i = @ + 1, !.currentMin = ds.i + 1,
                         !.j = ds.i + 2,
                         !.pc = IF ds.i + 1 < N - 1 THEN "compare" ELSE "complete"],
              Ask("PASS_COMPLETE", [array |-> placed, settled |-> ds.i]),
              NoTile)

(***************************************************************************)
(* Merge Sort, bottom up.                                                   *)
(***************************************************************************)

MergeInit ==
    \E a \in Arrays :
        Begin(MergeSort,
              [input |-> a, array |-> a, passSize |-> 1, start |-> 0,
               left |-> <<>>, right |-> <<>>, i |-> 0, j |-> 0, k |-> 0,
               first |-> TRUE,
               pc |-> IF Size(a) > 1 THEN "pair" ELSE "complete"])

Slice(a, from, to) == [x \in 0 .. (to - from - 1) |-> a[from + x]]
Smaller(x, y) == IF x < y THEN x ELSE y

\* A run without a partner is left where it is.
MergePair ==
    /\ At(MergeSort, "pair") /\ ds.start < N
    /\ LET middle == Smaller(ds.start + ds.passSize, N)
           end == Smaller(ds.start + 2 * ds.passSize, N)
       IN  IF middle = end
           THEN Go([ds EXCEPT !.start = @ + 2 * ds.passSize], Say, NoTile)
           ELSE Go([ds EXCEPT !.left = Slice(arr, ds.start, middle),
                              !.right = Slice(arr, middle, end),
                              !.i = 0, !.j = 0, !.k = ds.start, !.first = TRUE,
                              !.pc = "compare"],
                   Say, NoTile)

MergeBothLeft == ds.i < Size(ds.left) /\ ds.j < Size(ds.right)

\* Only the first comparison of a merge is asked: afterwards the array shows
\* values already overwritten.
MergeCompare ==
    /\ At(MergeSort, "compare") /\ MergeBothLeft
    /\ Go([ds EXCEPT !.first = FALSE, !.pc = "take"],
          IF ds.first
          THEN Ask("MERGE_DECISION",
                   [array |-> arr, leftRegion |-> ds.start + ds.i,
                    rightRegion |-> ds.start + Size(ds.left) + ds.j])
          ELSE Say,
          NoTile)

MergeTakeLeft ==
    /\ At(MergeSort, "take") /\ ds.left[ds.i] <= ds.right[ds.j]
    /\ Go([ds EXCEPT !.array[ds.k] = ds.left[ds.i], !.i = @ + 1, !.k = @ + 1,
                     !.pc = "compare"],
          Say, <<"take-left">>)

MergeTakeRight ==
    /\ At(MergeSort, "take") /\ ds.left[ds.i] > ds.right[ds.j]
    /\ Go([ds EXCEPT !.array[ds.k] = ds.right[ds.j], !.j = @ + 1, !.k = @ + 1,
                     !.pc = "compare"],
          Say, <<"take-right">>)

MergeDrain ==
    /\ At(MergeSort, "compare") /\ ~MergeBothLeft
    /\ \/ /\ ds.i < Size(ds.left)
          /\ Go([ds EXCEPT !.array[ds.k] = ds.left[ds.i], !.i = @ + 1, !.k = @ + 1],
                Say, NoTile)
       \/ /\ ds.j < Size(ds.right)
          /\ Go([ds EXCEPT !.array[ds.k] = ds.right[ds.j], !.j = @ + 1, !.k = @ + 1],
                Say, NoTile)
       \/ /\ ds.i = Size(ds.left) /\ ds.j = Size(ds.right)
          /\ Go([ds EXCEPT !.start = @ + 2 * ds.passSize, !.pc = "pair"], Say, NoTile)

MergePassEnd ==
    /\ At(MergeSort, "pair") /\ ds.start >= N
    /\ Go([ds EXCEPT !.passSize = @ * 2, !.start = 0,
                     !.pc = IF ds.passSize * 2 < N THEN "pair" ELSE "complete"],
          Ask("PASS_COMPLETE", [array |-> arr, run |-> ds.passSize * 2]), NoTile)

(***************************************************************************)
(* Quick Sort: the last element is the pivot, ranges wait on a stack.       *)
(***************************************************************************)

PartitionPromptInterval == 3

QuickInit ==
    \E a \in Arrays :
        Begin(QuickSort,
              [input |-> a, array |-> a, stack |-> << <<0, Size(a) - 1>> >>,
               low |-> 0, high |-> 0, boundary |-> 0, j |-> 0, count |-> 0,
               sorted |-> IF Size(a) = 1 THEN {0} ELSE {},
               pc |-> IF Size(a) > 1 THEN "pop" ELSE "complete"])

QuickSmallRange ==
    /\ At(QuickSort, "pop") /\ ds.stack # <<>>
    /\ LET range == LastOf(ds.stack)
       IN  /\ range[1] >= range[2]
           /\ Go([ds EXCEPT !.stack = ButLast(@),
                            !.sorted = @ \cup (IF range[1] = range[2]
                                               THEN {range[1]} ELSE {})],
                 Say, NoTile)

QuickPivot ==
    /\ At(QuickSort, "pop") /\ ds.stack # <<>>
    /\ LET range == LastOf(ds.stack)
       IN  /\ range[1] < range[2]
           /\ Go([ds EXCEPT !.stack = ButLast(@), !.low = range[1], !.high = range[2],
                            !.boundary = range[1] - 1, !.j = range[1],
                            !.pc = "compare"],
                 Ask("PIVOT_SELECTION", [array |-> arr, partitionRange |-> range]),
                 NoTile)

QuickCompare ==
    /\ At(QuickSort, "compare") /\ ds.j < ds.high
    /\ Go([ds EXCEPT !.count = @ + 1, !.pc = "decide"],
          IF (ds.count + 1) % PartitionPromptInterval = 0
          THEN Ask("PARTITION_DECISION",
                   [array |-> arr, leftPointer |-> ds.j, pivotValue |-> arr[ds.high]])
          ELSE Say,
          NoTile)

QuickMove ==
    /\ At(QuickSort, "decide") /\ arr[ds.j] < arr[ds.high]
    /\ Go([ds EXCEPT !.array = Swapped(@, ds.boundary + 1, ds.j),
                     !.boundary = @ + 1, !.j = @ + 1, !.pc = "compare"],
          Say, <<"swap">>)

QuickSkip ==
    /\ At(QuickSort, "decide") /\ arr[ds.j] >= arr[ds.high]
    /\ Go([ds EXCEPT !.j = @ + 1, !.pc = "compare"], Say, <<"skip">>)

QuickPlacePivot ==
    /\ At(QuickSort, "compare") /\ ds.j = ds.high
    /\ LET final == ds.boundary + 1
       IN  Go([ds EXCEPT !.array = Swapped(@, final, ds.high),
                         !.sorted = @ \cup {final},
                         !.stack = @ \o << <<ds.low, final - 1>>, <<final + 1, ds.high>> >>,
                         !.pc = "pop"],
              Say, NoTile)

QuickEmptyStack ==
    /\ At(QuickSort, "pop") /\ ds.stack = <<>>
    /\ Go([ds EXCEPT !.pc = "complete"], Say, NoTile)

(***************************************************************************)
(* Heap Sort: build a max-heap, then extract the root again and again.      *)
(***************************************************************************)

HeapSortInit ==
    \E a \in Arrays :
        Begin(HeapSort,
              [input |-> a, array |-> a, i |-> (Size(a) \div 2) - 1, node |-> 0,
               size |-> Size(a), phase |-> "build", pc |-> "next"])

HeapBuildNext ==
    /\ At(HeapSort, "next") /\ ds.phase = "build"
    /\ IF ds.i >= 0
       THEN Go([ds EXCEPT !.node = ds.i, !.i = @ - 1, !.pc = "heapify"], Say, NoTile)
       ELSE Go([ds EXCEPT !.phase = "extract", !.i = N - 1], Say, NoTile)

Children == {c \in {2 * ds.node + 1, 2 * ds.node + 2} : c < ds.size}

\* Of two equal children the left one.
LargerChild ==
    Least({c \in Children : \A d \in Children : arr[c] >= arr[d]})

HeapCompare ==
    /\ At(HeapSort, "heapify") /\ Children # {}
    /\ Go([ds EXCEPT !.pc = "sift"],
          Ask("HEAP_COMPARE", [array |-> arr, active |-> <<ds.node, LargerChild>>]),
          NoTile)

HeapLeaf ==
    /\ At(HeapSort, "heapify") /\ Children = {}
    /\ Go([ds EXCEPT !.pc = "next"], Say, NoTile)

HeapSift ==
    /\ At(HeapSort, "sift") /\ arr[LargerChild] > arr[ds.node]
    /\ Go([ds EXCEPT !.array = Swapped(@, ds.node, LargerChild),
                     !.node = LargerChild, !.pc = "heapify"],
          Say, <<"sift">>)

HeapStay ==
    /\ At(HeapSort, "sift") /\ arr[LargerChild] <= arr[ds.node]
    /\ Go([ds EXCEPT !.pc = "next"], Say, <<"stay">>)

HeapExtract ==
    /\ At(HeapSort, "next") /\ ds.phase = "extract" /\ ds.i >= 1
    /\ Go([ds EXCEPT !.pc = "extract"],
          Ask("HEAP_EXTRACT", [array |-> arr, heapSize |-> ds.i + 1]), NoTile)

HeapRemoveRoot ==
    /\ At(HeapSort, "extract")
    /\ Go([ds EXCEPT !.array = Swapped(@, 0, ds.i), !.size = ds.i, !.node = 0,
                     !.i = @ - 1, !.pc = "heapify"],
          Say, <<"extract-root">>)

HeapEmpty ==
    /\ At(HeapSort, "next") /\ ds.phase = "extract" /\ ds.i < 1
    /\ Go([ds EXCEPT !.size = 0, !.pc = "complete"], Say, NoTile)

(***************************************************************************)
(* Counting Sort                                                           *)
(***************************************************************************)

CountPromptInterval == 3
PrefixPromptInterval == 2
Unplaced == -1

CountingInit ==
    \E a \in Arrays :
        Begin(CountingSort,
              [input |-> a, array |-> a, i |-> 0,
               count |-> [v \in 0 .. Greatest({0} \cup {a[x] : x \in DOMAIN a}) |-> 0],
               output |-> [x \in DOMAIN a |-> Unplaced],
               pc |-> IF Size(a) = 0 THEN "complete" ELSE "count"])

CountNext ==
    /\ At(CountingSort, "count") /\ ds.i < N
    /\ Go([ds EXCEPT !.pc = "increment"],
          IF (ds.i + 1) % CountPromptInterval = 0
          THEN Ask("COUNT_INCREMENT", [input |-> ds.input, currentInputIndex |-> ds.i])
          ELSE Say,
          NoTile)

CountIncrement ==
    /\ At(CountingSort, "increment")
    /\ Go([ds EXCEPT !.count[ds.input[ds.i]] = @ + 1, !.i = @ + 1, !.pc = "count"],
          Say, <<"v", ds.input[ds.i]>>)

CountDone ==
    /\ At(CountingSort, "count") /\ ds.i = N
    /\ Go([ds EXCEPT !.i = 1, !.pc = "prefix"], Say, NoTile)

PrefixNext ==
    /\ At(CountingSort, "prefix") /\ ds.i < Size(ds.count)
    /\ Go([ds EXCEPT !.pc = "accumulate"],
          IF ds.i % PrefixPromptInterval = 0
          THEN Ask("PREFIX_ACCUMULATE", [count |-> ds.count, currentCountIndex |-> ds.i])
          ELSE Say,
          NoTile)

PrefixAccumulate ==
    /\ At(CountingSort, "accumulate")
    /\ LET total == ds.count[ds.i] + ds.count[ds.i - 1]
       IN  Go([ds EXCEPT !.count[ds.i] = total, !.i = @ + 1, !.pc = "prefix"],
              Say, <<"v", total>>)

PrefixDone ==
    /\ At(CountingSort, "prefix") /\ ds.i = Size(ds.count)
    /\ Go([ds EXCEPT !.i = N - 1, !.pc = "place"], Say, NoTile)

PlaceNext ==
    /\ At(CountingSort, "place") /\ ds.i >= 0
    /\ Go([ds EXCEPT !.pc = "put"],
          Ask("PLACE_ELEMENT", [input |-> ds.input, count |-> ds.count,
                                currentInputIndex |-> ds.i]),
          NoTile)

PlaceElement ==
    /\ At(CountingSort, "put")
    /\ LET val == ds.input[ds.i]
           place == ds.count[val] - 1
       IN  Go([ds EXCEPT !.output[place] = val, !.count[val] = place, !.i = @ - 1,
                         !.pc = "place"],
              Say, <<"v", place>>)

PlaceDone ==
    /\ At(CountingSort, "place") /\ ds.i < 0
    /\ Go([ds EXCEPT !.array = ds.output, !.pc = "complete"], Say, NoTile)

(***************************************************************************)
(* Radix Sort, least significant digit first.                               *)
(***************************************************************************)

Digits == 0 .. 9
EmptyBuckets == [d \in Digits |-> <<>>]

RadixInit ==
    \E a \in Arrays :
        Begin(RadixSort,
              [input |-> a, array |-> a, i |-> 0, digitPosition |-> 1,
               buckets |-> EmptyBuckets,
               pc |-> IF Size(a) = 0 THEN "complete" ELSE "digit"])

Digit == (arr[ds.i] \div ds.digitPosition) % 10

RadixDigit ==
    /\ At(RadixSort, "digit") /\ ds.i < N
    /\ Go([ds EXCEPT !.pc = "bucket"],
          Ask("DIGIT_BUCKET", [currentDigit |-> Digit]), NoTile)

RadixBucket ==
    /\ At(RadixSort, "bucket")
    /\ Go([ds EXCEPT !.buckets[Digit] = Append(@, arr[ds.i]), !.i = @ + 1,
                     !.pc = "digit"],
          Say, <<"v", Digit>>)

\* The buckets laid end to end, and one more pass for each further digit of the
\* largest value.
RadixCollect ==
    /\ At(RadixSort, "digit") /\ ds.i = N
    /\ LET flat[d \in 0 .. 10] == IF d = 0 THEN <<>> ELSE flat[d - 1] \o ds.buckets[d - 1]
           more == Greatest({arr[x] : x \in DOMAIN arr}) >= ds.digitPosition * 10
       IN  Go([ds EXCEPT !.array = [x \in 0 .. (N - 1) |-> flat[10][x + 1]],
                         !.buckets = EmptyBuckets, !.i = 0,
                         !.digitPosition = @ * 10,
                         !.pc = IF more THEN "digit" ELSE "complete"],
              Say, NoTile)

SortInit ==
    \/ BubbleInit \/ InsertionInit \/ SelectionInit \/ MergeInit \/ QuickInit
    \/ HeapSortInit \/ ShellInit \/ CountingInit \/ RadixInit

\* The engines: each runs its steps, and those it shares, for its own topic.

bubbleSortEngine ==
    /\ topic = BubbleSort
    /\ \/ BubbleCompare \/ BubbleSwap \/ BubbleKeep \/ BubblePassEnd \/ BubbleNextPass
       \/ SortComplete \/ SortEnd \/ SortCost

insertionSortEngine ==
    /\ topic = InsertionSort
    /\ \/ TakeKey \/ InsertionCompare \/ Shift \/ StopShifting \/ RanOffTheFront
       \/ InsertionInsert \/ SortComplete \/ SortEnd

shellSortEngine ==
    /\ topic = ShellSort
    /\ \/ TakeKey \/ ShellCompare \/ Shift \/ StopShifting \/ RanOffTheFront \/ ShellInsert
       \/ SortComplete \/ SortEnd

selectionSortEngine ==
    /\ topic = SelectionSort
    /\ \/ SelectionCompare \/ SelectionUpdate \/ SelectionPassEnd \/ SortComplete
       \/ SortEnd

mergeSortEngine ==
    /\ topic = MergeSort
    /\ \/ MergePair \/ MergeCompare \/ MergeTakeLeft \/ MergeTakeRight \/ MergeDrain
       \/ MergePassEnd \/ SortComplete \/ SortEnd

quickSortEngine ==
    /\ topic = QuickSort
    /\ \/ QuickSmallRange \/ QuickPivot \/ QuickCompare \/ QuickMove \/ QuickSkip
       \/ QuickPlacePivot \/ QuickEmptyStack \/ SortComplete \/ SortEnd

heapSortEngine ==
    /\ topic = HeapSort
    /\ \/ HeapBuildNext \/ HeapCompare \/ HeapLeaf \/ HeapSift \/ HeapStay \/ HeapExtract
       \/ HeapRemoveRoot \/ HeapEmpty \/ SortComplete \/ SortEnd

countingSortEngine ==
    /\ topic = CountingSort
    /\ \/ CountNext \/ CountIncrement \/ CountDone \/ PrefixNext \/ PrefixAccumulate
       \/ PrefixDone \/ PlaceNext \/ PlaceElement \/ PlaceDone \/ SortComplete \/ SortEnd

radixSortEngine ==
    /\ topic = RadixSort
    /\ \/ RadixDigit \/ RadixBucket \/ RadixCollect \/ SortComplete \/ SortEnd

SortNext ==
    \/ bubbleSortEngine \/ insertionSortEngine \/ shellSortEngine \/ selectionSortEngine
    \/ mergeSortEngine \/ quickSortEngine \/ heapSortEngine \/ countingSortEngine
    \/ radixSortEngine

\* The indices the canvas paints as settled (highlightIndices).
Settled ==
    CASE topic = BubbleSort -> {x \in DOMAIN arr : x > N - 1 - ds.pass}
      [] topic = SelectionSort -> {x \in DOMAIN arr : x < ds.i}
      [] topic = QuickSort -> ds.sorted
      [] topic = HeapSort ->
            IF ds.phase = "extract" THEN {x \in DOMAIN arr : x >= ds.size} ELSE {}
      [] OTHER -> {}

=============================================================================
