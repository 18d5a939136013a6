---------------------------- MODULE SearchEngines ----------------------------
(***************************************************************************)
(* The five searching engines (apps/web/src/engine/*Search.ts).  All but    *)
(* Linear Search sort what they are given before they start.                *)
(***************************************************************************)
EXTENDS Lesson

CONSTANTS
    Haystacks,  \* the arrays a learner searches
    Targets     \* the values looked for, some of them absent

LinearSearch == "Linear Search"
BinarySearch == "Binary Search"
JumpSearch == "Jump Search"
InterpolationSearch == "Interpolation Search"
ExponentialSearch == "Exponential Search"

Searches == {LinearSearch, BinarySearch, JumpSearch, InterpolationSearch,
             ExponentialSearch}

NotFound == -1
NoMid == -1

SN == Size(ds.array)
hay == ds.array

SearchLocals(t, a, target, priced) ==
    [input |-> a, array |-> IF t = LinearSearch THEN a ELSE SortedOf(a),
     target |-> target, low |-> 0, high |-> Size(a) - 1, mid |-> NoMid, bound |-> 1,
     foundIndex |-> NotFound, comparisons |-> 0, probed |-> {}, priced |-> priced,
     pc |-> IF Size(a) = 0 THEN "nothing" ELSE "start"]

SearchInit ==
    \E t \in Searches, a \in Haystacks, target \in Targets, priced \in BOOLEAN :
        /\ priced => t = BinarySearch
        /\ Begin(t, SearchLocals(t, a, target, priced))

Found(x) == [ds EXCEPT !.foundIndex = x, !.pc = "complete"]
GaveUp == [ds EXCEPT !.pc = "complete"]

\* An empty array ends every search at once.
NothingToSearch ==
    /\ topic \in Searches /\ ds.pc = "nothing"
    /\ Go([ds EXCEPT !.pc = "ended"], Final, NoTile)

\* Linear and Binary Search ask about the outcome and then finish; the other
\* three ask it on the final step itself.
\* How many probes the run counted: Linear Search has the index it stopped at,
\* the three engines without a counter have none.
Probes ==
    CASE topic = LinearSearch -> ds.foundIndex + 1
      [] topic = BinarySearch -> ds.comparisons
      [] OTHER -> 0

Outcome == [found |-> ds.foundIndex # NotFound, array |-> hay, probes |-> Probes]

SearchComplete ==
    /\ topic \in Searches /\ ds.pc = "complete"
    /\ IF topic \in {LinearSearch, BinarySearch}
       THEN Go([ds EXCEPT !.pc = "end"], Ask("ALGORITHM_COMPLETE", Outcome), NoTile)
       ELSE Go([ds EXCEPT !.pc = "ended"], AskLast("ALGORITHM_COMPLETE", Outcome),
               NoTile)

SearchEnd ==
    /\ topic \in Searches /\ ds.pc = "end"
    /\ IF ds.priced
       THEN Go([ds EXCEPT !.pc = "cost"],
               Ask("COMPLEXITY_PREDICTION",
                   [n |-> SN, comparisons |-> ds.comparisons]), NoTile)
       ELSE Go([ds EXCEPT !.pc = "ended"], Final, NoTile)

SearchCost ==
    /\ topic = BinarySearch /\ ds.pc = "cost"
    /\ Go([ds EXCEPT !.pc = "ended"], Final, NoTile)

(***************************************************************************)
(* Linear Search: every third element is a checkpoint, a match always is.   *)
(***************************************************************************)

EngagementCheckpointInterval == 3

LinearCheck ==
    /\ At(LinearSearch, "start") /\ ds.low < SN
    /\ Go([ds EXCEPT !.probed = @ \cup {ds.low}, !.pc = "decide"],
          IF hay[ds.low] = ds.target \/ ds.low % EngagementCheckpointInterval = 0
          THEN Ask("TARGET_CHECK",
                   [array |-> hay, currentIndex |-> ds.low, target |-> ds.target])
          ELSE Say,
          NoTile)

LinearMatch ==
    /\ At(LinearSearch, "decide") /\ hay[ds.low] = ds.target
    /\ Go(Found(ds.low), Say, <<"match">>)

LinearPass ==
    /\ At(LinearSearch, "decide") /\ hay[ds.low] # ds.target
    /\ Go([ds EXCEPT !.low = @ + 1, !.pc = "start"], Say, <<"no-match">>)

LinearExhausted ==
    /\ At(LinearSearch, "start") /\ ds.low = SN
    /\ Go(GaveUp, Say, NoTile)

(***************************************************************************)
(* Halving: Binary Search, and the second phase of Exponential Search.      *)
(***************************************************************************)

Halving ==
    \/ topic = BinarySearch /\ ds.pc = "start"
    \/ topic = ExponentialSearch /\ ds.pc = "halve"

Middle == (ds.low + ds.high) \div 2

HalvingAsk ==
    /\ Halving /\ ds.low <= ds.high
    /\ Go([ds EXCEPT !.mid = Middle, !.comparisons = @ + 1,
                     !.probed = @ \cup {Middle}, !.pc = "midpoint"],
          Ask("MIDPOINT_DECISION",
              [array |-> hay, target |-> ds.target, mid |-> Middle]),
          NoTile)

NextHalf == IF topic = BinarySearch THEN "start" ELSE "halve"

HalvingFound ==
    /\ ds.pc = "midpoint" /\ hay[ds.mid] = ds.target
    /\ Go(Found(ds.mid), Say, <<"found">>)

HalvingLeft ==
    /\ ds.pc = "midpoint" /\ ds.target < hay[ds.mid]
    /\ Go([ds EXCEPT !.high = ds.mid - 1, !.pc = NextHalf], Say, <<"search-left">>)

HalvingRight ==
    /\ ds.pc = "midpoint" /\ ds.target > hay[ds.mid]
    /\ Go([ds EXCEPT !.low = ds.mid + 1, !.pc = NextHalf], Say, <<"search-right">>)

HalvingExhausted ==
    /\ Halving /\ ds.low > ds.high
    /\ Go(GaveUp, Say, NoTile)

(***************************************************************************)
(* Exponential Search: the bound doubles while the value there is small.    *)
(***************************************************************************)

ExponentialFirst ==
    /\ At(ExponentialSearch, "start")
    /\ IF hay[0] = ds.target
       THEN Go([Found(0) EXCEPT !.pc = "ended"], Final, NoTile)
       ELSE Go([ds EXCEPT !.pc = "double"], Say, NoTile)

BoundTooSmall == ds.bound < SN /\ hay[ds.bound] < ds.target

ExponentialAsk ==
    /\ At(ExponentialSearch, "double") /\ BoundTooSmall
    /\ Go([ds EXCEPT !.pc = "doubling"],
          Ask("RANGE_DOUBLE",
              [array |-> hay, target |-> ds.target, bound |-> ds.bound]),
          NoTile)

ExponentialDouble ==
    /\ At(ExponentialSearch, "doubling")
    /\ Go([ds EXCEPT !.bound = @ * 2, !.pc = "double"], Say, <<"yes-too-small">>)

ExponentialRange ==
    /\ At(ExponentialSearch, "double") /\ ~BoundTooSmall
    /\ Go([ds EXCEPT !.low = ds.bound \div 2,
                     !.high = IF ds.bound < SN THEN ds.bound ELSE SN - 1,
                     !.pc = "halve"],
          Say, NoTile)

(***************************************************************************)
(* Jump Search: whole blocks are skipped, then one block is scanned.        *)
(***************************************************************************)

\* Math.round(Math.sqrt(n)), never less than one.
JumpSizeOf(n) ==
    Greatest({1} \cup {r \in 1 .. n : (2 * r - 1) * (2 * r - 1) <= 4 * n})

BlockEnd == (IF ds.high < SN THEN ds.high ELSE SN) - 1

\* low is prev and high is step of the code.
JumpStart ==
    /\ At(JumpSearch, "start")
    /\ Go([ds EXCEPT !.low = 0, !.high = JumpSizeOf(SN), !.pc = "size"],
          Ask("JUMP_SIZE", [array |-> hay, jumpSize |-> JumpSizeOf(SN)]), NoTile)

JumpSized ==
    /\ At(JumpSearch, "size")
    /\ Go([ds EXCEPT !.pc = "block"], Say, <<"size", ds.high>>)

\* The question carries no midpoint.
JumpAsk ==
    /\ At(JumpSearch, "block") /\ hay[BlockEnd] < ds.target
    /\ Go([ds EXCEPT !.pc = "jump"],
          Ask("MIDPOINT_DECISION", [array |-> hay, target |-> ds.target]), NoTile)

JumpOver ==
    /\ At(JumpSearch, "jump")
    /\ LET prev == ds.high
       IN  IF prev >= SN
           THEN Go([ds EXCEPT !.low = prev, !.pc = "ended"], Final, <<"search-right">>)
           ELSE Go([ds EXCEPT !.low = prev, !.high = @ + JumpSizeOf(SN),
                              !.pc = "block"],
                   Say, <<"search-right">>)

JumpScanBlock ==
    /\ At(JumpSearch, "block") /\ hay[BlockEnd] >= ds.target
    /\ LET here == {x \in ds.low .. BlockEnd : hay[x] = ds.target}
       IN  Go(IF here = {} THEN GaveUp ELSE Found(Least(here)), Say, NoTile)

(***************************************************************************)
(* Interpolation Search                                                    *)
(***************************************************************************)

InRange ==
    /\ ds.low <= ds.high
    /\ ds.target >= hay[ds.low] /\ ds.target <= hay[ds.high]

ProbeAt ==
    ds.low + ((ds.target - hay[ds.low]) * (ds.high - ds.low))
                \div (hay[ds.high] - hay[ds.low])

InterpolationAsk ==
    /\ At(InterpolationSearch, "start") /\ InRange /\ hay[ds.low] # hay[ds.high]
    /\ Go([ds EXCEPT !.mid = ProbeAt, !.pc = "probe"],
          Ask("PROBE_POSITION",
              [low |-> ds.low, high |-> ds.high, probedIndex |-> ProbeAt]),
          NoTile)

InterpolationProbe ==
    /\ At(InterpolationSearch, "probe")
    /\ Go(CASE hay[ds.mid] = ds.target -> Found(ds.mid)
            [] hay[ds.mid] < ds.target -> [ds EXCEPT !.low = ds.mid + 1, !.pc = "start"]
            [] OTHER -> [ds EXCEPT !.high = ds.mid - 1, !.pc = "start"],
          Say, <<"idx", ds.mid>>)

\* All values of the range are equal, so dividing by their difference is out.
InterpolationFlat ==
    /\ At(InterpolationSearch, "start") /\ InRange /\ hay[ds.low] = hay[ds.high]
    /\ Go(IF hay[ds.low] = ds.target THEN Found(ds.low) ELSE GaveUp, Say, NoTile)

InterpolationExhausted ==
    /\ At(InterpolationSearch, "start") /\ ~InRange
    /\ Go(GaveUp, Say, NoTile)

\* The engines: each runs its steps, and those it shares, for its own topic.

linearSearchEngine ==
    /\ topic = LinearSearch
    /\ \/ NothingToSearch \/ LinearCheck \/ LinearMatch \/ LinearPass \/ LinearExhausted
       \/ SearchComplete \/ SearchEnd

runBinarySearch ==
    /\ topic = BinarySearch
    /\ \/ NothingToSearch \/ HalvingAsk \/ HalvingFound \/ HalvingLeft \/ HalvingRight
       \/ HalvingExhausted \/ SearchComplete \/ SearchEnd \/ SearchCost

exponentialSearchEngine ==
    /\ topic = ExponentialSearch
    /\ \/ NothingToSearch \/ ExponentialFirst \/ ExponentialAsk \/ ExponentialDouble
       \/ ExponentialRange \/ HalvingAsk \/ HalvingFound \/ HalvingLeft \/ HalvingRight
       \/ HalvingExhausted \/ SearchComplete \/ SearchEnd

jumpSearchEngine ==
    /\ topic = JumpSearch
    /\ \/ NothingToSearch \/ JumpStart \/ JumpSized \/ JumpAsk \/ JumpOver \/ JumpScanBlock
       \/ SearchComplete \/ SearchEnd

interpolationSearchEngine ==
    /\ topic = InterpolationSearch
    /\ \/ NothingToSearch \/ InterpolationAsk \/ InterpolationProbe \/ InterpolationFlat
       \/ InterpolationExhausted \/ SearchComplete \/ SearchEnd

SearchNext ==
    \/ linearSearchEngine \/ runBinarySearch \/ exponentialSearchEngine \/ jumpSearchEngine
    \/ interpolationSearchEngine

=============================================================================
