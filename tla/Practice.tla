------------------------------ MODULE Practice ------------------------------
(***************************************************************************)
(* What is on a topic's page besides the prediction loop: the left panel     *)
(* (LeftPanel.tsx, AlgorithmControls.tsx) that changes the run, the AI       *)
(* Challenge (ChallengeGenerator.tsx) with the tally of its first attempts   *)
(* (AlgorithmPage.tsx), the re-seeding of a run by the learner's code        *)
(* (PredictionZone.tsx), and the Quick Check (RemediationModal.tsx).         *)
(*                                                                          *)
(* The junctions' own course is MisconceptionLoop and Playback: here an      *)
(* answer is any answer.                                                    *)
(***************************************************************************)
EXTENDS Panel, QuickChecks

CONSTANTS Difficulty,          \* the learner's: one of DOMAIN sizeFor
          Shown,               \* the misconceptions the learner may have shown most
          Visited,             \* the topics gone to from one another
          MaxEdits,            \* edits of a field between two runs
          MaxVisits,           \* topics gone to after the first
          MaxReseeds           \* runs the learner's code brings up

CHALLENGES_PER_TOPIC == 2
None == "none"
Levels == 1 .. 4

VARIABLES
    learner,    \* fixed: one who changes the fields, or one who takes what the page offers
    topic,      \* the open topic
    panel,      \* is it expanded, and its fields
    edits,      \* edits of the fields since the run came up
    screen,     \* the run, where it landed, what brought it up, and whether the fields tell it
    session,    \* has the store a session, and is the page's own still due
    challenge,  \* started so far, the active case, the hint on show, is the button busy
    framings,   \* the framing calls that are out
    tally,      \* first attempts on the challenge's run, and its result's write
    reseed,     \* the array the learner's code left, while the run waits for it
    check       \* the Quick Check on show, or how the last one ended

page == <<panel, edits, screen>>
challenging == <<challenge, framings, tally>>
vars == <<learner, topic, page, session, challenging, reseed, check>>

Experiments == learner = "experiments"
Practises == learner = "practises" /\ check.phase = "none"

----------------------------------------------------------------------------
(* Loading a run                                                            *)

\* setAlgorithm ends whatever challenge was active, and the tally of its run.
NoTally == [answered |-> FALSE, reported |-> FALSE, writing |-> FALSE, stored |-> 0]
setAlgorithm(run, land, from, told) ==
    /\ screen' = [run |-> run, land |-> land, from |-> from, told |-> told]
    /\ edits' = 0
    /\ tally' = NoTally
Swapped(v, i, j) == [v EXCEPT ![i] = v[j], ![j] = v[i]]
Ended(c) == [c EXCEPT !.active = None]

FreshPanel(t) == [open |-> TRUE, fields |-> FreshFields(t)]

\* Topics that do not open on what their fresh fields would run (README, section 5),
\* or whose fields are those of one operation.
OpensOnItsOwn ==
    UNION {BoxTopics, FIXED_INPUT_SLUGS, SteppedSearches, {"two-pointer", "sliding-window-fixed", "bellman-ford"},
           {"stack", "queue", "circular-queue", "deque"}, ListTopics, HashTopics, SearchTrees, BalancedTrees,
           {"max-heap-insert", "min-heap-insert", "trie-insert"}, MazeTopics}
Opening(t) ==
    [run |-> runFor(t, <<>>), land |-> "start", from |-> "opening", told |-> t \notin OpensOnItsOwn]

NoCheck == [phase |-> "none"]
Init ==
    /\ learner \in {"experiments", "practises"}
    /\ topic \in Topics
    /\ panel = FreshPanel(topic) /\ edits = 0
    /\ screen = Opening(topic)
    /\ session = [held |-> FALSE, due |-> TRUE, visits |-> 0]
    /\ challenge = [started |-> 0, active |-> None, hint |-> None, generating |-> FALSE]
    /\ framings = {} /\ tally = NoTally
    /\ reseed = [topic |-> None, count |-> 0]
    /\ check = NoCheck

\* Another topic is a new page; the store, and what is under way, stay.
OpenTopic(t) ==
    /\ Practises /\ {t, topic} \subseteq Visited /\ t # topic /\ session.visits < MaxVisits
    /\ topic' = t
    /\ panel' = FreshPanel(t)
    /\ setAlgorithm(runFor(t, <<>>), "start", "opening", t \notin OpensOnItsOwn)
    /\ challenge' = [Ended(challenge) EXCEPT !.generating = FALSE]
    /\ framings' = {[f EXCEPT !.mounted = FALSE] : f \in framings}
    /\ session' = [session EXCEPT !.due = TRUE, !.visits = @ + 1]
    /\ UNCHANGED <<learner, reseed, check>>

\* A session starts the count of challenges again.
SessionArrives ==
    /\ Practises /\ session.due
    /\ session' = [session EXCEPT !.held = TRUE, !.due = FALSE]
    /\ challenge' = [challenge EXCEPT !.started = 0]
    /\ UNCHANGED <<learner, topic, page, framings, tally, reseed, check>>
SessionFails ==
    /\ Practises /\ session.due
    /\ session' = [session EXCEPT !.due = FALSE]
    /\ UNCHANGED <<learner, topic, page, challenging, reseed, check>>

----------------------------------------------------------------------------
(* The panel                                                                *)

Edit ==
    /\ Experiments /\ panel.open /\ edits < MaxEdits
    /\ \E p \in Edits(topic, panel.fields) \ {panel.fields} : panel' = [panel EXCEPT !.fields = p]
    /\ edits' = edits + 1
    /\ screen' = [screen EXCEPT !.told = FALSE]
    /\ UNCHANGED <<learner, topic, session, challenging, reseed, check>>

Press ==
    /\ Experiments /\ panel.open
    /\ \E o \in Presses(topic, panel.fields) :
          /\ panel' = [panel EXCEPT !.fields = o.fields]
          /\ IF o.shows
             THEN setAlgorithm(o.run, o.land, "panel", TRUE) /\ challenge' = Ended(challenge)
             ELSE UNCHANGED <<edits, screen, tally, challenge>>
    /\ UNCHANGED <<learner, topic, session, framings, reseed, check>>

\* Collapsing unmounts the controls and the challenge button; the box's text
\* is the panel's own and stays.
Collapse ==
    /\ Experiments /\ panel.open
    /\ IF topic \in BoxTopics THEN panel' = [panel EXCEPT !.open = FALSE] /\ UNCHANGED <<edits, screen>>
       ELSE /\ panel' = [FreshPanel(topic) EXCEPT !.open = FALSE]
            /\ edits' = 0 /\ screen' = [screen EXCEPT !.told = FALSE]
    /\ challenge' = [challenge EXCEPT !.generating = FALSE]
    /\ framings' = {[f EXCEPT !.mounted = FALSE] : f \in framings}
    /\ UNCHANGED <<learner, topic, session, tally, reseed, check>>
Expand ==
    /\ Experiments /\ ~ panel.open
    /\ panel' = [panel EXCEPT !.open = TRUE]
    /\ UNCHANGED <<learner, topic, edits, screen, session, challenging, reseed, check>>

\* The mastery offer of a new input: distinct values, as many as the topic's
\* own has, in order where the topic wants them in order.
SORTED_INPUT_TOPICS == {"binary-search"} \cup SteppedSearches
masteryPracticeInput(t) ==
    LET length == MaxOf(Len(Default(t)), 2)
    IN  [i \in 1 .. length |-> IF t \in SORTED_INPUT_TOPICS THEN i ELSE 31 - i]
AcceptNewInput ==
    /\ check.phase = "none" /\ topic \notin CONTEXTUAL_CONTROL_SLUGS
    /\ LET v == masteryPracticeInput(topic)
       IN  /\ panel' = [panel EXCEPT !.fields = [@ EXCEPT !.text = v, !.error = FALSE]]
           /\ setAlgorithm(runFor(topic, v), "start", "panel", topic \in BoxTopics)
    /\ challenge' = Ended(challenge)
    /\ UNCHANGED <<learner, topic, session, framings, reseed, check>>

----------------------------------------------------------------------------
(* The AI Challenge                                                         *)

buildChallengeRun(t, input) ==
    CASE input.kind = "array"      -> OnValues("bubbleSort", input.values)
      [] input.kind = "search"     -> OnTarget("binarySearch", input.values, input.target)
      [] input.kind = "bst-insert" -> OnValues("bstInsert", input.values)
      [] input.kind = "bst-delete" -> OnBuiltTarget("bstDelete", "bstInsert", input.values, input.target)

\* Bound: one draw of each case.
OneOfEach(challenges) == {CHOOSE c \in challenges : c.caseId = id : id \in {c.caseId : c \in challenges}}

drawn ==
    [t \in CHALLENGE_TOPICS |-> [m \in Shown |-> OneOfEach(generateChallenge(t, m, Difficulty))]]

\* From the button, which is off while it is busy, or from the mastery offer,
\* which nobody hears while the panel is collapsed.
handleGenerate(offered) ==
    /\ Practises /\ hasChallengeGenerator(topic) /\ panel.open
    /\ challenge.started < CHALLENGES_PER_TOPIC
    /\ ~ offered => ~ challenge.generating
    /\ Cardinality(framings) < CHALLENGES_PER_TOPIC
    /\ \E m \in Shown : \E c \in drawn[topic][m] :
          /\ setAlgorithm(buildChallengeRun(topic, c.input), "start", "challenge", FALSE)
          /\ challenge' = [challenge EXCEPT !.started = @ + 1, !.generating = TRUE, !.active = c.caseId]
          /\ framings' = framings \cup {[caseId |-> c.caseId, call |-> Cardinality(framings), mounted |-> TRUE]}
    /\ UNCHANGED <<learner, topic, panel, session, reseed, check>>

\* Wrong: the sentence is shown when it comes.
ShownWhenItComes(f) ==
    /\ Practises
    /\ framings' = framings \ {f}
    /\ challenge' =
         [challenge EXCEPT !.hint = f.caseId, !.generating = IF f.mounted THEN FALSE ELSE @]
    /\ UNCHANGED <<learner, topic, page, session, tally, reseed, check>>

\* The sentence that frames the challenge is shown if its case is still active.
framingFor(f) ==
    /\ Practises
    /\ framings' = framings \ {f}
    /\ challenge' =
         [challenge EXCEPT
            !.hint = IF challenge.active = f.caseId THEN f.caseId ELSE @,
            !.generating = IF f.mounted THEN FALSE ELSE @]
    /\ UNCHANGED <<learner, topic, page, session, tally, reseed, check>>
HintExpires ==
    /\ Practises /\ challenge.hint # None
    /\ challenge' = [challenge EXCEPT !.hint = None]
    /\ UNCHANGED <<learner, topic, page, session, framings, tally, reseed, check>>

\* A first attempt at one of the run's junctions.
tallyChallengeAnswer ==
    /\ Practises /\ challenge.active # None /\ ~ tally.answered
    /\ tally' = [tally EXCEPT !.answered = TRUE]
    /\ UNCHANGED <<learner, topic, page, session, challenge, framings, reseed, check>>

\* At the final step the result is written, once; a write that is refused may
\* be tried again there.
reportChallenge ==
    /\ Practises /\ session.held /\ challenge.active # None
    /\ tally.answered /\ ~ tally.reported
    /\ tally' = [tally EXCEPT !.reported = TRUE, !.writing = TRUE]
    /\ UNCHANGED <<learner, topic, page, session, challenge, framings, reseed, check>>
ResultIsStored ==
    /\ Practises /\ tally.writing
    /\ tally' = [tally EXCEPT !.writing = FALSE, !.stored = @ + 1]
    /\ UNCHANGED <<learner, topic, page, session, challenge, framings, reseed, check>>
ResultIsRefused ==
    /\ Practises /\ tally.writing
    /\ tally' = [tally EXCEPT !.writing = FALSE, !.reported = FALSE]
    /\ UNCHANGED <<learner, topic, page, session, challenge, framings, reseed, check>>

----------------------------------------------------------------------------
(* A run re-seeded from what the learner's code left                        *)

\* The topics whose code question is a step of the run, and reads its array back.
SeedsNextRun == {"insertion-sort", "shell-sort", "heap-sort"}

\* A right answer is the array of the run's next snapshot that differs.  Where
\* values are shifted that is the one before the key is put down, and it holds
\* the shifted value twice (README, section 5).
ShiftedAt(v, i, gap) == [v EXCEPT ![i] = v[i - gap]]
FirstShift(v, gap) ==
    LET out == {i \in gap + 1 .. Len(v) : v[i] < v[i - gap]}
    IN  IF out = {} THEN {} ELSE {ShiftedAt(v, Min(out), gap)}
LargerChild(v, p) == IF 2 * p < Len(v) /\ v[2 * p + 1] > v[2 * p] THEN 2 * p + 1 ELSE 2 * p
FirstSift(v) ==
    LET out == {p \in 1 .. Len(v) \div 2 : v[LargerChild(v, p)] > v[p]}
    IN  IF out = {} THEN {} ELSE LET p == Max(out) IN {Swapped(v, p, LargerChild(v, p))}
LeftByCode(t, v) ==
    CASE t = "insertion-sort" -> FirstShift(v, 1)
      [] t = "shell-sort" ->
           IF FirstShift(v, Len(v) \div 2) # {} THEN FirstShift(v, Len(v) \div 2) ELSE FirstShift(v, 1)
      [] t = "heap-sort" -> FirstSift(v)

\* At the first junction of the run its code question can be asked at.
CodeSolves ==
    /\ Practises /\ topic \in SeedsNextRun /\ reseed.topic = None
    /\ reseed.count < MaxReseeds
    /\ \E v \in LeftByCode(topic, screen.run.input) :
          reseed' = [topic |-> topic, values |-> v, count |-> reseed.count + 1]
    /\ UNCHANGED <<learner, topic, page, session, challenging, check>>

\* Half a second later: the active challenge is read then, and kept.
Reseeds ==
    /\ Practises /\ reseed.topic # None
    /\ setAlgorithm(runFor(reseed.topic, reseed.values), "start", "reseed", FALSE)
    /\ reseed' = [topic |-> None, count |-> reseed.count]
    /\ UNCHANGED <<learner, topic, panel, session, challenge, framings, check>>

----------------------------------------------------------------------------
(* The Quick Check, over the topic's opening run                            *)

ShowsCheck(category, level) ==
    /\ Practises /\ <<category, topic>> \in authoredRemediationPairs
    /\ screen.from = "opening" /\ challenge.started = 0 /\ challenge.hint = None /\ framings = {}
    /\ reseed.topic = None /\ panel.open
    /\ check' = [phase |-> "open", selected |-> 0, revealed |-> FALSE,
                 question |-> generateRemediationTask(category, topic, level).question]
    /\ UNCHANGED <<learner, topic, page, session, challenging, reseed>>
Selects(o) ==
    /\ check.phase = "open" /\ ~ check.revealed /\ o \in DOMAIN check.question.options \ {check.selected}
    /\ check' = [check EXCEPT !.selected = o]
    /\ UNCHANGED <<learner, topic, page, session, challenging, reseed>>

Ends(correct, skipped) ==
    [phase |-> "ended", question |-> check.question, selected |-> check.selected,
     correct |-> correct, skipped |-> skipped]
\* The first Submit reveals the answer, the next reports it.
handleSubmit ==
    /\ check.phase = "open" /\ check.selected # 0
    /\ check' = IF ~ check.revealed THEN [check EXCEPT !.revealed = TRUE]
                ELSE Ends(check.question.options[check.selected] = check.question.marked, FALSE)
    /\ UNCHANGED <<learner, topic, page, session, challenging, reseed>>
handleSkip ==
    /\ check.phase = "open"
    /\ check' = Ends(FALSE, TRUE)
    /\ UNCHANGED <<learner, topic, page, session, challenging, reseed>>
Closed ==
    /\ check.phase = "ended" /\ check' = NoCheck
    /\ UNCHANGED <<learner, topic, page, session, challenging, reseed>>

----------------------------------------------------------------------------
Next ==
    \/ \E t \in Visited : OpenTopic(t)
    \/ SessionArrives \/ SessionFails
    \/ Edit \/ Press \/ Collapse \/ Expand \/ AcceptNewInput
    \/ \E offered \in BOOLEAN : handleGenerate(offered)
    \/ \E f \in framings : framingFor(f)
    \/ HintExpires
    \/ tallyChallengeAnswer
    \/ reportChallenge \/ ResultIsStored
    \/ ResultIsRefused
    \/ CodeSolves \/ Reseeds
    \/ \E pair \in authoredRemediationPairs, level \in Levels : ShowsCheck(pair[1], level)
    \/ \E o \in 1 .. 4 : Selects(o)
    \/ handleSubmit \/ handleSkip \/ Closed

Spec == Init /\ [][Next]_vars

----------------------------------------------------------------------------
(* Every run is one its engine is defined on                                *)

\* A page where nothing has happened yet: there the tables are looked at.
JustOpened ==
    /\ learner = "practises" /\ screen.from = "opening" /\ check = NoCheck
    /\ session = [held |-> FALSE, due |-> TRUE, visits |-> 0] /\ challenge.started = 0

TypeOK ==
    /\ topic \in Topics /\ panel.open \in BOOLEAN /\ edits \in 0 .. MaxEdits
    /\ screen.land \in {"start", "result"}
    /\ screen.from \in {"opening", "panel", "challenge", "reseed"}
    /\ challenge.started \in 0 .. CHALLENGES_PER_TOPIC

\* The page opens a topic by runFor.ts, whose comment says it differs from the
\* registry in the input alone: it does, but for four searches (README, section 5).
SearchesOtherTarget == {"linear-search"} \cup SteppedSearches
OpensOnTheRegistrysRun ==
    screen.from = "opening" /\ topic \notin SearchesOtherTarget => screen.run = engineFunction(topic, Default(topic))

IndexFits(r) ==
    CASE r.engine = "arrayInsert" -> r.target \in 0 .. Len(r.input)
      [] r.engine = "arrayDelete" -> r.target \in 0 .. Len(r.input) - 1
      [] OTHER -> TRUE
ValuesFit(r) ==
    CASE r.engine = "countingSort" -> Whole(0, 9, r.input)
      [] r.engine = "radixSort"    -> Whole(0, 999, r.input)
      [] r.engine \in {"factorial", "fibonacci"} -> Len(r.input) = 1 /\ r.input[1] \in 1 .. 10
      [] OTHER -> Word \notin Range(r.input)

WeightedEngines == {"dijkstra", "bellmanFord", "floydWarshall", "kruskal", "prim"}
GraphFits(r) ==
    LET g == Graphs[r.graph]
    IN  /\ {r.from, r.to} \subseteq Range(g.ids) \cup {""}
        /\ r.engine \in WeightedEngines => g.weighted
        /\ r.engine = "topologicalSort" => r.graph = "directed-acyclic"
        /\ r.engine \in {"bfsNodeGraph", "dfsNodeGraph", "dijkstra", "bellmanFord", "prim"} => r.from # ""
OnTheBoard(b, cell) == cell[1] \in 0 .. b.rows - 1 /\ cell[2] \in 0 .. b.cols - 1
BoardFits(r) ==
    \/ r.from = <<>> /\ r.to = <<>> /\ r.engine \in Range(MAZE_ENGINE_FOR)
    \/ /\ OnTheBoard(r.board, r.from) /\ OnTheBoard(r.board, r.to) /\ r.from # r.to
       /\ r.engine \in Range(GRID_ENGINE_FOR)

Fits(r) ==
    /\ "input" \in DOMAIN r => ValuesFit(r) /\ IndexFits(r)
    /\ "word" \in DOMAIN r  => r.word \in LetterWords \cup {""}
    /\ "graph" \in DOMAIN r => GraphFits(r)
    /\ "board" \in DOMAIN r => BoardFits(r)

\* The values of a run do not change when the learner's code restarts it, but
\* where a value is lost while others shift (README, section 5).
LosesAValue == {"insertion-sort", "shell-sort"}
CodeKeepsItsValues ==
    reseed.topic \notin LosesAValue \cup {None} => Ascending(reseed.values) = Ascending(Default(reseed.topic))

\* Whatever brings a run up, its engine is given what it is defined on: an
\* index of the array, values in the range of the sort, a node of the graph,
\* a cell of the board; and a page opens on the registry's own run.
RunsAreDefined == TypeOK /\ OpensOnTheRegistrysRun /\ Fits(screen.run) /\ CodeKeepsItsValues

----------------------------------------------------------------------------
(* The controls tell the run on screen                                      *)

\* As long as no field is edited, a press of the controls as they stand shows
\* the run that is on screen again: after Random and Apply, a preset, a size,
\* an operation or an offered input alike, "the box never describes a run that
\* is no longer on screen" (LeftPanel.tsx).
BoxTellsTheRun ==
    screen.told =>
       \E o \in Presses(topic, panel.fields) : o.shows /\ o.run = screen.run /\ o.fields = panel.fields

----------------------------------------------------------------------------
(* A challenge is what it is said to be                                     *)

\* While a case is active, the run on screen is its own.
ActiveRunIsItsCase ==
    challenge.active # None /\ screen.from # "reseed" =>
       /\ screen.from = "challenge" /\ topic \in CHALLENGE_TOPICS
       /\ \E c \in UNION Range(drawn[topic]) :
             c.caseId = challenge.active /\ screen.run = buildChallengeRun(topic, c.input)
\* A run has at most one result, which some first attempt has earned.
ResultIsEarnedOnce ==
    /\ tally.stored <= 1
    /\ tally.stored + (IF tally.writing THEN 1 ELSE 0) > 0 => tally.answered /\ challenge.active # None
HintIsForTheActiveCase == challenge'.hint \notin {challenge.hint, None} => challenge'.hint = challenge.active

\* As long as a case is active its run is the one on screen; the hint that shows
\* up and the result that is recorded are of that run, and a result is recorded
\* once, whatever loads, answers late or is retried in between.
ChallengesAreHonest ==
    [][/\ ActiveRunIsItsCase /\ ResultIsEarnedOnce /\ HintIsForTheActiveCase]_vars

----------------------------------------------------------------------------
(* What is authored is right                                                *)

Difficulties == DOMAIN sizeFor
\* Each case asks what the misconception it was chosen for gets wrong.
CasesAskTheirMisconception ==
    JustOpened /\ topic \in CHALLENGE_TOPICS =>
       \A d \in Difficulties, m \in DOMAIN MISCONCEPTION_CASES[topic] :
          \A c \in generateChallenge(topic, m, d) : c.targets = m /\ Asks(topic, m, c.input)

EveryQuestionIsSound ==
    /\ check.phase = "open" => Sound(check.question)
    /\ JustOpened /\ topic \in DOMAIN ITEM_BANK =>
         /\ \A i \in DOMAIN ITEM_BANK[topic] : Sound(ITEM_BANK[topic][i])
         /\ Responded(topic) /\ ItemsStayOut(topic)

\* A challenge's run asks what the learner gets wrong, on every input the case can
\* draw and at every difficulty.  The marked option of every authored question is
\* its one right answer, worked out from the question; every misconception a wrong
\* option reveals has its Quick Checks, which stay clear of the test; and what a
\* Quick Check reports is whether the option chosen is right.
AuthoredIsRight ==
    /\ CasesAskTheirMisconception /\ EveryQuestionIsSound
    /\ check.phase = "ended" /\ ~ check.skipped =>
         check.correct = (check.question.options[check.selected] = RightAnswer(check.question))
=============================================================================
