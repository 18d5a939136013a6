# Verification of the DSA tutor

TLA+ specifications, TLC model checking and TLAPS proofs for the DSA tutor, a
web application that teaches data structures and algorithms by letting a
student watch, predict and perform the steps of an algorithm.

All paths below are relative to the repository root. `PROJECT.json` is the
machine-readable index: components, runs, mutants, the map from definitions to
source lines, findings, hazards and theorems.

Contents: 1 inventory, 2 modules, 3 runs, 4 proofs, 5 disagreements, 6 not
modelled, 7 running.

## 1. Inventory

### 1.1 The parts and what they keep

| Part | Code | State | Operations |
| --- | --- | --- | --- |
| Misconception events | `apps/api/src/services/misconceptionEvent.service.ts`, its router | one row per detected misconception: status, failures, clean streak, probes, junctions since detection | detect or escalate, present a task, complete a task, record a probe, count a junction, check for stale events |
| Sessions | `apps/api/src/services/session.service.ts` | session rows with topic, mode and outcome | create (which checks for stale events), update, read |
| Study participation | `apps/api/src/services/study.service.ts` | participant code, Classic topic, consent, withdrawal, override, SUS answers of a user | enrol, consent, withdraw, override, submit |
| Assessments | `apps/api/src/services/assessment.service.ts`, `src/data/assessmentItemBank.ts` | attempts and responses | start, respond, complete |
| Mastery, badges, streak | `mastery.service.ts`, `badge.service.ts`, `interaction.service.ts`, `auth.service.ts` | mastery rows, badges, XP, streak | log, recompute, award, count a day |
| AI service: feedback | `apps/ai/services/feedback_stream.py`, `feedback_cache.py`, `claude_service.py`, `routers/predictions.py` | one stream per request; a cache shared by all | stream sentences through a gate, validate, cache, call the model once or twice |
| AI service: grader | `apps/ai/routers/predictions.py` (`evaluate_answer`) | none | grade a prediction from the snapshot's state |
| Misconception loop | `apps/web/src/store/useMisconceptionStore.ts`, `utils/misconceptionProbes.ts`, `utils/remediationTasks.ts` | active events, handled junctions, pending Quick Check, checks in flight | handle a junction's outcome, present, complete, wait for remediation |
| Prediction zone and algorithm page | `components/prediction/PredictionZone.tsx`, `pages/AlgorithmPage.tsx` | the junction on screen, submission token, reports outstanding, feedback card | submit, try again, show the answer, continue, advance, report |
| Playback and fading | `store/useAlgorithmStore.ts`, `utils/workedSteps.ts`, `config/pacing.ts` | snapshot array, step, mode, levels, two timers | step, play, pause, change speed, reset, load a run, change mode or level, Classic lock |
| Left panel and AI Challenge | `components/layout/LeftPanel.tsx`, `AlgorithmControls.tsx`, `components/challenge/ChallengeGenerator.tsx`, `utils/challengeGenerators.ts` | the fields of a topic, the challenge under way | edit, apply, draw at random, choose an operation, take a challenge |
| Engines, tiles | `apps/web/src/engine`, `utils/tileBuilder.ts`, `utils/correctTile.ts` | none that outlives a call | an input to an array of snapshots; a snapshot to its options |
| Research export, agreement, analytics | `apps/api/src/services` | none (queries) | read |
| Interface | `apps/web/src/components`, `pages` | render state | draw |
| Shared types | `packages/types` | none | none |

### 1.2 How they interact

* An engine turns an input into snapshots. `useAlgorithmStore` owns the step;
  the student, playback's interval and the auto-advance timer all move it.
* At a *junction* the tile builder makes options out of the snapshot, the
  student picks one, and the AI service grades it from the same snapshot. The
  engine then does what the junction asked about. Engine, tiles and grader are
  written separately, the last in another language.
* The verdict is immediate; the explanation streams for seconds, from the model
  through the gate, the API's relay and the client's preview. When the stream
  ends the answer is *reported* to the page, which writes an interaction row
  (XP, mastery and badges follow) and hands the outcome to the misconception
  store.
* The store acts on the first attempt at a junction. It sends a *junction tick*
  without waiting for it, then a detection or a probe, and on the reply may put
  up a *Quick Check*.
* Meanwhile the run wants to move on. It waits up to 12 s for the reports, up
  to 3 s for the checks, and without limit for a Quick Check.
* Each server handler is a sequence of database calls. Nothing locks a row
  between the read and the write.
* The left panel, the AI Challenge, the learner's code and the mastery offer
  all replace the run on screen, whatever else is under way.

### 1.3 What is hard

* Handlers of one student interleave and write what they computed from stale
  reads: event rows, enrolment under a unique index, consent and override,
  mastery, badges, the streak.
* On the client an answer and the run are concurrent. Reports and sentences
  come in the order the streams end; waits expire; continuations resume after
  the thing they were prepared for has gone.
* The model's text arrives cut anywhere, inside an escape or a dash too, and
  what has been shown cannot be taken back.
* Two timers outside the store and the flags that describe them inside it.
* Three programs decide what is right at a junction and share no code.
* Failures are swallowed on purpose: no call may stop the practice.

### 1.4 What makes each part correct

* Events: a closed status is earned; one active event for a topic and category;
  a closed event stays closed.
* Study: one code per participant; what is recorded once stays; a session's
  label is its condition; the post-test is earned.
* Progress: XP, mastery, badges and streak are what the rows earn.
* Feedback: nothing unchecked is shown, nothing shown is taken back, the cache
  serves nothing stale, and a request's time is bounded.
* Loop: a junction instance counts once; a Quick Check comes up where it was
  raised and the run stands under it; the run never hangs.
* Playback: one driver at a time, shown by the transport; never past a
  junction to be answered; no change of demand within a segment.
* Engines: the result is right; a junction has one right option, and it is
  what happens next.
* Page: every run is one its engine is defined on; the controls tell the run;
  a challenge's run, hint and result belong together.

## 2. Modules

| Module | Models |
| --- | --- |
| `MisconceptionEvents` | the event handlers of the API, one action per database call |
| `MisconceptionLoop` | prediction zone, page and store, composed with the handlers (`Server == INSTANCE MisconceptionEvents`) |
| `Playback` | the run, its timers, fading |
| `Study` | enrolment, consent, withdrawal, override, sessions, tests, SUS |
| `Progress` | interactions, XP, mastery, badges, streak |
| `FeedbackContract` | what a stream of feedback promises (abstract) |
| `FeedbackStream` | the gate, the validation and the cached answer; implements `FeedbackContract` |
| `FeedbackClient` | the browser's end, which reads a stream that keeps the contract |
| `FeedbackService` | cache and time budget shared by concurrent requests |
| `Lesson` | what all engines have in common |
| `SortEngines`, `SearchEngines`, `LinearEngines`, `ListEngines`, `TreeEngines` (search trees, heaps, tries), `BalancedTrees`, `HashEngines`, `GraphSearches` (weighted graphs too), `GridSearches` (boards and mazes), `FoundationEngines`, `TechniqueEngines` | the engines, by family, each with its own reference definitions |
| `Tiles`, `Grading` | the options of a junction; the grader |
| `CodeLadders` | Code Mode's ladders: what a rung hands out, expects, and asks to be written |
| `Lessons` | engines, tiles, grader and ladders together |
| `Panel` | the topics' default runs; the controls |
| `Challenges`, `QuickChecks` | the cases of a challenge; which junctions probe what, and the authored questions |
| `Practice` | a topic's page, over these three |
| `MC...` | constants and symmetry for TLC |
| `MisconceptionEventsProofs`, `LoopProofs`, `PlaybackProofs`, `StudyProofs`, `ProgressProofs`, `FeedbackClientProofs`, `FeedbackStreamProofs`, `FeedbackServiceProofs` | the theorems, section 4 |

Tree, heap and trie engines work on one representation of nodes, and searches
and weighted graphs on one of edges; each such family is one module or a chain of
`EXTENDS`. In the map a definition stands for a function, handler or type of the
source; small helpers whose code lies inside the lines of such a definition
have no row of their own.

### 2.1 MisconceptionEvents

`rows` holds the event rows, `sessions` the topics of the sessions started,
`req` the requests in progress. A request keeps what its handler has read
(`seen`), the rows it has still to handle (`todo`) and the step it is at. Each
`await` of a Prisma call ends an action. A `$transaction` is one action, since
the database applies it as a whole. `{ increment: 1 }` reads the row at the
moment of writing (`probeCountWritten`), every other counter is computed from
`seen`.

| Handler | Actions |
| --- | --- |
| `detectOrEscalate` | `DetectFindActive`, `DetectFindPersistent`, `DetectCreate`, `DetectEscalate` |
| `recordProbe` | `ProbeRead`, `ProbeWrite` |
| `incrementJunctionsSinceDetection` | `TickRead`, `TickWrite` (once per row) |
| `createSession`, `/session-check`, `checkStaleEventsOnSessionStart` | `CreateSession`, `SessionCheck`, `StaleFind`, `StaleLastOnTopic`, `StaleCountElsewhere`, `StaleAbandon` |
| `presentRemediation` | `PresentRemediation` (its first read is of whose event it is, which never changes) |
| any failing call | `Fail` |

`evidence` is a history variable: what the student really showed for each
event. No action reads it. The properties compare it with the rows.
Abstracted: one student; time is the position in `sessions`; dates, the level
and payload of a task, log rows.

### 2.2 MisconceptionLoop

An *answer* is a record that goes through the stages `streaming` (feedback),
`logging` (interaction write), `asked`, `serving`, `replied`, `done`. The stages
from `logging` to `replied` are those that `checksInFlight` counts. An *advance*
is a wait of the run: `reports`, `checks`, `ready`, and, after a correct answer,
`reading`. Several can exist at once: the automatic one and one per click on
Continue. `zone` is the prediction zone as last rendered: the submission token
is valid as long as `zone.current` is the submission, and the per-step effect
(`Render`) voids everything.

The client is single-threaded. A resumed promise runs before the next click,
timer or reply, so no such event is taken while a wait is ready or due to
resume (`Settled`). A resumed wait, however, does run before React renders:
that is where two advances can meet.

`environment`, fixed in the initial state, says what goes less than smoothly in
a behaviour: `eagerStudent` goes on before the feedback to the last answer has
ended, `eagerClick` clicks Continue although the run is about to move on by
itself, `manualStep` uses the transport at a junction, `slowCall` is a call that
outlasts the bounded waits, `failure` a call that fails, before it reaches the
server, at the server, or on the way back. `JunctionsAreCounted` holds in all of
them. The other three properties are stated of `Undisturbed` behaviours, in
which calls may fail but nothing else goes wrong; section 5 says what happens to
them otherwise.

Abstracted: one topic; the junctions of the run are numbered and a junction
instance is its step; hints are not used (`MisconceptionEvents` covers hinted
answers); the buttons are those of HIGH support, which are a superset of the
other levels' apart from the automatic retry, which is `TryAgain`; the loop has
loaded no events at the start.

### 2.3 Playback

`playbackInterval` and `autoAdvanceTimer` say whether a timer is really set,
`isPlaying` and `autoAdvancing` what the store says. `stepForward` includes the
scheduling of the next auto-advance, as in the code, and is shared by the
manual step, the interval and the timer. `isWorkedStep` is the fading rule:
which junctions are performed and which only narrated. `OpenTopic` is the page
turning to another topic (mode seeded, fading set, run loaded, in one commit of
effects). Abstracted: dwell times and speeds, the session tallies, `tracedToEnd`
and the fields no step or timer reads.

### 2.4 Study and Progress

Both follow the rule of `MisconceptionEvents`: one action per database call, a
request keeps what it read, any call may fail. `Study` has one row per user,
its sessions and its attempts. `Enrol...` reads the codes in use, takes the
lowest free ordinal and writes it under the unique index, again on a conflict,
up to `ENROL_ATTEMPTS` times. A user in `mayOverlap` makes a call before the last
has ended; the properties about records are stated of users who never did
(`careful`), and section 5 says what overlapping calls do. A date is the number
of sessions there were at that moment. The scores of the items are drawn from a
small set. `DeleteAccount` may come at any moment.

`Progress` has the interaction rows of one student and topic, the mastery row,
XP, badges and the streak, and `history`, which records what the properties
need: whether requests overlapped, what failed, the days of activity.
`RefreshReadRows`, `RefreshReadDate` and `RefreshWrite` are the recomputation of
mastery after a row; `filter` and `lastOf` select rows as the code's array
methods do, and the rubric in the properties (`Meets`) is stated anew from
`config/mastery.ts`, by sets of positions and their cardinalities.

### 2.5 The feedback modules

`FeedbackContract` promises: only fit sentences are shown, in order; the final
answer contains what was shown, or there was nothing to keep to; there always
is a final answer. `FeedbackStream` writes the model's JSON out as a sequence of
symbols and lets it arrive in pieces of any size. `StreamerFeed` finds the field
and undoes its escapes, `GateFeed` splits and checks sentences, `End` is the end
of the stream: the text is complete, the model failed, or the deadline fell,
with the fallbacks of each. `Reference` is what the gate gives on the whole text
at once. The loops of streamer, gate and sanitizer are recursive functions, one
value for each symbol. A word is one symbol; two of them together give the answer away, and one
is a phrase of self-correction.

`FeedbackClient` composes with the contract: the server's side of each of its
submissions takes the contract's steps (`Contract!...`). Its own part is the
relay that may break, the token that makes a submission current, the JSON call
used when no stream opens, the ceiling on the wait, the preview and its cut at
LOW, and the interaction log.

`FeedbackService` has a clock. The cache's entries are a sequence from the least
to the most recently used, as in the ordered dictionary of the code: `Deleted`,
`MovedToEnd`, `Assigned` and `Evicted` are what `del`, `move_to_end`, item assignment
and the eviction loop do to it. `uses` and `kept`, which no handler reads, record
the last use of each key and when what was stored under it expires. A handler awaits one or two
calls of the model; between awaits nothing else runs.

### 2.6 The lesson modules

Engines are pure functions, so a run is deterministic but for the maze
generators; what makes them worth a state machine is that they *ask* and then
*do*. `Lesson` has the locals of the running engine (`ds`), the snapshot emitted
last (`step`) and the option just carried out (`did`). One action is the stretch
of code up to the next snapshot that asks, ends, or shows a structure a property
is about. `PlayedOut` compares what an action did with what the junction before
it asked.

`Tiles` gives the options of a junction, each with its id, what its label reads
and whether it is marked right; `Grading` is `evaluate_answer`, over the state
the client sends. `Lessons` puts all together and states the properties. Every
structure has a reference of its own: sortedness by a permutation, a search tree
by its in-order sequence, an AVL tree by its heights, a red-black tree by its
black heights, distances by closure over paths, spanning trees by all edge
subsets, techniques by enumeration.

`CodeLadders` has the four rungs of each of seventeen topics. A rung has an answer
(`expectedFor`) and gives the learner's program its globals; both are read off the
run, by different code and often from different snapshots. `solved` is what the
program the rung asks for, as `codeLadders.solutions.ts` writes it, makes of these
globals. `RungsCanBePassed` compares them at the end of every run.

Where the programs are known to disagree the model follows the code, and
the property excepts the case by name: `Disputed` (junctions whose rules
disagree), `EqualValues` (labels that read out values which coincide), `Ungraded`
(junctions the grader does not know), `Unpassable` (rungs), and the exception in
`FinalIsLast`. Each is described in section 5.

### 2.7 The practice modules

`Panel` has a topic's default run and the controls: one operator per
control component that gives the set of outcomes of its buttons on the fields as
they stand (`Presses`), each with the fields left, whether a run is shown, and
which. A text is what its parser makes of it; `Half`, `Infinite` and `Word` are
numbers and words that parsers treat apart. A run is a record of the engine and
its arguments.

`Challenges` gives every input a case can draw, as ranks. `QuickChecks` has the
authored questions in the form (what is asked, of what, options, marked) and
works each answer out again with the algorithms (`RightAnswer`).

`Practice` is the page: edits, presses, collapsing, the mastery offer, opening
another topic while a session is being created, challenges whose framing is
awaited, the tally and the write of a challenge's result, code that re-seeds the
run half a second after it was accepted, and the Quick Check's modal. An answer
at a junction is any answer: junctions are `MisconceptionLoop`'s and `Lessons`'.

Abstracted: a learner either experiments with the controls or practises
(`learner`), since nothing relates an edit to a challenge but the run, which
the offered input and the opening also change; a Quick Check is over the topic's
opening run and blocks the page until it is closed; accuracy and XP of a
challenge; the answer to a result's write is not lost, though the write may be
refused; the code question is the first of its run; numbers in number fields are
whole; free-response checks, which no topic has any more, and the captions
around a check.

### 2.8 Wrong variants

Modules contain deliberately wrong variants of some definitions
(`BottomOutEarly`, `OnlyFirstAttempt`, `TimerKept`, `ForgetsEscape`, ...), marked
as wrong. No action uses them. Put in the place of the definition it is named
for, each makes TLC refute the property it is listed with in `PROJECT.json`:
every property can fail.

## 3. Runs

| Run | Shows | Bounds |
| --- | --- | --- |
| `events_concurrent` | rows are never ahead of the student's history, whatever two requests of one student interleave | 2 requests, 5 calls, 2 topics, 2 events |
| `events_serial` | one request at a time, crashes included: rows are exactly the history; rules for opening, evaluating, resolving, reopening | 1 request, 6 calls |
| `loop` | a junction counts once; a Quick Check is at its junction, the run stands under it and moves on in the end | 2 answers, 3 junctions, three environments |
| `playback_timers` | never two timers, none unseen; no junction passed; demand changes at boundaries; motion ends | 5 operations, 2 arrays, 2 levels |
| `study` | codes, conditions and test records mean what the analysis takes them to mean | 3 users, 2 topics, 1 item, 2 requests, 2 enrolment attempts |
| `progress` | XP, mastery, badges and streak are earned | 4 answers, window 2, 1 badge, 2 requests |
| `feedback_stream` | only checked sentences are shown and cached; the stream implements `FeedbackContract` | explanations of up to 3 sentences, pieces of up to 4 symbols |
| `feedback_client` | late, broken and superseded streams never reach another card; judged answers are reported | 2 submissions, 2 steps, 2 sentences, 4 levels |
| `feedback_service` | nothing expired is served; eviction is least recently used; time is bounded | 3 keys, 2 handlers, cache of 2, horizon 6 |
| `lessons` | every engine computes what it claims, asks fairly, marks rightly, does what it asked; every rung of a ladder can be passed | below |
| `practice` | every run a page shows is defined; the box tells the run; authored content is right; challenges are honest | below |
| `lessons_rotation` | violation: an AVL insert that crashes, section 5 | as `lessons` |

### 3.1 Properties

A property is the conjunction of named parts, each with a comment in its module;
TLC names the conjunct it refutes by its place.

* *Where histories overtake rows.* `HistoryInv`, `PersistentEarned`,
  `ProbeCountExact`, `AbandonedForCause` compare rows with a ghost history of what
  the student did; `NoLostEvidence` and `RulesAreKept` hold one request at a
  time only, and show that overlap is the sole cause of a lost update.
* *Where one thing waits for another.* `RunMovesOn`, `MotionEnds`,
  `JudgedIsReported`, `Finishes` are liveness; `NeverAdvancesUnderQuickCheck`,
  `CardOnlyGrows` are about what may happen while something is pending.
* *Where two records must agree.* `CodesAreSound` (codes unique, ordinals
  derive code and Classic topic), `RecordsAreHonest` (a session's condition label
  against consent, mode and phase; a post-test open only when the work or an
  override allowed it), `RewardsAreEarned`, `MasteredOnce`.
* *Where three programs must agree.* `AskedFairly` and `MarkedIsRight`: the engine
  that asks, the tile builder that offers, the grader that judges.
  `optionUniqueness.test.ts:9-20` asks that "No asked junction may offer two
  options that are true", `tileCoverage.test.ts:65-76` that there be "Exactly one
  right answer, or the grading is ambiguous"; `predictions.py:480-484` says of
  the option ids that "the two sides never share code, so they must agree on the
  same id strings by construction". The tests look at one run per topic, the
  model at every small one.
  `RungsCanBePassed`, in `AskedFairly`, does the same for the ladders: the tests run
  each solution on one run, the model on all.
* *Where a page outlives what it shows.* `BoxTellsTheRun` is `applyInput.ts:4-7`:
  the controls must not be "describing a run that is no longer on screen".
  `ChallengesAreHonest` follows one challenge from its draw to its stored result.

### 3.2 Bounds, and why they are enough

Thresholds are small so that they are reached: 2 failures bottom out (3 in the
code), 1 junction may pass before abandonment (25), 2 sessions elsewhere (as in the
code), 2 enrolment attempts (8), a window of 2 answers for mastery. Every bound is
a constant in a guard.

*Events.* Two events suffice for a duplicate and for a loop over several rows; two
requests for every race of a read with a write. Six calls, one at a time, are
enough to detect, fail, bottom out and try again, or to detect, probe twice and
resolve across a task.

*Loop.* The first junction has two tiles and the others three, so one clean probe
resolves; the first does not probe the category, so a wrong answer there only
detects. Two answers are a detection and a probe, or two attempts at one
junction, after which the answer is shown (3 in the code, 2 without support); a
Quick Check can be pending, late or hidden when the second is given. `Environments`
is a set of sets of disturbances: calls that fail; a student who steps by hand
and clicks early while calls are slow; a student who besides answers ahead of
the reports while calls also fail. Counting holds in all three; what is said of the
Quick Check and of moving on is stated of the first (`Undisturbed`), and does not
hold of the others.

*Playback.* The study array has procedural junctions, two conceptual ones of one
type and a narrated end; the other has none of these.

*Study, progress.* Two requests may overlap; budgets of calls (`Budgets`) spread the
depth over several shapes, so that e.g. one shape has many enrolments and another
one long life of a participant. In `study` only one user's calls overlap.

*AI service.* Texts are sequences of symbols (a clause, an end of sentence, an
escape, a quote...), cut at every place. Three keys overfill a cache of two; the
horizon passes the expiry twice over. One SDK retry is one more than none.

*Lessons.* Arrays of up to three of 1, 2 and 13 (equal values, and values whose
decimal length differs), some longer; every order of five keys for heaps and
balanced trees, and all short key lists for search trees; word lists that share prefixes; hash keys at capacity 4 that collide and
wrap; operations up to seven on a ring of three; every undirected graph on four
nodes, every directed one on three, and the interface's presets; boards of three
by four with up to two walls. An engine is a function of one input, so a larger
input adds length, not new branches: each branch of every engine is reached by
these (each action of `Lessons` is fired, one per engine and kind of stop).

*Practice.* Every topic; two edits; typed texts and numbers that parsers accept,
correct, cap and reject; two visits to a page, of `bst` and `heap-sort` in
between (one whose fields share names with others', one that re-seeds); one
re-seed; two misconceptions on show. Runs are of difficulty BEGINNER with one
draw a case, while `AuthoredIsRight` looks at every difficulty and every draw.

### 3.3 Deadlock, symmetry, fairness

*Deadlock* is checked in `lessons`. Elsewhere a student may stop at any time, and the
bounds stop everything.

*Symmetry* is used for events, requests and topics (`events_*`), requests (`study`,
`progress`), keys and handlers (`feedback_service`): no handler tells them apart,
and none of these runs has a liveness property. In `study`, which user overlaps is
told apart, so only requests are permuted.

*Fairness* is weak, one action at a time, and stated only where liveness is:

| Module | Assumed | Because |
| --- | --- | --- |
| `MisconceptionLoop` (`FairSpec`) | a started call ends, a set timer fires, React renders, a resumed promise runs, a Quick Check on screen is answered or skipped | the browser does these; the modal cannot be left otherwise. Nothing is assumed of what the student does with a junction |
| `Playback` (`FairSpec`) | auto-advance and interval fire | `setTimeout`, `setInterval` |
| `FeedbackContract` | the stream concludes | the service's deadline |
| `FeedbackStream` | the deadline fires | `asyncio` timeout around the stream; no fairness for the model |
| `FeedbackClient` | the ceiling timer fires; a concluded call is noticed; the fallback request and the verdict answer or fail | timers and promises of the browser |
| `Lessons` | a call goes on until it returns | JavaScript runs a call to its end |

## 4. Proofs

### 4.1 The theorems

Each holds for every value of the constants that the named assumptions allow:
any number of users, requests, events, topics, answers, steps or keys, any
bound on calls and any threshold.

| Module | Theorem | States |
| --- | --- | --- |
| `MisconceptionEventsProofs` | `TypeCorrect`, `HistoryTheorem` | `[]TypeOK`, `[]HistoryInv` |
| | `PersistentEarnedTheorem` | persistent only after that many failures |
| | `ProbeCountTheorem` | `probeCount` is exact |
| | `AbandonedTheorem` | abandoned only for cause |
| | `NothingIsLost`, `ResolutionIsEarned`, `RulesHold` | one request at a time: a row tells its history exactly; a resolution is earned; the rules for opening, evaluating and reopening are kept |
| `LoopProofs` | `JunctionsCounted` | a junction counts once, in every environment |
| | `CheckedInPlace`, `HeldByQuickCheck` | undisturbed: a Quick Check is at its junction and the run stands under it |
| | `LoopCallsTheServer` | the loop implements `MisconceptionEvents` |
| `PlaybackProofs` | `OneDriver` | at most one timer moves the run, and it is shown |
| | `RulesKept` | no timer passes a junction; demand changes at boundaries only |
| `StudyProofs` | `SoundCodes` | codes and the rotation of Classic topics |
| | `HonestRecords`, `FirstRecordStands` | labels, overrides, tests; what is recorded once stays |
| `ProgressProofs` | `DateStands` | mastery is dated once and not cleared |
| | `XpAndMasteryAreEarned` | every request, overlapped or cut short: XP is accounted for, mastery was met |
| | `StreakIsHonest`, `RewardsEarned` | the streak; all of `RewardsAreEarned`, the stored rubric included |
| `FeedbackClientProofs` | `HonestCard`, `GrowingCard` | `CardIsHonest`, `CardOnlyGrows` |
| `FeedbackStreamProofs` | `StreamShowsWhatIsChecked` | however the text is cut, what is shown is the whole text's, and checked |
| | `StreamCacheIsHonest` | what is cached passes every rule and reads as what was shown |
| | `StreamImplementsContract` | every step is a step of `FeedbackContract` or shows nothing |
| `FeedbackServiceProofs` | `TimeBounded` | the bound on a request's calls and time |
| | `CacheFresh` | nothing expired, nothing of another key; least recently used goes first |

### 4.2 The arguments

In each module the property is not inductive, and the invariant adds what the
processes under way know. The proof that a step keeps it has one case per
action. The full invariants are in the modules; this is what they say.

*Misconception events.* A handler in progress may write any count it has read.
`HistoryInv` adds to what the rows claim (`RowEarned`) what every request in
progress has read of the rows it will write (`ReadBehind`): no more than what has
happened, and a tick holds only rows that were active. A write then puts at most one
more than was read in the row, at the moment the history grows by one. A stale
write can put the row behind the history, never ahead. For abandonment by
sessions the invariant carries the reason along: from `countElsewhere` to the write
the sessions can only grow (`LeftFor`, by a lemma on the cardinality of `Elsewhere`).

*One request at a time* (`OneAtATime == \E r : Requests = {r}`, an assumption of the
three theorems that need it). `Serial` says that what the request has read is still in
the database (`ReadIsCurrent`), that what it found absent still is
(`StillAbsent`), and that a row equals its history (`RowsTell`). A failing call
changes no row and no history, so the request may fail anywhere.

*Loop.* `Inv` is `Typed`, `TicksOnce`, `Counted` and, undisturbed, `Calm`. `Typed` carries
the server's `TypeOK` and `HistoryInv`: a step of the loop leaves the server's variables
alone or takes one of its handlers (`ServedByHandlers`), so the lemmas of
`MisconceptionEventsProofs` serve here, and `LoopCallsTheServer` follows.
`Counted` adds to what an event has counted the answers whose detection, probe or
tick the server has still to write, and bounds the sum by the junctions acted on;
each report or write moves an answer from one side to the other. `Calm` says that an
undisturbed run stands where the answer was given for as long as it may
raise a Quick Check or has one pending.

*Playback.* A timer is set only by a step forward (`TimerAwayFromJunction`), on a
step that is not a live junction and is not the first, and whatever else can turn
the step shown into one clears it.

*Study.* `CodesUnique` and `TopicFollowsCode` hold because the claim is one write under
the unique index. `Rotated`: undisturbed by overlap and deletion, the codes are 1 to
the number of participants and an enrolment waits with an ordinal at most one
above. `Steady` is of each user who never overlaps: at most one call is in
progress, what it has read is what the rows say (`Knows`), times are in order, and the
records are honest. The arithmetic of the rotation (`Turns`, `RestOf`, `TurnBack`)
is proved first.

*Progress.* `DateInv`: without overlap at most one request is past `idle`, and the date
it read is the date in the row. `StreakInv`: the days counted are days of
activity up to the last one counted, and a request about to count has found a
later day; unless a call failed or a midnight passed, every day is counted or
about to be. `NextDayOfRun` and `FirstDay` are what a day adds to a run.

`RewardInv` adds three parts. `XpInv` is the balance of the XP: the total, what each
request in progress still owes it and what was lost make up the XP of the rows and
of the badges; a step moves one amount from one side to another (`OwesOneMore`,
`DebtMoves`). `DatesInv`: a date stored, or read by a request that will write
it, is that of rows that met everything (`Earlier`). `RubricInv`, without overlap: a
refresh has read all the rows there are; the stored rubric is that of the rows
unless a row came since, and then its request has still to refresh or a call
failed. It uses that rows are only appended (`Grows`). Before that, the lemmas
`AccuracyIs`, `BreadthIs` and `MasteryIs` prove that the code's selections (filter,
slice, count, round, a set of inputs) and the rubric of the properties agree on any
rows: the first by induction over the rows, the second by an injection between
inputs and positions.

*Feedback client.* `InTurn`: answers are given one after another and only the latest
is current or awaits its verdict. `Sound` relates an answer's verdict, stream and
preview, `Fits` the card to the answer it is about: what it shows is what was read
of that answer's stream, cut at LOW, and what the log says once it is written.
The server's part is used only through the steps of `FeedbackContract`.

*Feedback stream.* A reader is defined that takes the value in symbol by symbol and
knows at each the sentences complete so far (`out`), the one begun (`cur`) and
the first failure; sanitizer and gate are shown to do what it does, on a whole
text and on any piece of it (`SanitizeIs`, `GateFeedIs`), and the streamer to decode
what it is given (`DecodedIs`). `Position` says that streamer and gate, whatever
the pieces, have come to the reading of some first symbols of the value, or have
stopped where the reader did. `StreamInv` is that, with the final answer faultless
only if the value is done and nothing failed. A reading of more symbols extends the
sentences of fewer, so nothing is taken back. For the cache, what the reader has
told (`Told`), joined, is the field itself but for the spaces between sentences.

*Feedback service.* `Timed` says when each call under way began and when it ends at the
latest; the sum of attempts stays within `TimeIsBounded`. For the cache `Consistent` relates
the entries to the history: they stand in the order of last use (`InUseOrder`),
with their times (`RightlyTimed`), and a key that is gone although it was
used after one that is there has expired (`RightlyGone`). Lemmas
say what removing (`Removing`, `Thinning`), assigning and evicting do to a sequence,
once for all operations.

### 4.3 The assumptions

The named ASSUMEs of the component modules, which TLC evaluates in every run on
them. Some say no more than that bounds and limits are numbers and `None` is not a
name. The others:

* `ThresholdsAssumption`, `ServerAssumption`: the bottom-out count is at least 1 (3 in
  the code).
* `RunAssumption`: a run has a step, junctions come before the last one, as every engine
  ends with a step that asks nothing; two or three tiles at each; at least one attempt.
* `RunsAssumption`: no run is empty; `PERFORM_ONE_IN` is at least 1 (`config/pacing.ts`).
* `StudyAssumption`: users and items are finite, the study has topics and none twice,
  enrolment is tried at least once.
* `ProgressAssumption`: accuracy and breadth count for every topic, thresholds are at least 1.
* `StreamAssumption`: the explanations are texts, the later fields are marked out of
  `Marks`, a piece has at least one symbol.
* `ClientAssumption`: levels are the four of the code.
* `ServiceAssumption`: time limits are at least 1.

### 4.4 Model-checked only

* Liveness: `RunMovesOn`, `MotionEnds`, `JudgedIsReported`, `Finishes`, and with them
  that a stream gives its final answer, the half of `KeepsContract` that
  `StreamImplementsContract` does not state. The prover has no rules for fairness.
* `Lessons`: its properties speak of every engine at once, each an algorithm with a
  reference definition and a proof of its own; and the searches on graphs and
  grids and the ladders are RECURSIVE operators, with which the arithmetic prover
  is not available. TLC runs every engine on every input within the bounds.
* `Practice`: tables, of which TLC looks at every case, and over them the same engines.

Where a theorem needs induction over data (sums of XP, rows kept by a filter,
symbols of a text) the library's induction theorems cannot be instantiated, since they
take an operator. The modules then use the absence of a least counterexample in a
set of numbers (`WFMin`), and show that the recursive function exists before they use
its equation (`Induction`, `KeepsExists`, `SumsExists`).

## 5. Disagreements

### 5.1 Refuted by a run

`lessons_rotation`, taken from `avlTree.ts:142-143` ("the one rotation that always
suffices to rebalance an AVL insert") and `avlTree.test.ts:114` ("sends duplicate
values right, per standard convention"): a value equal to the right child of an
unbalanced node went right below it (`avlTree.ts:187-191`), yet the case is chosen
by `value > node.right.value` (`:240`). RL is chosen, the child has no left child, and
the rotation throws. Inserting 1, 2, 2 does it, and so does the interface's Insert
with a value of the tree (`AlgorithmControls.tsx:153`, `:759`). In `lessons` such
inserts end the run where the code throws.

The rest of this section was met while modelling. The model does what the code
does, and where a property would fail the case is excepted by name.

### 5.2 Misconceptions, playback and page

* Two detections may both look before either creates, so that two events of one
  category are active (`misconceptionEvent.service.ts:145`, against `:130-133`).
* A probe let in on a status read earlier is evaluated against a closed event
  (`:214`, against `:215-217`).
* The tick of an answer can write the old status back over the resolution its
  probe brought (`:266`; in the client `useMisconceptionStore.ts:144`, against
  `:91-92`).
* The report of a wrong answer that arrives after "Show me the answer" raises the
  retry flag again; the flag hides the Quick Check, for which the run waits
  without limit (`AlgorithmPage.tsx:1109`, `useMisconceptionStore.ts:66-69`).
* Continue and the automatic advance can both step (`PredictionZone.tsx:582`,
  against `:336-341`).
* A check that outlasts its wait raises a Quick Check during the reading hold, and
  the run advances under it.
* A junction stepped away from and back to is handled for whichever of its first
  attempts is reported first.
* A change of speed on a junction's step of a demonstration freezes it while it
  shows Pause (`useAlgorithmStore.ts:397`, against `:369-371`).
* A new array cancels the auto-advance and leaves `autoAdvancing` on
  (`useAlgorithmStore.ts:340`, against `:20-22`).
* Play does nothing on a junction's step in Demo mode, where `startPlayback`'s
  comment says it goes straight through.
* `isWorkedStep` works every conceptual junction after the first of its type, where
  `config/pacing.ts` says they are never worked.
* `presentRemediation` writes REMEDIATED whatever the status is. This is no
  contradiction: `ClosedOnlyReopenedByTask` states that it is the only handler,
  one at a time, that changes a closed event.

### 5.3 API

* Overlapping enrolments of one user draw the code and the Classic topic again
  (`study.service.ts:251`), which the comment near `:236` says never happens.
  Deleting an account frees its ordinal. Overlapping consents move `consentAt`;
  overlapping SUS submissions overwrite.
* A session's mode is read before its consent; the two can belong to different
  moments. A response that arrives after the completion of its attempt leaves
  `totalScore` stale.
* Overlapping recomputations clear `masteredAt`, which `mastery.service.ts:55-56`
  calls "never cleared". Two sign-ins at once count a day twice, and a streak read
  before midnight is written after it.

### 5.4 Feedback

* The SDK's default retries apply to the first model call
  (`claude_service.py:29-33`, `:197`), so that a request can take longer than one
  call and the retry budget; `TimeIsBounded` bounds it with them.
* The relay's comment (`ai.service.ts`, near line 146) has the client keep a partial
  explanation; the client discards it.
* LOW's first sentence (`predictionJunction.ts:1-5`) ends at any ".", so at
  "3.5" too. Removing dashes from each piece by itself leaves a double space
  where a dash is at an edge.
* A failed `evaluatePrediction` leaves `isSubmitting` on; when the JSON fallback
  fails the report is lost. `JudgedIsReported` is of answers that were judged.

### 5.5 Engines, tiles and grading

Questions on which the programs disagree, with each other or with what is so
(`Disputed` and `Ungraded` where a property would fail):

* Shell Sort's GAP_COMPARISON: grader and label use `array[keyIndex]`, stale after a
  shift ([2,3,1]).
* HEAP_EXTRACT: the tile marked right is `extract-root` (`tileBuilder.ts:1600`),
  the grader accepts `extract` (`predictions.py:183-184`).
* PREFIX_CELL, RANGE_QUERY, STACK_DISCHARGE, COMBINE_RESULT, GREEDY_CHOICE, DP_CELL and
  PRUNE_BRANCH have tiles and no branch of `evaluate_answer`: every answer is
  wrong.
* Jump Search's MIDPOINT_DECISION has no `mid`: always wrong for the grader.
* Hash chaining's Search and Delete: HASH_BUCKET has no hash result, so bucket 0 is
  marked while the grader wants `bucket-None`.
* GRID_NEXT_CELL of DFS and BFS is graded by the least cost so far; the option
  'rule-correct' cannot be reached.
* PASS_COMPLETE's right text is false of Selection and Insertion Sort, and Merge
  Sort's last pass marks as wrong "entire array sorted", which is so.
* Lists: Search and Delete ask whether the node matches, and offer which node
  follows; DLL DELETE_RELINK is "two" at head and tail too; inserting in front of
  an empty list marks `null`, and the current head is `null` as well; CLL's
  traversal stops by count while that option is marked wrong.
* AVL and red-black Delete ask for a direction at the node being removed; the
  red-black options of a delete do not fit `fixupDelete`.
* BELLMAN's last pass marks "continue" when none follows; WINDOW_EXPAND marks
  "expand" at the last element. `found`, `no-solution`, `stop` are never right;
  NEW_MINIMUM, RANGE_DOUBLE and PRUNE_BRANCH are asked only where the answer is
  yes. Fibonacci's "Roughly 2^n" is marked although naive calls are 2F(n+1)-1.
* INSERT_POSITION has no right option where the place two further on is outside the
  array; BFS's NEXT_NODE can have a single option.

Labels that read out values (`EqualValues`) coincide where the values do:
INDEX_ACCESS, INSERT_POSITION, DELETE_SHIFT, the stack's, QUEUE_FRONT,
POINTER_FOLLOW, TRAVERSE_DIRECTION, WINDOW_SUM, WINDOW_EXPAND; JUMP_SIZE shows "2" twice
for four elements and "4" twice for sixteen; COMBINE_RESULT shows the left half
twice whenever it is best; a list's first node has "previous node" and `null`.
Heap ties accept either child (`EquallyGood`).

Runs:

* An emptied queue wastes -1, and a last dequeue after LOAD_FACTOR, like linear
  probing's load factor before the last key, leaves no final step; the interface
  does neither. Hash insert finds its final step by value: a last key that
  occurred before ends early (`AlgorithmPage.tsx:727` saves the completion then;
  excepted in `FinalIsLast`). `hashDeleteChaining` drops the size by one when it
  removes every equal entry.
* Prim on the directed preset 'medium-weighted' costs 37 where 35 is possible
  (`GraphControls`, near `AlgorithmControls.tsx:1122`); cycle detection with
  "Directed" off finds none in the preset made for it; components depend on the
  order of directed edges. `MCLessons` gives each engine the graphs it is meant for.
  Comments in `graphPresets.ts` name a cycle and two costs that its graphs do
  not have.
* "Generate maze" keeps the board's start and end, which in the default boards are
  always walls, so that the next search refuses (`gridAlgorithms.ts:176-185`).
  `gridAlgorithms.ts`, near line 22, says only Dijkstra and A* pause; near 230, all four.
* Sliding windows of targets up to 0 keep an empty window, and negative values break
  the claim; a window size with a fraction reads past the array; dp2D of other than
  two words falls back to its example. `MCLessons` keeps to positive strips and goals.
* AVL's comment has the ancestors of a rotation unchecked; the recursion checks and
  asks at each.

* Array Insert's ladder: an insert at the end shifts nothing, so rungs 2 and 3, which
  ask for the array with a gap and for the value in it, have an answer that the
  program they ask for does not give. After linear probing's Delete of a present key,
  rung 4 rebuilds the table from the keys left, which may then lie elsewhere than in
  the run (`Unpassable`). `codeLadders.solutions.ts:9-12` says of its check that "Without
  that, a rung whose expected answer disagrees with the code a student is being asked
  to write would be found by the student"; the check takes one run per topic.

### 5.6 Practice

* Insertion and Shell Sort's code question takes for right the next snapshot whose
  array differs (`codeChallenges.ts:208-216`, `:644-653`, `:943-953`), i.e. the array
  with a value shifted and the key not yet put back: [5,2,8,1,9] gives
  [5,5,8,1,9], and the code the prompt asks for is marked wrong. The accepted code
  seeds a run without the key's value (`LosesAValue`).
* Collapsing the panel resets the fields while the run stays, and unmounts the
  challenge generator, so that the mastery's offer of a challenge does nothing
  (`LeftPanel.tsx:129-131`). AI Challenge and code's re-seed change the run and not the
  fields, contrary to `applyInput.ts:4-7`; `BoxTellsTheRun` is of the controls'
  own runs.
* A re-seed waits 500 ms, and overwrites whatever is on screen when they have
  passed. Only three topics re-seed, where `codeModeAdvance.ts` says all but one.
* Custom arrays of linear and binary search hunt the default target, contrary to
  `registry.ts:91-104`; the panels of two pointers, fixed window, jump,
  interpolation and exponential search and Bellman-Ford hold other values than the
  run they open on. Apply of a graph, Topological's Re-run and the maze land on
  'result', contrary to `useApply`'s comment. `runFor.ts:72-76` says no caller passes
  a mode; two do.
* The cap on challenges is reset by a session's late creation, and never where that
  fails; until then the store has the previous topic's session. Restarting a
  challenge's run counts its first attempts again; all Code Mode submissions have
  attempt 1; CHALLENGE_ATTEMPT is logged after the framing, if there was a session
  at the start. A refused result is written again at the next visit to the final
  step only. A challenge's hint stays up to 5 s over another run.
* NEW_INPUT is offered to Floyd-Warshall, whose run has no input;
  `ArrayOperationControls` listens to APPLY_INPUT where it cannot come.
* Binary search's absent target does not always take "the most probes the array can
  need" (two of three, between the third and fourth of five); the explanation of
  "balanced" says two orders differ that are equal.
* A Quick Check of binary search says the middle is 15 where it is 11 (`Misstated`);
  Quick Checks ask the conceptual questions of test items, contrary to
  `remediationTasks.ts:36-37` (its test compares arrays only); options c and d of
  bubble sort's item 2 say the same, as do two of binary search's item 6. Skip
  after the reveal stores a wrong answer as skipped.

## 6. Not modelled, and why

* *No state a model would add to:* research export, agreement and analytics (queries
  and statistics over rows), theory texts, prompts and rule tables, drawing and
  layout, type declarations, token checks (the identity provider's).
* *One write, or one call and a fallback:* preferences, topic lists, the demo
  accounts' limits, the endpoints for summaries, hints and Feynman explanations.
* *Parts of modelled components:* hints, self-explanation prompts, hands-on gestures
  and the evaluation of code on the page; most of Code Mode's single questions
  (`codeChallenges.ts`); of its ladders the prompts, the starter code, the Java
  variants and the count of Fibonacci's repeated calls; the wording of narration and the
  pseudocode line; walls painted on a grid; loading events at page start; numbers
  with a fraction in number fields; the array-based `bfs.ts:88-202`, which nothing
  runs.

What is left of the plan, in order:

1. `EventLifecycle`: the life of one event as promised, implemented by
   `MisconceptionEvents` with one request at a time.
2. The engines that are single loops (searches in arrays, the quadratic sorts): their
   results proved for inputs of any length.
3. Code Mode: each question against the snapshot it is drawn from.

## 7. Running

    tlc -workers 2 -config EventsConcurrent.cfg MCMisconceptionEvents
    tlc -workers 2 -config FeedbackClient.cfg FeedbackClient
    tlapm MisconceptionEventsProofs.tla
    tlapm LoopProofs.tla
    tlapm PlaybackProofs.tla
    tlapm StudyProofs.tla
    tlapm ProgressProofs.tla
    tlapm FeedbackClientProofs.tla
    tlapm FeedbackStreamProofs.tla
    tlapm FeedbackServiceProofs.tla

The module and configuration of each run are in `PROJECT.json`. Every run ends within
five minutes (`loop` takes longest); each proof module takes a few minutes.
