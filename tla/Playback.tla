------------------------------ MODULE Playback ------------------------------
(***************************************************************************)
(* The run a student watches or practises: useAlgorithmStore of the web    *)
(* client, with its two timers. Playback's interval drives a run at the    *)
(* chosen speed; in Practice mode a one-shot timer moves on from a step    *)
(* that is only narration. The timers live outside the store: what the     *)
(* store says of them (isPlaying, autoAdvancing) is state of its own.      *)
(***************************************************************************)
EXTENDS Integers, Sequences, FiniteSets

CONSTANTS
  Runs,          \* the snapshot arrays that can be loaded
  PERFORM_ONE_IN, \* by scaffolding level: one in how many steps is performed
  StudyRuns,     \* those a study topic opens with: their junctions fade
  MaxOperations  \* bound: operations of the student and the page

Levels == DOMAIN PERFORM_ONE_IN
Modes == {"DEMO", "PRACTICE", "HANDS_ON"}
Interactive == {"PRACTICE", "HANDS_ON"}

\* A snapshot is narration only, or a prediction of some junction type.
Snapshot == [type: STRING, difficulty: {"PROCEDURAL", "CONCEPTUAL", "NONE"}]
isPredictionRequired(s) == s.difficulty # "NONE"

ASSUME RunsAssumption ==
  /\ Runs \subseteq Seq(Snapshot) \ {<<>>}
  /\ StudyRuns \subseteq Runs
  /\ PERFORM_ONE_IN \in [Levels -> Nat \ {0}]
  /\ MaxOperations \in Nat

VARIABLES
  snapshotArray, stepIndex, \* the run and the step shown, counted from 1
  mode, classicMode, fadingEnabled,
  scaffoldingLevel, segmentScaffoldingLevel,
  focusJunctionTypes,
  isPlaying, autoAdvancing,           \* what the store says
  playbackInterval, autoAdvanceTimer, \* whether the timers are really set
  operations                          \* operations so far

timers == <<playbackInterval, autoAdvanceTimer>>
flags == <<isPlaying, autoAdvancing>>
levels == <<scaffoldingLevel, segmentScaffoldingLevel>>
kind == <<mode, classicMode, fadingEnabled>>
run == <<snapshotArray, focusJunctionTypes>>
vars == <<run, stepIndex, kind, levels, flags, timers, operations>>

----------------------------------------------------------------------------
(* Deliberately wrong variants of definitions below; no action uses one.   *)

\* startPlayback leaving a pending auto-advance alone.
TimerKept == autoAdvanceTimer

\* Stops at the junctions of Practice mode only.
PracticeOnly == {"PRACTICE"}

\* The level in force follows the student's at every step.
EndsEverywhere(index) == TRUE

\* The end of the run noticed one step late.
AtEndLate(index) == index > Len(snapshotArray)

----------------------------------------------------------------------------
(* Which steps are asked, and which are worked through                     *)

Final == Len(snapshotArray)
atEnd(index) == index >= Final

Procedural(index) == snapshotArray[index].difficulty = "PROCEDURAL"
Conceptual(index) == snapshotArray[index].difficulty = "CONCEPTUAL"

proceduralOrdinal(index) ==
  Cardinality({i \in 1..(index - 1) : Procedural(i)})

\* The conceptual junctions of a type. The first of them is asked, every
\* other step of the type is worked.
ConceptualOfType(type) ==
  {i \in 1..Final : Conceptual(i) /\ snapshotArray[i].type = type}

isWorkedStep(index) ==
  LET type == snapshotArray[index].type
      conceptual == ConceptualOfType(type)
      every == PERFORM_ONE_IN[segmentScaffoldingLevel]
  IN /\ type \notin focusJunctionTypes
     /\ IF conceptual # {}
        THEN index \notin conceptual \/ \E i \in conceptual : i < index
        ELSE /\ Procedural(index)
             /\ every > 1
             /\ proceduralOrdinal(index) % every # every - 1

isWorkedStepAt(index) == ~classicMode /\ fadingEnabled /\ isWorkedStep(index)

isLiveJunctionAt(index) ==
  /\ ~classicMode
  /\ isPredictionRequired(snapshotArray[index])
  /\ ~(fadingEnabled /\ isWorkedStep(index))

endsSegment(index) == Conceptual(index)

----------------------------------------------------------------------------
(* Steps and timers                                                        *)

Init ==
  /\ snapshotArray \in Runs
  /\ stepIndex = 1
  /\ mode = "DEMO"
  /\ classicMode = FALSE
  /\ fadingEnabled = FALSE
  /\ scaffoldingLevel \in Levels
  /\ segmentScaffoldingLevel = scaffoldingLevel
  /\ focusJunctionTypes = {}
  /\ isPlaying = FALSE
  /\ autoAdvancing = FALSE
  /\ playbackInterval = FALSE
  /\ autoAdvanceTimer = FALSE
  /\ operations = 0

Operation == operations < MaxOperations /\ operations' = operations + 1

\* scheduleNarrationAutoAdvance, on the step landed on. The level in force
\* there is the new one: the step is judged on the state after the step.
scheduleNarrationAutoAdvance ==
  LET advances == /\ mode = "PRACTICE" /\ ~isPlaying
                  /\ ~atEnd(stepIndex')
                  /\ ~isLiveJunctionAt(stepIndex)'
  IN autoAdvanceTimer' = advances /\ autoAdvancing' = advances

\* stepForward: nothing at all on the final step.
stepForward ==
  IF atEnd(stepIndex)
  THEN UNCHANGED <<stepIndex, levels, autoAdvancing, autoAdvanceTimer>>
  ELSE /\ stepIndex' = stepIndex + 1
       /\ segmentScaffoldingLevel' = IF endsSegment(stepIndex)
                                     THEN scaffoldingLevel
                                     ELSE segmentScaffoldingLevel
       /\ UNCHANGED scaffoldingLevel
       /\ UNCHANGED <<run, kind>>
       /\ scheduleNarrationAutoAdvance

StepForward ==
  /\ Operation
  /\ UNCHANGED <<run, kind>>
  /\ stepForward
  /\ UNCHANGED <<isPlaying, playbackInterval>>

StepBackward ==
  /\ Operation
  /\ stepIndex > 1
  /\ stepIndex' = stepIndex - 1
  /\ autoAdvanceTimer' = FALSE /\ autoAdvancing' = FALSE
  /\ UNCHANGED <<run, kind, levels, isPlaying, playbackInterval>>

\* The one-shot timer fires. A step forward schedules the next one.
AutoAdvanceFires ==
  /\ autoAdvanceTimer
  /\ UNCHANGED <<run, kind>>
  /\ IF atEnd(stepIndex)
     THEN /\ autoAdvanceTimer' = FALSE /\ autoAdvancing' = FALSE
          /\ UNCHANGED <<stepIndex, levels>>
     ELSE stepForward
  /\ UNCHANGED <<isPlaying, playbackInterval, operations>>

\* Modes in which playback pauses at a junction.
pausesIn == Interactive

\* Playback forgetting to stop at the end (a variant, not used).
StopsAtJunctionsOnly(index) == mode \in Interactive /\ isLiveJunctionAt(index)

stopsAt(index) == atEnd(index) \/ (mode \in pausesIn /\ isLiveJunctionAt(index))

\* The interval's callback.
PlaybackTick ==
  /\ playbackInterval
  /\ UNCHANGED <<run, kind>>
  /\ IF stopsAt(stepIndex)
     THEN /\ playbackInterval' = FALSE /\ isPlaying' = FALSE
          /\ UNCHANGED <<stepIndex, levels, autoAdvancing, autoAdvanceTimer>>
     ELSE stepForward /\ UNCHANGED <<isPlaying, playbackInterval>>
  /\ UNCHANGED operations

\* What becomes of a pending auto-advance when playback starts.
timerAfterPlay == FALSE

\* startPlayback clears the interval first and then returns early on a live
\* junction, leaving isPlaying as it was.
startPlayback ==
  IF isLiveJunctionAt(stepIndex)
  THEN playbackInterval' = FALSE /\ UNCHANGED <<flags, autoAdvanceTimer>>
  ELSE /\ playbackInterval' = TRUE /\ isPlaying' = TRUE
       /\ autoAdvanceTimer' = timerAfterPlay /\ autoAdvancing' = timerAfterPlay

\* The Space key; the transport's button starts playback only when nothing
\* moves and resets a run that is at its end.
Play ==
  /\ Operation
  /\ ~isPlaying
  /\ startPlayback
  /\ UNCHANGED <<run, stepIndex, kind, levels>>

Pause ==
  /\ Operation
  /\ isPlaying \/ autoAdvancing
  /\ playbackInterval' = FALSE /\ isPlaying' = FALSE
  /\ autoAdvanceTimer' = FALSE /\ autoAdvancing' = FALSE
  /\ UNCHANGED <<run, stepIndex, kind, levels>>

\* A new speed restarts the interval in place.
SetPlaybackSpeed ==
  /\ Operation
  /\ IF isPlaying THEN startPlayback ELSE UNCHANGED <<flags, timers>>
  /\ UNCHANGED <<run, stepIndex, kind, levels>>

----------------------------------------------------------------------------
(* Runs, modes and levels                                                  *)

AllStopped ==
  /\ playbackInterval' = FALSE /\ autoAdvanceTimer' = FALSE
  /\ isPlaying' = FALSE

\* resetAlgorithm, and startFocusedRun when types are given.
Restart(types) ==
  /\ Operation
  /\ AllStopped /\ autoAdvancing' = FALSE
  /\ stepIndex' = 1
  /\ segmentScaffoldingLevel' = scaffoldingLevel
  /\ focusJunctionTypes' = types
  /\ UNCHANGED <<snapshotArray, kind, scaffoldingLevel>>

Reset == Restart(focusJunctionTypes)
StartFocusedRun ==
  \E i \in 1..Final : /\ isPredictionRequired(snapshotArray[i])
                      /\ Restart({snapshotArray[i].type})

SetMode(m) ==
  /\ Operation
  /\ ~classicMode
  /\ AllStopped /\ autoAdvancing' = FALSE
  /\ mode' = m
  /\ UNCHANGED <<run, stepIndex, classicMode, fadingEnabled, levels>>

\* setAlgorithm clears the auto-advance timer and does not tell the store.
\* landOn is the first step, or the last for an operation's result.
SetAlgorithm(array, landOn) ==
  /\ Operation
  /\ AllStopped
  /\ snapshotArray' = array
  /\ stepIndex' = landOn
  /\ segmentScaffoldingLevel' = scaffoldingLevel
  /\ focusJunctionTypes' = {}
  /\ UNCHANGED <<kind, scaffoldingLevel, autoAdvancing>>

\* The page opens on another topic: outside Classic the mode is seeded anew
\* (which stops everything), then fading is set and the topic's run is loaded.
OpenTopic(array) ==
  /\ Operation
  /\ AllStopped
  /\ IF classicMode THEN UNCHANGED <<mode, autoAdvancing>>
     ELSE mode' \in Modes /\ autoAdvancing' = FALSE
  /\ fadingEnabled' = (array \in StudyRuns /\ ~classicMode)
  /\ snapshotArray' = array
  /\ stepIndex' = 1
  /\ segmentScaffoldingLevel' = scaffoldingLevel
  /\ focusJunctionTypes' = {}
  /\ UNCHANGED <<classicMode, scaffoldingLevel>>

\* setClassicMode, entering and leaving the Classic condition.
SetClassicMode(on) ==
  /\ Operation
  /\ playbackInterval' = FALSE /\ autoAdvanceTimer' = FALSE
  /\ classicMode' = on
  /\ IF on THEN mode' = "DEMO" /\ isPlaying' = FALSE /\ fadingEnabled' = FALSE
     ELSE UNCHANGED <<mode, isPlaying, fadingEnabled>>
  /\ UNCHANGED <<run, stepIndex, levels, autoAdvancing>>

SetScaffoldingLevel(level) ==
  /\ Operation
  /\ scaffoldingLevel' = level
  /\ segmentScaffoldingLevel' = IF stepIndex = 1 THEN level
                                ELSE segmentScaffoldingLevel
  /\ UNCHANGED <<run, stepIndex, kind, flags, timers>>

Next ==
  \/ StepForward \/ StepBackward
  \/ AutoAdvanceFires \/ PlaybackTick
  \/ Play \/ Pause \/ SetPlaybackSpeed
  \/ Reset \/ StartFocusedRun
  \/ \E m \in Modes : SetMode(m)
  \/ \E array \in Runs : \/ SetAlgorithm(array, 1)
                         \/ SetAlgorithm(array, Len(array))
                         \/ OpenTopic(array)
  \/ \E on \in BOOLEAN : SetClassicMode(on)
  \/ \E level \in Levels : SetScaffoldingLevel(level)

Spec == Init /\ [][Next]_vars

\* A timer that is set fires in the end.
FairSpec == Spec /\ WF_vars(AutoAdvanceFires) /\ WF_vars(PlaybackTick)

----------------------------------------------------------------------------
(* Properties                                                              *)

TypeOK ==
  /\ snapshotArray \in Runs
  /\ stepIndex \in 1..Final
  /\ mode \in Modes
  /\ {classicMode, fadingEnabled, isPlaying, autoAdvancing,
      playbackInterval, autoAdvanceTimer} \subseteq BOOLEAN
  /\ {scaffoldingLevel, segmentScaffoldingLevel} \subseteq Levels

\* Playback and the auto-advance never drive the run together (a pending
\* auto-advance must not also fire and cause a double step), and a timer is
\* never set without the transport showing Pause.
OneDriverShown ==
  /\ TypeOK
  /\ ~(playbackInterval /\ autoAdvanceTimer)
  /\ playbackInterval => isPlaying
  /\ autoAdvanceTimer => autoAdvancing

\* No timer takes the run past a junction the student still has to answer.
NeverPastJunction ==
  (AutoAdvanceFires \/ PlaybackTick) /\ mode \in Interactive /\ isLiveJunctionAt(stepIndex)
    => stepIndex' = stepIndex

\* What is asked of the student does not change in the middle of a segment:
\* the level in force changes only on leaving a conceptual junction, at the
\* first step, or with a new run.
DemandChangesAtBoundary ==
  segmentScaffoldingLevel' # segmentScaffoldingLevel =>
     \/ Conceptual(stepIndex) /\ stepIndex' = stepIndex + 1
     \/ stepIndex' = 1 \/ stepIndex = 1
     \/ \E array \in Runs : SetAlgorithm(array, Len(array))

\* A run that a timer drives comes to rest, at a junction or at its end.
MotionEnds ==
  (playbackInterval \/ autoAdvanceTimer) ~> ~(playbackInterval \/ autoAdvanceTimer)

\* No step of a timer or a button breaks the rules of a practised run.
RunKeepsItsRules == [][NeverPastJunction /\ DemandChangesAtBoundary]_vars

============================================================================
