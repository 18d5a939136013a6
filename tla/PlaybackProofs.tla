--------------------------- MODULE PlaybackProofs ---------------------------
(***************************************************************************)
(* Theorems about Playback, for every set of runs, every table of levels   *)
(* and every number of operations.                                         *)
(***************************************************************************)
EXTENDS Playback, TLAPS

(***************************************************************************)
(* What keeps the auto-advance from a junction. Only the step that lands   *)
(* on a step sets the timer, so it is never set on the first one, where    *)
(* SetScaffoldingLevel can still change what is asked of the student; and  *)
(* everything else that can turn the step shown into a live junction (a    *)
(* new run, another focus, leaving the Classic condition) clears it.       *)
(***************************************************************************)
TimerAwayFromJunction ==
  autoAdvanceTimer => stepIndex > 1 /\ ~isLiveJunctionAt(stepIndex)

Inv == OneDriverShown /\ TimerAwayFromJunction

\* A run that can be loaded has a first and a last step.
LEMMA RunsAreNotEmpty ==
  ASSUME NEW array \in Runs
  PROVE  Len(array) \in Nat /\ 1 \in 1..Len(array) /\ Len(array) \in 1..Len(array)
<1>1. array \in Seq(Snapshot) /\ array # <<>>
  BY RunsAssumption
<1>2. Len(array) \in Nat /\ Len(array) # 0
  BY <1>1
<1>. QED BY <1>2

LEMMA InvInit == Init => Inv
<1> SUFFICES ASSUME Init PROVE Inv
  OBVIOUS
<1>1. TypeOK
  BY RunsAreNotEmpty DEF Init, TypeOK, Final, Modes
<1>. QED BY <1>1 DEF Init, Inv, OneDriverShown, TimerAwayFromJunction

\* A step forward, by the student or by a timer, keeps the invariant: it is
\* the only thing that sets the auto-advance, on a step that is not live.
LEMMA ForwardKeepsInv ==
  ASSUME Inv, stepForward, UNCHANGED <<run, kind>>,
         UNCHANGED <<isPlaying, playbackInterval>>
  PROVE  Inv'
<1> USE DEF Inv, OneDriverShown, TypeOK, run, kind, levels
<1>1. CASE atEnd(stepIndex)
  <2>1. UNCHANGED <<stepIndex, levels, autoAdvancing, autoAdvanceTimer>>
    BY <1>1 DEF stepForward
  <2>2. isLiveJunctionAt(stepIndex)' <=> isLiveJunctionAt(stepIndex)
    BY <2>1 DEF isLiveJunctionAt, isWorkedStep, ConceptualOfType, Conceptual,
                Procedural, proceduralOrdinal, Final
  <2>. QED BY <2>1, <2>2 DEF Final, TimerAwayFromJunction
<1>2. CASE ~atEnd(stepIndex)
  <2>1. /\ stepIndex' = stepIndex + 1
        /\ segmentScaffoldingLevel' \in Levels
        /\ scaffoldingLevel' = scaffoldingLevel
        /\ scheduleNarrationAutoAdvance
    BY <1>2 DEF stepForward
  <2>2. stepIndex' \in 1..Final' /\ stepIndex' > 1
    <3>1. Final \in Nat
      BY RunsAreNotEmpty DEF Final
    <3>. QED BY <1>2, <2>1, <3>1 DEF atEnd, Final
  <2>3. /\ autoAdvanceTimer' \in BOOLEAN
        /\ autoAdvancing' = autoAdvanceTimer'
        /\ autoAdvanceTimer' => ~isPlaying /\ ~isLiveJunctionAt(stepIndex)'
    BY <2>1 DEF scheduleNarrationAutoAdvance
  <2>4. TypeOK'
    BY <2>1, <2>2, <2>3 DEF Final
  <2>5. TimerAwayFromJunction'
    BY <2>2, <2>3 DEF TimerAwayFromJunction
  <2>. QED BY <2>3, <2>4, <2>5
<1>. QED BY <1>1, <1>2

\* Starting playback keeps it too: on a live junction it stops the interval
\* and starts nothing, elsewhere it takes over from a pending auto-advance.
LEMMA StartKeepsInv ==
  ASSUME Inv, startPlayback, UNCHANGED <<run, stepIndex, kind, levels>>
  PROVE  Inv'
<1> USE DEF Inv, OneDriverShown, TypeOK, run, kind, levels, flags, timerAfterPlay
<1>1. isLiveJunctionAt(stepIndex)' <=> isLiveJunctionAt(stepIndex)
  BY DEF isLiveJunctionAt, isWorkedStep, ConceptualOfType, Conceptual,
         Procedural, proceduralOrdinal, Final
<1>2. CASE isLiveJunctionAt(stepIndex)
  BY <1>1, <1>2 DEF startPlayback, TimerAwayFromJunction, Final
<1>3. CASE ~isLiveJunctionAt(stepIndex)
  BY <1>1, <1>3 DEF startPlayback, TimerAwayFromJunction, Final
<1>. QED BY <1>2, <1>3

LEMMA InvStep == Inv /\ [Next]_vars => Inv'
<1> SUFFICES ASSUME Inv, [Next]_vars PROVE Inv'
  OBVIOUS
<1> USE DEF Inv, OneDriverShown
<1> DEFINE Quiet == ~autoAdvanceTimer' /\ ~playbackInterval'
<1>1. CASE StepForward
  BY <1>1, ForwardKeepsInv DEF StepForward
<1>2. CASE StepBackward
  <2>1. stepIndex' \in 1..Final'
    BY <1>2, RunsAreNotEmpty DEF StepBackward, TypeOK, run, Final
  <2>2. TypeOK'
    BY <1>2, <2>1 DEF StepBackward, TypeOK, run, kind, levels
  <2>. QED BY <1>2, <2>2 DEF StepBackward, TimerAwayFromJunction
<1>3. CASE AutoAdvanceFires
  <2>1. CASE atEnd(stepIndex)
    <3>1. TypeOK'
      BY <1>3, <2>1 DEF AutoAdvanceFires, TypeOK, run, kind, levels, Final
    <3>. QED BY <1>3, <2>1, <3>1 DEF AutoAdvanceFires, TimerAwayFromJunction
  <2>2. CASE ~atEnd(stepIndex)
    BY <1>3, <2>2, ForwardKeepsInv DEF AutoAdvanceFires
  <2>. QED BY <2>1, <2>2
<1>4. CASE PlaybackTick
  <2>1. CASE stopsAt(stepIndex)
    <3>1. /\ UNCHANGED <<run, kind, stepIndex, levels, autoAdvancing, autoAdvanceTimer>>
          /\ ~playbackInterval' /\ ~isPlaying'
          /\ playbackInterval' \in BOOLEAN /\ isPlaying' \in BOOLEAN
      BY <1>4, <2>1 DEF PlaybackTick
    <3>2. TypeOK'
      BY <3>1 DEF TypeOK, run, kind, levels, Final
    <3>3. isLiveJunctionAt(stepIndex)' <=> isLiveJunctionAt(stepIndex)
      BY <3>1 DEF isLiveJunctionAt, isWorkedStep, ConceptualOfType, Conceptual,
                  Procedural, proceduralOrdinal, Final, run, kind, levels
    <3>. QED BY <3>1, <3>2, <3>3 DEF TimerAwayFromJunction
  <2>2. CASE ~stopsAt(stepIndex)
    BY <1>4, <2>2, ForwardKeepsInv DEF PlaybackTick
  <2>. QED BY <2>1, <2>2
<1>5. CASE Play
  BY <1>5, StartKeepsInv DEF Play
<1>6. CASE Pause
  <2>1. TypeOK'
    BY <1>6 DEF Pause, TypeOK, run, kind, levels, Final
  <2>. QED BY <1>6, <2>1 DEF Pause, TimerAwayFromJunction
<1>7. CASE SetPlaybackSpeed
  <2>1. CASE isPlaying
    BY <1>7, <2>1, StartKeepsInv DEF SetPlaybackSpeed
  <2>2. CASE ~isPlaying
    <3>1. UNCHANGED <<run, stepIndex, kind, levels, flags, timers>>
      BY <1>7, <2>2 DEF SetPlaybackSpeed
    <3>2. TypeOK' /\ (isLiveJunctionAt(stepIndex)' <=> isLiveJunctionAt(stepIndex))
      BY <3>1 DEF TypeOK, isLiveJunctionAt, isWorkedStep, ConceptualOfType, Conceptual,
                  Procedural, proceduralOrdinal, Final, run, kind, levels, flags, timers
    <3>. QED BY <3>1, <3>2 DEF TimerAwayFromJunction, flags, timers
  <2>. QED BY <2>1, <2>2
<1>8. ASSUME NEW types, Restart(types) PROVE Inv'
  <2>1. Quiet
    BY <1>8 DEF Restart, AllStopped
  <2>2. 1 \in 1..Final'
    BY <1>8, RunsAreNotEmpty DEF Restart, TypeOK, Final
  <2>3. TypeOK'
    BY <1>8, <2>2 DEF Restart, AllStopped, TypeOK, kind
  <2>. QED BY <2>1, <2>3 DEF TimerAwayFromJunction
<1>9. ASSUME NEW m \in Modes, SetMode(m) PROVE Inv'
  <2>1. Quiet
    BY <1>9 DEF SetMode, AllStopped
  <2>2. TypeOK'
    BY <1>9 DEF SetMode, AllStopped, TypeOK, run, levels, Final
  <2>. QED BY <2>1, <2>2 DEF TimerAwayFromJunction
<1>10. ASSUME NEW array \in Runs, NEW landOn \in 1..Len(array), SetAlgorithm(array, landOn)
       PROVE  Inv'
  <2>1. Quiet
    BY <1>10 DEF SetAlgorithm, AllStopped
  <2>2. TypeOK'
    BY <1>10 DEF SetAlgorithm, AllStopped, TypeOK, kind, Final
  <2>. QED BY <2>1, <2>2 DEF TimerAwayFromJunction
<1>11. ASSUME NEW array \in Runs, OpenTopic(array) PROVE Inv'
  <2>1. Quiet
    BY <1>11 DEF OpenTopic, AllStopped
  <2>2. 1 \in 1..Final'
    BY <1>11, RunsAreNotEmpty DEF OpenTopic, Final
  <2>3. mode' \in Modes /\ autoAdvancing' \in BOOLEAN /\ fadingEnabled' \in BOOLEAN
    BY <1>11 DEF OpenTopic, TypeOK
  <2>4. TypeOK'
    BY <1>11, <2>2, <2>3 DEF OpenTopic, AllStopped, TypeOK
  <2>. QED BY <2>1, <2>4 DEF TimerAwayFromJunction
<1>12. ASSUME NEW on \in BOOLEAN, SetClassicMode(on) PROVE Inv'
  <2>1. Quiet
    BY <1>12 DEF SetClassicMode
  <2>2. mode' \in Modes /\ isPlaying' \in BOOLEAN /\ fadingEnabled' \in BOOLEAN
    BY <1>12 DEF SetClassicMode, TypeOK, Modes
  <2>3. TypeOK'
    BY <1>12, <2>2 DEF SetClassicMode, TypeOK, run, levels, Final
  <2>. QED BY <2>1, <2>3 DEF TimerAwayFromJunction
<1>13. ASSUME NEW level \in Levels, SetScaffoldingLevel(level) PROVE Inv'
  <2>1. UNCHANGED <<run, stepIndex, kind, flags, timers>>
    BY <1>13 DEF SetScaffoldingLevel
  <2>2. TypeOK'
    BY <1>13 DEF SetScaffoldingLevel, TypeOK, run, kind, flags, timers, Final
  <2>3. CASE autoAdvanceTimer
    <3>1. segmentScaffoldingLevel' = segmentScaffoldingLevel
      BY <1>13, <2>3 DEF SetScaffoldingLevel, TimerAwayFromJunction, TypeOK
    <3>2. isLiveJunctionAt(stepIndex)' <=> isLiveJunctionAt(stepIndex)
      BY <2>1, <3>1 DEF isLiveJunctionAt, isWorkedStep, ConceptualOfType, Conceptual,
                        Procedural, proceduralOrdinal, Final, run, kind
    <3>. QED BY <2>1, <2>2, <3>2 DEF TimerAwayFromJunction, flags, timers
  <2>4. CASE ~autoAdvanceTimer
    BY <2>1, <2>2, <2>4 DEF TimerAwayFromJunction, flags, timers
  <2>. QED BY <2>3, <2>4
<1>14. CASE UNCHANGED vars
  <2>1. TypeOK' /\ (isLiveJunctionAt(stepIndex)' <=> isLiveJunctionAt(stepIndex))
    BY <1>14 DEF vars, TypeOK, isLiveJunctionAt, isWorkedStep, ConceptualOfType, Conceptual,
                 Procedural, proceduralOrdinal, Final, run, kind, levels, flags, timers
  <2>. QED BY <1>14, <2>1 DEF TimerAwayFromJunction, vars, flags, timers
<1>15. CASE \E array \in Runs : SetAlgorithm(array, 1) \/ SetAlgorithm(array, Len(array))
  BY <1>10, <1>15, RunsAreNotEmpty
<1>. QED
  BY <1>1, <1>2, <1>3, <1>4, <1>5, <1>6, <1>7, <1>8, <1>9, <1>11, <1>12, <1>13, <1>14, <1>15
  DEF Next, Reset, StartFocusedRun

LEMMA InvCorrect == Spec => []Inv
BY InvInit, InvStep, PTL DEF Spec

\* Every state is of its type, playback and the auto-advance never drive the
\* run together, and a timer is never set without the transport showing
\* Pause, whatever the student and the page do between two ticks.
THEOREM OneDriver == Spec => []OneDriverShown
<1>1. Inv => OneDriverShown
  BY DEF Inv
<1>. QED BY <1>1, InvCorrect, PTL

\* No timer takes the run past a junction the student has to answer: the
\* interval looks before it steps, and the auto-advance is never pending on
\* a live junction.
LEMMA TimersStopAtJunctions == Inv /\ [Next]_vars => NeverPastJunction
<1> SUFFICES ASSUME Inv, AutoAdvanceFires \/ PlaybackTick, mode \in Interactive,
                    isLiveJunctionAt(stepIndex)
             PROVE  stepIndex' = stepIndex
  BY DEF NeverPastJunction
<1>1. ~AutoAdvanceFires
  BY DEF Inv, TimerAwayFromJunction, AutoAdvanceFires
<1>2. stopsAt(stepIndex)
  BY DEF stopsAt, pausesIn
<1>. QED BY <1>1, <1>2 DEF PlaybackTick

\* The level in force changes only where a segment ends, on the first step
\* or with a new run.
LEMMA LevelHoldsInSegment == [Next]_vars => DemandChangesAtBoundary
<1> SUFFICES ASSUME [Next]_vars, segmentScaffoldingLevel' # segmentScaffoldingLevel
             PROVE  \/ Conceptual(stepIndex) /\ stepIndex' = stepIndex + 1
                    \/ stepIndex' = 1 \/ stepIndex = 1
                    \/ \E array \in Runs : SetAlgorithm(array, Len(array))
  BY DEF DemandChangesAtBoundary
<1>1. ASSUME stepForward PROVE Conceptual(stepIndex) /\ stepIndex' = stepIndex + 1
  BY <1>1 DEF stepForward, endsSegment, levels
<1>2. CASE StepForward \/ AutoAdvanceFires \/ PlaybackTick
  BY <1>1, <1>2 DEF StepForward, AutoAdvanceFires, PlaybackTick, levels
<1>3. ~(StepBackward \/ Play \/ Pause \/ SetPlaybackSpeed)
  BY DEF StepBackward, Play, Pause, SetPlaybackSpeed, levels
<1>4. CASE Reset \/ StartFocusedRun
  BY <1>4 DEF Reset, StartFocusedRun, Restart
<1>5. ~ \E m \in Modes : SetMode(m)
  BY DEF SetMode, levels
<1>6. CASE \E array \in Runs : \/ SetAlgorithm(array, 1)
                               \/ SetAlgorithm(array, Len(array))
                               \/ OpenTopic(array)
  <2>1. ASSUME NEW array, SetAlgorithm(array, 1) PROVE stepIndex' = 1
    BY <2>1 DEF SetAlgorithm
  <2>2. ASSUME NEW array, OpenTopic(array) PROVE stepIndex' = 1
    BY <2>2 DEF OpenTopic
  <2>. QED BY <1>6, <2>1, <2>2
<1>7. ~ \E on \in BOOLEAN : SetClassicMode(on)
  BY DEF SetClassicMode, levels
<1>8. CASE \E level \in Levels : SetScaffoldingLevel(level)
  BY <1>8 DEF SetScaffoldingLevel
<1>9. ~ UNCHANGED vars
  BY DEF vars, levels
<1>. QED BY <1>2, <1>3, <1>4, <1>5, <1>6, <1>7, <1>8, <1>9 DEF Next

\* No step of a timer or a button breaks the rules of a practised run: a
\* timer leaves a live junction where it is, and what is asked of the
\* student changes only at a boundary.
THEOREM RulesKept == Spec => RunKeepsItsRules
<1>1. Inv /\ [Next]_vars => [NeverPastJunction /\ DemandChangesAtBoundary]_vars
  BY TimersStopAtJunctions, LevelHoldsInSegment
<1>. QED BY <1>1, InvCorrect, PTL DEF Spec, RunKeepsItsRules
============================================================================
