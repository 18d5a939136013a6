----------------------------- MODULE LoopProofs -----------------------------
(***************************************************************************)
(* Theorems about MisconceptionLoop, for a run of any length with junctions *)
(* anywhere, any number of answers, events and categories, and every        *)
(* environment.  The server's part of each step is covered by the theorems  *)
(* about MisconceptionEvents, of which the loop makes a part of the calls.  *)
(***************************************************************************)
EXTENDS MisconceptionLoop, FiniteSetTheorems, TLAPS

Proved == INSTANCE MisconceptionEventsProofs

----------------------------------------------------------------------------
(* The invariant                                                           *)

\* Answers are numbered as they are submitted, at a junction; an answer that
\* is asked about without an event has a category to detect.
AnswersFit ==
  /\ Submitted = 1..Cardinality(Submitted)
  /\ \A n \in Submitted : answer[n].at \in Junctions
  /\ \A n \in Answers : answer[n].stage = "asked" /\ answer[n].event = None
       => answer[n].category \in Categories
  /\ \A n \in Answers : answer[n].stage = "replied" => answer[n].event \in Events

\* The answer is shown at the last attempt, after which there is no other.
ZoneFits ==
  zone.state = "idle" \/ (zone.state = "incorrect" /\ ~zone.revealed)
    => zone.attempts < MaxAttempts

Typed == TypeOK /\ Server!TypeOK /\ Proved!HistoryInv /\ AnswersFit /\ ZoneFits

\* A tick is sent when its answer is handled and then taken up once.
TicksOnce ==
  \A n \in Answers :
    /\ answer[n].stage \in {"none", "streaming", "logging"} =>
         n \notin ticks /\ req[Tick(n)].step = "idle"
    /\ n \in ticks => req[Tick(n)].step = "idle"

\* Answers that may still be counted against an event: whose detection or
\* probe the server has not written yet, and whose tick may yet reach e.
Pending == {n \in Answers : answer[n].stage \in {"asked", "serving"}}
Unticked(e) == {n \in Answers : n \in ticks \/ e \in req[Tick(n)].todo}

\* What was counted and what may still be is no more than the junctions the
\* loop acted on, one of which went into creating the event.
Counted ==
  /\ Cardinality(Pending) <= Cardinality(Handled)
  /\ \A e \in Events :
       /\ evidence[e].ticks + Cardinality(Unticked(e)) <= Cardinality(Handled)
       /\ rows[e].status = "NONE" => evidence[e].failures = 0
       /\ rows[e].status # "NONE" =>
            /\ evidence[e].evaluated + Cardinality(Pending) < Cardinality(Handled)
            /\ evidence[e].failures + Cardinality(Pending) < Cardinality(Handled)

\* A wrong answer that is not settled yet and may raise a Quick Check.
Unsettled(n) ==
  answer[n].stage \in InFlight \cup {"streaming"} /\ ~answer[n].correct

\* Undisturbed, the run stands where such an answer was given until it is
\* settled and its Quick Check is answered.
Calm ==
  /\ \A n \in Answers : Unsettled(n) =>
       /\ answer[n].at = position /\ zone.shown = position
       /\ Streaming(n) => n \in zone.reports
       /\ \A w \in Waiters : waits[w] \notin {"ready", "reading"}
       /\ Streaming(n) => \A w \in Waiters : waits[w] # "checks"
  /\ pendingRemediation # None =>
       /\ answer[pendingRemediation.raisedBy].stage # "none"
       /\ answer[pendingRemediation.raisedBy].at = position
       /\ \A w \in Waiters : waits[w] \notin {"ready", "reading"}
  /\ \A w \in Waiters : Waiting(w) =>
       zone.state = "correct" \/ (zone.state = "incorrect" /\ zone.revealed)
  /\ \A n \in Answers : zone.current = n /\ answer[n].bottomedOut =>
       zone.state = "incorrect" /\ zone.revealed

Inv == Typed /\ TicksOnce /\ Counted /\ (Undisturbed => Calm)

----------------------------------------------------------------------------
(* The server's part of a step                                             *)

\* The definitions that the loop takes from MisconceptionEvents are those the
\* theorems are about, so its handlers are steps that those theorems cover.
LEMMA SameState == Server!TypeOK <=> Proved!TypeOK
BY DEF Server!TypeOK, Proved!TypeOK, Server!Row, Proved!Row,
       Server!Request, Proved!Request, Server!Evidence, Proved!Evidence,
       Server!Answer, Proved!Answer, Server!Steps, Proved!Steps,
       Server!ACTIVE_STATUSES, Proved!ACTIVE_STATUSES,
       Server!ClosedStatuses, Proved!ClosedStatuses

LEMMA SameInit == Server!Init => Proved!Init
BY DEF Server!Init, Proved!Init, Server!NoRow, Proved!NoRow, Server!Idle,
       Proved!Idle, Server!NoEvidence, Proved!NoEvidence

\* The handlers the loop runs.
Handler(r) ==
  \/ \E t \in Topics, c \in Categories : Server!DetectFindActive(r, t, c)
  \/ Server!DetectFindPersistent(r)
  \/ Server!DetectCreate(r)
  \/ Server!DetectEscalate(r)
  \/ \E e \in Events, a \in Server!Answer : Server!ProbeRead(r, e, a)
  \/ Server!ProbeWrite(r)
  \/ \E t \in Topics : Server!TickRead(r, t)
  \/ Server!TickWrite(r)
  \/ \E e \in Events : Server!PresentRemediation(r, e)
  \/ Server!Fail(r)

LEMMA SameHandlers ==
  ASSUME NEW r \in Requests, Handler(r)
  PROVE  Proved!Next
<1>1. ASSUME NEW t \in Topics, NEW c \in Categories,
             Server!DetectFindActive(r, t, c)
      PROVE  Proved!Next
  <2>1. Proved!DetectFindActive(r, t, c)
    BY <1>1
       DEF Server!DetectFindActive, Proved!DetectFindActive,
           Server!Arrive, Proved!Arrive, Server!ActiveFor,
           Proved!ActiveFor, Server!Active, Proved!Active,
           Server!ACTIVE_STATUSES, Proved!ACTIVE_STATUSES, Server!ForKey,
           Proved!ForKey, Server!Local, Proved!Local, Server!Idle,
           Proved!Idle, Server!NoRow, Proved!NoRow, Server!Reading,
           Proved!Reading
  <2>. QED BY <2>1 DEF Proved!Next
<1>2. CASE Server!DetectFindPersistent(r)
  <2>1. Proved!DetectFindPersistent(r)
    BY <1>2
       DEF Server!DetectFindPersistent,
           Proved!DetectFindPersistent, Server!At, Proved!At,
           Server!PersistentFor, Proved!PersistentFor, Server!ForKey,
           Proved!ForKey, Server!Finish, Proved!Finish, Server!Local,
           Proved!Local, Server!Idle, Proved!Idle, Server!NoRow,
           Proved!NoRow
  <2>. QED BY <2>1 DEF Proved!Next
<1>3. CASE Server!DetectCreate(r)
  <2>1. Proved!DetectCreate(r)
    BY <1>3
       DEF Server!DetectCreate, Proved!DetectCreate,
           Server!At, Proved!At, Server!NoRow, Proved!NoRow,
           Server!Finish, Proved!Finish, Server!Local, Proved!Local,
           Server!Idle, Proved!Idle
  <2>. QED BY <2>1 DEF Proved!Next
<1>4. CASE Server!DetectEscalate(r)
  <2>1. Proved!DetectEscalate(r)
    BY <1>4
       DEF Server!DetectEscalate, Proved!DetectEscalate,
           Server!At, Proved!At, Server!Evaluated, Proved!Evaluated,
           Server!evaluateRepeatDetection, Proved!evaluateRepeatDetection,
           Server!evaluateProbe, Proved!evaluateProbe,
           Server!requiredConsecutiveCorrect,
           Proved!requiredConsecutiveCorrect, Server!Repeated,
           Proved!Repeated, Server!Finish, Proved!Finish, Server!Local,
           Proved!Local, Server!Idle, Proved!Idle, Server!NoRow,
           Proved!NoRow
  <2>. QED BY <2>1 DEF Proved!Next
<1>5. ASSUME NEW e \in Events, NEW a \in Server!Answer,
             Server!ProbeRead(r, e, a)
      PROVE  Proved!Next
  <2>1. Proved!ProbeRead(r, e, a)
    BY <1>5
       DEF Server!ProbeRead, Proved!ProbeRead, Server!Arrive,
           Proved!Arrive, Server!Active, Proved!Active,
           Server!ACTIVE_STATUSES, Proved!ACTIVE_STATUSES, Server!Local,
           Proved!Local, Server!Idle, Proved!Idle, Server!NoRow,
           Proved!NoRow, Server!Reading, Proved!Reading, Server!Finish,
           Proved!Finish
  <2>2. a \in Proved!Answer
    BY DEF Server!Answer, Proved!Answer
  <2>. QED BY <2>1, <2>2 DEF Proved!Next
<1>6. CASE Server!ProbeWrite(r)
  <2>1. Proved!ProbeWrite(r)
    BY <1>6
       DEF Server!ProbeWrite, Proved!ProbeWrite, Server!At,
           Proved!At, Server!ProbedRow, Proved!ProbedRow,
           Server!Evaluated, Proved!Evaluated, Server!evaluateProbe,
           Proved!evaluateProbe, Server!requiredConsecutiveCorrect,
           Proved!requiredConsecutiveCorrect, Server!probeCountWritten,
           Proved!probeCountWritten, Server!Probed, Proved!Probed,
           Server!Finish, Proved!Finish, Server!Local, Proved!Local,
           Server!Idle, Proved!Idle, Server!NoRow, Proved!NoRow
  <2>. QED BY <2>1 DEF Proved!Next
<1>7. ASSUME NEW t \in Topics,
             Server!TickRead(r, t)
      PROVE  Proved!Next
  <2>1. Proved!TickRead(r, t)
    BY <1>7
       DEF Server!TickRead, Proved!TickRead, Server!Arrive,
           Proved!Arrive, Server!ActiveOn, Proved!ActiveOn, Server!Active,
           Proved!Active, Server!ACTIVE_STATUSES, Proved!ACTIVE_STATUSES,
           Server!Finish, Proved!Finish, Server!Local, Proved!Local,
           Server!Idle, Proved!Idle, Server!NoRow, Proved!NoRow,
           Server!Reading, Proved!Reading
  <2>. QED BY <2>1 DEF Proved!Next
<1>8. CASE Server!TickWrite(r)
  <2>1. Proved!TickWrite(r)
    BY <1>8
       DEF Server!TickWrite, Proved!TickWrite, Server!At,
           Proved!At, Server!TickedRow, Proved!TickedRow,
           Server!shouldAbandonByJunctionCount,
           Proved!shouldAbandonByJunctionCount, Server!Ticked,
           Proved!Ticked, Server!Loop, Proved!Loop, Server!Finish,
           Proved!Finish, Server!Local, Proved!Local, Server!Idle,
           Proved!Idle, Server!NoRow, Proved!NoRow
  <2>. QED BY <2>1 DEF Proved!Next
<1>9. ASSUME NEW e \in Events,
             Server!PresentRemediation(r, e)
      PROVE  Proved!Next
  <2>1. Proved!PresentRemediation(r, e)
    BY <1>9
       DEF Server!PresentRemediation,
           Proved!PresentRemediation, Server!Arrive, Proved!Arrive
  <2>. QED BY <2>1 DEF Proved!Next
<1>10. CASE Server!Fail(r)
  <2>1. Proved!Fail(r)
    BY <1>10
       DEF Server!Fail, Proved!Fail, Server!Finish,
           Proved!Finish, Server!Local, Proved!Local, Server!Idle,
           Proved!Idle, Server!NoRow, Proved!NoRow
  <2>. QED BY <2>1 DEF Proved!Next
<1>. QED BY <1>1, <1>2, <1>3, <1>4, <1>5, <1>6, <1>7, <1>8, <1>9, <1>10 DEF Handler

LEMMA ServerInit == Server!Init => Server!TypeOK /\ Proved!HistoryInv
<1>1. Proved!Init => Proved!TypeOK /\ Proved!HistoryInv
  BY Proved!TypeInit, Proved!HistoryInit, ServerAssumption
     DEF Proved!ThresholdsAssumption, Proved!BoundAssumption, Proved!NoneAssumption
<1>. QED BY <1>1, SameInit, SameState

\* A handler keeps the server's invariants, whatever else the step does.
LEMMA ServerStep ==
  ASSUME Server!TypeOK, Proved!HistoryInv,
         UNCHANGED server \/ \E r \in Requests : Handler(r)
  PROVE  Server!TypeOK' /\ Proved!HistoryInv'
<1>1. Proved!TypeOK
  BY SameState
<1>2. [Proved!Next]_Proved!vars
  BY SameHandlers DEF server, Proved!vars
<1>3. Proved!TypeOK'
  BY <1>1, <1>2, Proved!TypeStep, ServerAssumption
     DEF Proved!ThresholdsAssumption, Proved!BoundAssumption, Proved!NoneAssumption
<1>4. Proved!HistoryInv'
  BY <1>1, <1>2, <1>3, Proved!HistoryStep, ServerAssumption
     DEF Proved!ThresholdsAssumption, Proved!BoundAssumption, Proved!NoneAssumption
<1>5. Server!TypeOK' <=> Proved!TypeOK'
  BY SameState, PTL
<1>. QED BY <1>3, <1>4, <1>5

----------------------------------------------------------------------------
(* Types                                                                   *)

AnswerRecord ==
  [stage: Stages, at: Junctions \cup {0}, correct: BOOLEAN,
   category: Categories \cup {None}, firstAttempt: BOOLEAN,
   bottomedOut: BOOLEAN, event: Events \cup {None},
   status: Server!ACTIVE_STATUSES \cup Server!ClosedStatuses \cup {"NONE"}]

LEMMA TopicExists == Topic \in Topics
BY ServerAssumption DEF Topic

LEMMA SlotsExist ==
  /\ \A n \in Answers : Check(n) \in Requests /\ Tick(n) \in Requests
  /\ <<"task", 0>> \in Requests
BY SlotsAssumption DEF Check, Tick

\* What the server does in a step is one of its handlers, called as it may be.
LEMMA ServedByHandlers ==
  ASSUME Typed, [Next]_vars
  PROVE  UNCHANGED server \/ \E r \in Requests : Handler(r)
<1>1. ASSUME NEW n \in Answers, ServeCheck(n)
      PROVE  Handler(Check(n))
  <2>0. answer[n] \in AnswerRecord
    BY DEF Typed, TypeOK, AnswerRecord
  <2>1. CASE answer[n].event = None
    <3>1. answer[n].category \in Categories
      BY <1>1, <2>1 DEF ServeCheck, Typed, AnswersFit
    <3>2. Server!DetectFindActive(Check(n), Topic, answer[n].category)
      BY <1>1, <2>1 DEF ServeCheck
    <3>. QED BY <3>1, <3>2, TopicExists DEF Handler
  <2>2. CASE answer[n].event # None
    <3> DEFINE asked == [optionCount |-> TileCount[answer[n].at],
                         correct |-> answer[n].correct, hintUsed |-> FALSE]
    <3>1. answer[n].at \in Junctions
      BY <1>1 DEF ServeCheck, Typed, AnswersFit, Submitted
    <3>2. asked \in Server!Answer
      BY <2>0, <3>1, RunAssumption DEF Server!Answer, AnswerRecord
    <3>3. Server!ProbeRead(Check(n), answer[n].event, asked)
      BY <1>1, <2>2 DEF ServeCheck
    <3>4. answer[n].event \in Events
      BY <2>0, <2>2 DEF AnswerRecord
    <3> HIDE DEF asked
    <3>. QED BY <3>2, <3>3, <3>4 DEF Handler
  <2>. QED BY <2>1, <2>2
<1>2. ASSUME NEW n \in Answers, ContinueCheck(n)
      PROVE  Handler(Check(n))
  BY <1>2 DEF ContinueCheck, Handler
<1>3. ASSUME NEW n \in Answers, ServeTick(n)
      PROVE  Handler(Tick(n))
  BY <1>3, TopicExists DEF ServeTick, Handler
<1>4. ASSUME ServeTask
      PROVE  Handler(<<"task", 0>>)
  BY <1>4 DEF ServeTask, Handler, Typed, TypeOK
<1>5. CASE \E n \in Answers : ServeCheck(n) \/ ContinueCheck(n) \/ ServeTick(n)
  BY <1>1, <1>2, <1>3, <1>5, SlotsExist
<1>6. CASE ServeTask
  BY <1>4, <1>6, SlotsExist
<1>7. CASE /\ ~\E n \in Answers : ServeCheck(n) \/ ContinueCheck(n) \/ ServeTick(n)
           /\ ~ServeTask
  BY <1>7 DEF Next, vars, Progress, Submit, TryAgain, ShowAnswer, Continue, ManualStep,
       ReportsIn, Advance, Resume, HoldForReading, Render, Report,
       HandleJunctionOutcome, CallFails, HandleReply, MarkPresented,
       CompletePendingRemediation
<1>. QED BY <1>5, <1>6, <1>7

\* An answer that was submitted goes from one stage to another.
LEMMA AnswerGoesOn ==
  ASSUME Typed, NEW n \in Submitted, NEW a \in AnswerRecord,
         answer' = [answer EXCEPT ![n] = a],
         a.stage # "none", a.at = answer[n].at,
         a.stage = "asked" /\ a.event = None => a.category \in Categories,
         a.stage = "replied" => a.event \in Events
  PROVE  answer' \in [Answers -> AnswerRecord] /\ AnswersFit'
<1>0. answer \in [Answers -> AnswerRecord] /\ n \in Answers
  BY DEF Typed, TypeOK, AnswerRecord, Submitted
<1>1. answer' \in [Answers -> AnswerRecord]
  BY <1>0
<1>2. Submitted' = Submitted
  BY <1>0 DEF Submitted
<1>3. \A m \in Answers : answer'[m] = IF m = n THEN a ELSE answer[m]
  BY <1>0
<1>4. AnswersFit'
  BY <1>0, <1>2, <1>3 DEF Typed, AnswersFit
<1>. QED BY <1>1, <1>4

LEMMA AnswerIsLater ==
  ASSUME Typed, NEW n \in Submitted, NEW s \in Stages \ {"none", "asked", "replied"},
         Later(n, s)
  PROVE  answer' \in [Answers -> AnswerRecord] /\ AnswersFit'
<1> DEFINE a == [answer[n] EXCEPT !.stage = s]
<1>1. answer[n] \in AnswerRecord
  BY DEF Typed, TypeOK, AnswerRecord, Submitted
<1>2. a \in AnswerRecord /\ a.stage = s /\ a.at = answer[n].at
  BY <1>1 DEF AnswerRecord
<1>3. answer' = [answer EXCEPT ![n] = a]
  BY DEF Later
<1> HIDE DEF a
<1>. QED BY <1>2, <1>3, AnswerGoesOn

LEMMA AnswerIsReplied ==
  ASSUME Typed, Server!TypeOK', NEW n \in Submitted, NEW e \in Events, ReplyWith(n, e)
  PROVE  answer' \in [Answers -> AnswerRecord] /\ AnswersFit'
<1> DEFINE s == rows'[e].status
           a == [answer[n] EXCEPT !.stage = "replied", !.event = e, !.status = s]
<1>1. answer \in [Answers -> AnswerRecord] /\ n \in Answers
  BY DEF Typed, TypeOK, AnswerRecord, Submitted
<1>2. s \in Server!ACTIVE_STATUSES \cup Server!ClosedStatuses \cup {"NONE"}
  BY DEF Server!TypeOK, Server!Row
<1>3. answer' = [answer EXCEPT ![n] = a]
  BY <1>1 DEF ReplyWith, AnswerRecord
<1> HIDE DEF s
<1>4. /\ a \in AnswerRecord /\ a.stage = "replied"
      /\ a.at = answer[n].at /\ a.event = e
  BY <1>1, <1>2 DEF AnswerRecord, Stages, InFlight
<1> HIDE DEF a
<1>. QED BY <1>3, <1>4, AnswerGoesOn

\* The next answer is numbered after those submitted so far.
LEMMA NextAnswer ==
  ASSUME Typed, NEW n \in Answers, n = Cardinality(Submitted) + 1,
         NEW a \in AnswerRecord, a.stage = "streaming", a.at \in Junctions,
         answer' = [answer EXCEPT ![n] = a]
  PROVE  /\ answer' \in [Answers -> AnswerRecord]
         /\ AnswersFit'
         /\ answer[n].stage = "none"
<1> DEFINE k == Cardinality(Submitted)
<1>0. answer \in [Answers -> AnswerRecord] /\ Submitted = 1..k /\ MaxAnswers \in Nat
  BY RunAssumption DEF Typed, TypeOK, AnswerRecord, AnswersFit
<1>1. k \in Nat
  <2>1. IsFiniteSet(Submitted)
    BY <1>0, FS_Interval, FS_Subset, 1 \in Int, MaxAnswers \in Int DEF Submitted, Answers
  <2>. QED BY <2>1, FS_CardinalityType
<1>2. answer'[n] = a /\ \A m \in Answers \ {n} : answer'[m] = answer[m]
  BY <1>0
<1>3. answer[n].stage = "none"
  <2>1. n \notin 1..k
    BY <1>1
  <2>. QED BY <1>0, <2>1 DEF Submitted
<1>4. Submitted' = Submitted \cup {n}
  BY <1>2 DEF Submitted
<1> HIDE DEF k
<1>5. Submitted' = 1..n
  <2>1. n = k + 1
    BY DEF k
  <2>2. 1..n = (1..k) \cup {n}
    BY <1>1, <2>1
  <2>. QED BY <1>0, <1>4, <2>2
<1>6. Cardinality(1..n) = n
  BY FS_Interval, n \in 1..MaxAnswers, <1>0 DEF Answers
<1>7. Submitted' = 1..Cardinality(Submitted')
  BY <1>5, <1>6
<1>8. AnswersFit'
  <2>1. \A m \in Submitted' : answer'[m].at \in Junctions
    BY <1>2, <1>4 DEF Typed, AnswersFit, Submitted
  <2>2. \A m \in Answers : answer'[m].stage = "asked" /\ answer'[m].event = None
          => answer'[m].category \in Categories
    BY <1>2 DEF Typed, AnswersFit
  <2>3. \A m \in Answers : answer'[m].stage = "replied" => answer'[m].event \in Events
    BY <1>2 DEF Typed, AnswersFit
  <2>. QED BY <1>7, <2>1, <2>2, <2>3 DEF AnswersFit
<1>9. answer' \in [Answers -> AnswerRecord]
  BY <1>0
<1>. QED BY <1>3, <1>8, <1>9

ZoneRecord ==
  [state: {"idle", "correct", "incorrect"}, attempts: 0..MaxAttempts,
   revealed: BOOLEAN, resolved: BOOLEAN, current: Answers \cup {0},
   reports: SUBSET Answers, shown: 1..Last]

RestTyped ==
  /\ position \in 1..Last
  /\ waits \in [Waiters -> {"none", "reports", "checks", "ready", "reading"}]
  /\ activeEvents \subseteq Events
  /\ handledBy \in [Junctions -> Answers \cup {0}]
  /\ pendingRemediation \in
       [event: Events, raisedBy: Answers, presented: BOOLEAN] \cup {None}
  /\ junctionRetryInProgress \in BOOLEAN
  /\ ticks \subseteq Answers /\ tasks \subseteq Events

LEMMA TypesApart ==
  TypeOK <=> /\ answer \in [Answers -> AnswerRecord]
             /\ zone \in ZoneRecord
             /\ RestTyped
BY DEF TypeOK, AnswerRecord, ZoneRecord, RestTyped

\* What submitting answer n makes of it and of the prediction zone.
LEMMA SubmitFits ==
  ASSUME Typed, NEW n \in Answers, NEW correct \in BOOLEAN,
         NEW c \in Categories \cup {None}, Submit(n, correct, c)
  PROVE  /\ answer' \in [Answers -> AnswerRecord] /\ AnswersFit'
         /\ zone' \in ZoneRecord /\ ZoneFits'
         /\ answer[n].stage = "none" /\ answer'[n].stage = "streaming"
         /\ \A m \in Answers \ {n} : answer'[m] = answer[m]
         /\ answer'[n].at = position /\ answer'[n].correct = correct
         /\ zone'.shown = zone.shown /\ zone'.current = n
         /\ zone'.reports = IF correct THEN zone.reports ELSE zone.reports \cup {n}
         /\ zone'.state = IF correct THEN "correct" ELSE "incorrect"
         /\ zone'.revealed = answer'[n].bottomedOut
<1> DEFINE attempts == zone.attempts + IF correct THEN 0 ELSE 1
           bottomed == ~correct /\ attempts >= MaxAttempts
           resolved == correct \/ bottomed
           first == isFirstAttempt(correct, attempts)
           a == [NoAnswer EXCEPT !.stage = "streaming", !.at = position,
                                 !.correct = correct, !.category = c,
                                 !.firstAttempt = first,
                                 !.bottomedOut = bottomed]
           reports == IF correct THEN zone.reports ELSE zone.reports \cup {n}
           state == IF correct THEN "correct" ELSE "incorrect"
           z == [zone EXCEPT !.state = state,
                             !.attempts = attempts, !.current = n,
                             !.revealed = bottomed, !.resolved = resolved,
                             !.reports = reports]
<1>0. /\ answer \in [Answers -> AnswerRecord] /\ zone \in ZoneRecord
      /\ position \in Junctions /\ n = Cardinality(Submitted) + 1
      /\ answer' = [answer EXCEPT ![n] = a]
      /\ zone' = z
  BY TypesApart DEF Submit, Typed
<1>1. zone.attempts \in 0..MaxAttempts /\ zone.attempts < MaxAttempts /\ MaxAttempts \in Nat
  BY <1>0, RunAssumption DEF Submit, Typed, ZoneFits, ZoneRecord
<1>2. attempts \in 0..MaxAttempts /\ (correct \/ bottomed \/ attempts < MaxAttempts)
  BY <1>1
<1>3. bottomed \in BOOLEAN /\ resolved \in BOOLEAN /\ first \in BOOLEAN
  BY DEF isFirstAttempt
<1>4. reports \in SUBSET Answers /\ state \in {"correct", "incorrect"}
  BY <1>0 DEF ZoneRecord
<1>. HIDE DEF attempts, bottomed, resolved, first, reports, state
<1>5. /\ a \in AnswerRecord /\ a.stage = "streaming" /\ a.at = position
      /\ a.correct = correct /\ a.bottomedOut = bottomed
  BY <1>0, <1>3 DEF NoAnswer, AnswerRecord, Stages
<1>6. /\ z \in ZoneRecord /\ z.shown = zone.shown /\ z.current = n
      /\ z.reports = reports /\ z.state = state /\ z.revealed = bottomed
      /\ z.attempts = attempts
  BY <1>0, <1>2, <1>3, <1>4 DEF ZoneRecord
<1>. HIDE DEF a, z
<1>7. /\ answer' \in [Answers -> AnswerRecord] /\ AnswersFit'
      /\ answer[n].stage = "none"
  BY <1>0, <1>5, NextAnswer
<1>8. answer'[n] = a /\ \A m \in Answers \ {n} : answer'[m] = answer[m]
  BY <1>0
<1>9. ZoneFits'
  BY <1>0, <1>2, <1>6 DEF ZoneFits, state
<1>. QED BY <1>0, <1>5, <1>6, <1>7, <1>8, <1>9 DEF state, reports

\* Types of the client's variables after each of its actions.
LEMMA ClientStep ==
  ASSUME Typed, Server!TypeOK', Next
  PROVE  TypeOK' /\ AnswersFit' /\ ZoneFits'
<1> DEFINE Fits == TypeOK' /\ AnswersFit' /\ ZoneFits'
<1>0. /\ answer \in [Answers -> AnswerRecord]
      /\ zone \in ZoneRecord
      /\ RestTyped /\ AnswersFit /\ ZoneFits
  BY TypesApart DEF Typed
<1>a. ASSUME answer' \in [Answers -> AnswerRecord] /\ AnswersFit',
             zone' \in ZoneRecord /\ ZoneFits',
             RestTyped'
      PROVE  Fits
  BY <1>a DEF TypeOK, AnswerRecord, ZoneRecord, RestTyped
<1>b. ASSUME UNCHANGED answer PROVE answer' \in [Answers -> AnswerRecord] /\ AnswersFit'
  BY <1>0, <1>b DEF AnswersFit, Submitted
<1>c. ASSUME UNCHANGED zone PROVE zone' \in ZoneRecord /\ ZoneFits'
  BY <1>0, <1>c DEF ZoneFits
<1> SUFFICES Fits
  OBVIOUS
<1> HIDE DEF Fits
<1>1. ASSUME NEW n \in Answers, NEW correct \in BOOLEAN,
             NEW c \in Categories \cup {None}, Submit(n, correct, c)
      PROVE  Fits
  <2>1. /\ answer' \in [Answers -> AnswerRecord] /\ AnswersFit'
        /\ zone' \in ZoneRecord /\ ZoneFits'
    BY <1>1, SubmitFits
  <2>2. RestTyped'
    BY <1>0, <1>1 DEF Submit, RestTyped, store, outbox
  <2>. QED BY <1>a, <2>1, <2>2
<1>2. CASE TryAgain
  <2> DEFINE z == [zone EXCEPT !.state = "idle", !.current = 0]
  <2>1. zone' = z /\ zone.attempts < MaxAttempts
    BY <1>0, <1>2 DEF TryAgain, ZoneFits
  <2>2. z \in ZoneRecord /\ z.attempts = zone.attempts
    BY <1>0 DEF ZoneRecord
  <2> HIDE DEF z
  <2>3. RestTyped'
    BY <1>0, <1>2 DEF TryAgain, RestTyped, store, outbox
  <2>. QED BY <1>a, <1>b, <1>2, <2>1, <2>2, <2>3 DEF TryAgain, ZoneFits
<1>3. CASE ShowAnswer
  <2> DEFINE z == [zone EXCEPT !.revealed = TRUE, !.resolved = TRUE]
  <2>1. zone' = z
    BY <1>3 DEF ShowAnswer
  <2>2. z \in ZoneRecord /\ z.revealed /\ z.state = zone.state /\ z.attempts = zone.attempts
    BY <1>0 DEF ZoneRecord
  <2> HIDE DEF z
  <2>3. RestTyped'
    BY <1>0, <1>3 DEF ShowAnswer, RestTyped, store, outbox
  <2>4. ZoneFits'
    BY <1>0, <2>1, <2>2 DEF ZoneFits
  <2>. QED BY <1>a, <1>b, <1>3, <2>1, <2>2, <2>3, <2>4 DEF ShowAnswer
<1>4. ASSUME NEW c \in Clicks, Continue(c)
      PROVE  Fits
  <2>1. RestTyped'
    BY <1>0, <1>4 DEF Continue, RestTyped, store, outbox
  <2>. QED BY <1>a, <1>b, <1>c, <1>4, <2>1 DEF Continue
<1>5. CASE ManualStep
  <2>1. position' \in 1..Last
    BY <1>0, <1>5, RunAssumption DEF ManualStep, stepForward, stepBackward, RestTyped
  <2>2. RestTyped'
    BY <1>0, <1>5, <2>1 DEF ManualStep, RestTyped, store, outbox
  <2>. QED BY <1>a, <1>b, <1>c, <1>5, <2>2 DEF ManualStep
<1>6. ASSUME NEW w \in Waiters, ReportsIn(w)
      PROVE  Fits
  <2>1. RestTyped'
    BY <1>0, <1>6 DEF ReportsIn, RestTyped, store, outbox
  <2>. QED BY <1>a, <1>b, <1>c, <1>6, <2>1 DEF ReportsIn
<1>7. ASSUME NEW w \in Waiters, Advance(w)
      PROVE  Fits
  <2>1. position' \in 1..Last
    BY <1>0, <1>7, RunAssumption DEF Advance, stepForward, RestTyped
  <2>2. RestTyped'
    BY <1>0, <1>7, <2>1 DEF Advance, RestTyped, store, outbox
  <2>. QED BY <1>a, <1>b, <1>c, <1>7, <2>2 DEF Advance
<1>8. CASE Resume
  <2>1. RestTyped'
    BY <1>0, <1>8 DEF Resume, RestTyped, store, outbox
  <2>. QED BY <1>a, <1>b, <1>c, <1>8, <2>1 DEF Resume
<1>9. CASE HoldForReading
  <2>1. RestTyped'
    BY <1>0, <1>9 DEF HoldForReading, RestTyped, store, outbox
  <2>. QED BY <1>a, <1>b, <1>c, <1>9, <2>1 DEF HoldForReading
<1>10. CASE Render
  <2>1. RestTyped'
    BY <1>0, <1>10 DEF Render, RestTyped, NoWaits, store, outbox
  <2>2. zone' \in ZoneRecord /\ ZoneFits'
    BY <1>0, <1>10, RunAssumption DEF Render, FreshZone, ZoneRecord, ZoneFits, RestTyped
  <2>. QED BY <1>a, <1>b, <1>10, <2>1, <2>2 DEF Render
<1>11. ASSUME NEW n \in Answers, Report(n)
       PROVE  Fits
  <2>1. answer' \in [Answers -> AnswerRecord] /\ AnswersFit'
    BY <1>11, AnswerIsLater DEF Report, Streaming, Submitted, Stages, InFlight
  <2>2. junctionRetryInProgress' \in BOOLEAN
    BY <1>11 DEF Report, retryAfter
  <2>3. waits' \in [Waiters -> {"none", "reports", "checks", "ready", "reading"}]
    BY <1>0, <1>11 DEF Report, RestTyped
  <2>4. RestTyped'
    BY <1>0, <1>11, <2>2, <2>3 DEF Report, RestTyped, store, outbox
  <2>. QED BY <1>a, <1>c, <1>11, <2>1, <2>4 DEF Report
<1>12. ASSUME NEW n \in Answers, HandleJunctionOutcome(n)
       PROVE  Fits
  <2> DEFINE category == IF answer[n].category # None /\ Probing[answer[n].category] # {}
                         THEN answer[n].category ELSE None
  <2>0. n \in Submitted /\ answer[n] \in AnswerRecord
    BY <1>0, <1>12 DEF HandleJunctionOutcome, Submitted
  <2>1. answer' \in [Answers -> AnswerRecord] /\ AnswersFit'
    <3>1. CASE Later(n, "done")
      BY <2>0, <3>1, AnswerIsLater DEF Stages
    <3>2. CASE Later(n, "asked") /\ category # None
      <4> DEFINE a == [answer[n] EXCEPT !.stage = "asked"]
      <4>1. /\ a \in AnswerRecord /\ a.stage = "asked" /\ a.at = answer[n].at
            /\ a.category \in Categories
        BY <2>0, <3>2 DEF AnswerRecord, Stages, InFlight
      <4>2. answer' = [answer EXCEPT ![n] = a]
        BY <3>2 DEF Later
      <4> HIDE DEF a
      <4>. QED BY <2>0, <4>1, <4>2, AnswerGoesOn
    <3>3. ASSUME NEW e \in activeEvents,
                 answer' = [answer EXCEPT ![n].stage = "asked", ![n].event = e]
          PROVE  answer' \in [Answers -> AnswerRecord] /\ AnswersFit'
      <4> DEFINE a == [answer[n] EXCEPT !.stage = "asked", !.event = e]
      <4>1. e \in Events /\ e # None
        BY <1>0, ServerAssumption DEF RestTyped
      <4>2. /\ a \in AnswerRecord /\ a.stage = "asked" /\ a.at = answer[n].at
            /\ a.event = e
        BY <2>0, <4>1 DEF AnswerRecord, Stages, InFlight
      <4>3. answer' = [answer EXCEPT ![n] = a]
        BY <1>0, <2>0, <3>3 DEF AnswerRecord
      <4> HIDE DEF a
      <4>. QED BY <2>0, <4>1, <4>2, <4>3, AnswerGoesOn
    <3>. QED
      BY <1>12, <3>1, <3>2, <3>3 DEF HandleJunctionOutcome, openForCategory, probedAt
  <2>2. handledBy' \in [Junctions -> Answers \cup {0}] /\ ticks' \subseteq Answers
    BY <1>0, <1>12 DEF HandleJunctionOutcome, RestTyped
  <2>3. RestTyped'
    BY <1>0, <1>12, <2>2 DEF HandleJunctionOutcome, RestTyped, run
  <2>. QED BY <1>a, <1>c, <1>12, <2>1, <2>3 DEF HandleJunctionOutcome, run
<1>13. ASSUME NEW n \in Answers, CallFails(n)
       PROVE  Fits
  <2>1. answer' \in [Answers -> AnswerRecord] /\ AnswersFit'
    BY <1>13, AnswerIsLater DEF CallFails, Submitted, Stages
  <2>2. RestTyped'
    BY <1>0, <1>13 DEF CallFails, RestTyped, run, store, outbox
  <2>. QED BY <1>a, <1>c, <1>13, <2>1, <2>2 DEF CallFails, run
<1>14. ASSUME NEW n \in Answers, HandleReply(n)
       PROVE  Fits
  <2>1. answer' \in [Answers -> AnswerRecord] /\ AnswersFit'
    BY <1>14, AnswerIsLater DEF HandleReply, Submitted, Stages
  <2>2. answer[n].event \in Events
    BY <1>0, <1>14 DEF HandleReply, AnswersFit
  <2>3. activeEvents' \subseteq Events
    BY <1>0, <1>14, <2>2 DEF HandleReply, upsertEvent, RestTyped
  <2>4. pendingRemediation' \in
          [event: Events, raisedBy: Answers, presented: BOOLEAN] \cup {None}
    BY <1>0, <1>14, <2>2 DEF HandleReply, RestTyped
  <2>5. RestTyped'
    BY <1>0, <1>14, <2>3, <2>4 DEF HandleReply, RestTyped, run, outbox
  <2>. QED BY <1>a, <1>c, <1>14, <2>1, <2>5 DEF HandleReply, run
<1>15. CASE MarkPresented
  <2>1. pendingRemediation \in [event: Events, raisedBy: Answers, presented: BOOLEAN]
    BY <1>0, <1>15 DEF MarkPresented, QuickCheckOpen, RestTyped
  <2>2. RestTyped'
    BY <1>0, <1>15, <2>1 DEF MarkPresented, RestTyped, run
  <2>. QED BY <1>a, <1>b, <1>c, <1>15, <2>2 DEF MarkPresented, run
<1>16. CASE CompletePendingRemediation
  <2>1. RestTyped'
    BY <1>0, <1>16 DEF CompletePendingRemediation, RestTyped, run, outbox
  <2>. QED BY <1>a, <1>b, <1>c, <1>16, <2>1 DEF CompletePendingRemediation, run
<1>17. ASSUME NEW n \in Answers, ServeCheck(n)
       PROVE  Fits
  <2>0. n \in Submitted /\ answer[n] \in AnswerRecord
    BY <1>0, <1>17 DEF ServeCheck, Submitted
  <2>1. answer' \in [Answers -> AnswerRecord] /\ AnswersFit'
    <3>1. CASE Later(n, "serving")
      BY <2>0, <3>1, AnswerIsLater DEF Stages, InFlight
    <3>2. CASE answer[n].event # None /\ ReplyWith(n, answer[n].event)
      BY <2>0, <3>2, AnswerIsReplied DEF AnswerRecord
    <3>. QED BY <1>17, <3>1, <3>2 DEF ServeCheck
  <2>2. RestTyped'
    BY <1>0, <1>17 DEF ServeCheck, RestTyped, client, run, store, outbox
  <2>. QED BY <1>a, <1>c, <1>17, <2>1, <2>2 DEF ServeCheck, client, run
<1>18. ASSUME NEW n \in Answers, ContinueCheck(n)
       PROVE  Fits
  <2>0. n \in Submitted /\ req[Check(n)] \in Server!Request
    BY <1>0, <1>18, SlotsExist DEF ContinueCheck, Submitted, Typed, Server!TypeOK
  <2>1. answer' \in [Answers -> AnswerRecord] /\ AnswersFit'
    <3>1. CASE UNCHANGED answer
      BY <1>b, <3>1
    <3>2. CASE \E e \in Events : ReplyWith(n, e)
      BY <2>0, <3>2, AnswerIsReplied
    <3>3. CASE Later(n, "done")
      BY <2>0, <3>3, AnswerIsLater DEF Stages
    <3>4. Server!PersistentFor(Topic, answer[n].category) \subseteq Events
      BY DEF Server!PersistentFor
    <3>5. req[Check(n)].todo \subseteq Events
      BY <2>0 DEF Server!Request
    <3>. QED BY <1>18, <3>1, <3>2, <3>3, <3>4, <3>5 DEF ContinueCheck
  <2>2. RestTyped'
    BY <1>0, <1>18 DEF ContinueCheck, RestTyped, client, run, store, outbox
  <2>. QED BY <1>a, <1>c, <1>18, <2>1, <2>2 DEF ContinueCheck, client, run
<1>19. ASSUME NEW n \in Answers, ServeTick(n)
       PROVE  Fits
  <2>1. RestTyped'
    BY <1>0, <1>19 DEF ServeTick, RestTyped, client, run, store
  <2>. QED BY <1>a, <1>b, <1>c, <1>19, <2>1 DEF ServeTick, client, run
<1>20. CASE ServeTask
  <2>1. RestTyped'
    BY <1>0, <1>20 DEF ServeTask, RestTyped, client, run, store
  <2>. QED BY <1>a, <1>b, <1>c, <1>20, <2>1 DEF ServeTask, client, run
<1>. QED
  BY <1>1, <1>2, <1>3, <1>4, <1>5, <1>6, <1>7, <1>8, <1>9, <1>10, <1>11, <1>12,
     <1>13, <1>14, <1>15, <1>16, <1>17, <1>18, <1>19, <1>20 DEF Next, Progress

LEMMA TypeStep == Typed /\ [Next]_vars => Typed'
<1> SUFFICES ASSUME Typed, [Next]_vars PROVE Typed'
  OBVIOUS
<1>1. Server!TypeOK' /\ Proved!HistoryInv'
  BY ServedByHandlers, ServerStep DEF Typed
<1>2. CASE Next
  BY <1>1, <1>2, ClientStep DEF Typed
<1>3. CASE UNCHANGED vars
  <2>1. TypeOK' /\ AnswersFit' /\ ZoneFits'
    BY <1>3 DEF vars, run, store, outbox, Typed, TypeOK, AnswersFit, ZoneFits, Submitted
  <2>. QED BY <1>1, <2>1 DEF Typed
<1>. QED BY <1>2, <1>3

LEMMA TypeInit == Init => Typed
<1> SUFFICES ASSUME Init PROVE Typed
  OBVIOUS
<1>1. Server!TypeOK /\ Proved!HistoryInv
  BY ServerInit DEF Init
<1>2. answer \in [Answers -> AnswerRecord]
  BY DEF Init, NoAnswer, AnswerRecord, Stages
<1>3. Submitted = {}
  BY DEF Init, NoAnswer, Submitted
<1>4. AnswersFit
  <2>1. Cardinality({}) = 0 /\ 1..0 = {}
    BY FS_EmptySet
  <2>. QED BY <1>3, <2>1 DEF Init, NoAnswer, AnswersFit
<1>5. zone \in ZoneRecord /\ ZoneFits
  BY RunAssumption DEF Init, FreshZone, ZoneRecord, ZoneFits
<1>6. RestTyped
  <2>1. 1 \in 1..Last
    BY RunAssumption
  <2>2. waits \in [Waiters -> {"none", "reports", "checks", "ready", "reading"}]
    BY DEF Init, NoWaits
  <2>3. handledBy \in [Junctions -> Answers \cup {0}]
    BY DEF Init
  <2>. QED BY <2>1, <2>2, <2>3 DEF Init, RestTyped
<1>. QED BY <1>1, <1>2, <1>4, <1>5, <1>6, TypesApart DEF Typed

----------------------------------------------------------------------------
(* Counting                                                                *)

\* Before its answer is handled: no tick of it was sent.
Early == {"none", "streaming", "logging"}

LEMMA PartsAreFinite ==
  ASSUME Typed
  PROVE  /\ IsFiniteSet(Handled) /\ Cardinality(Handled) \in Nat
         /\ IsFiniteSet(Pending) /\ Cardinality(Pending) \in Nat
         /\ \A e \in Events : /\ IsFiniteSet(Unticked(e))
                              /\ Cardinality(Unticked(e)) \in Nat
<1>1. IsFiniteSet(Answers) /\ IsFiniteSet(Junctions)
  <2>1. IsFiniteSet(1..MaxAnswers) /\ IsFiniteSet(1..(Last - 1))
    BY FS_Interval, RunAssumption
  <2>. QED BY <2>1, FS_Subset, RunAssumption DEF Answers
<1>2. IsFiniteSet(Handled) /\ IsFiniteSet(Pending)
  BY <1>1, FS_Subset, Handled \subseteq Junctions, Pending \subseteq Answers
     DEF Handled, Pending
<1>3. ASSUME NEW e \in Events PROVE IsFiniteSet(Unticked(e))
  BY <1>1, FS_Subset, Unticked(e) \subseteq Answers DEF Unticked
<1>. QED BY <1>2, <1>3, FS_CardinalityType

LEMMA EvidenceIsCounted ==
  ASSUME Typed, NEW e \in Events
  PROVE  /\ evidence[e].ticks \in Nat /\ evidence[e].failures \in Nat
         /\ evidence[e].evaluated \in Nat
BY DEF Typed, Server!TypeOK, Server!Evidence

LEMMA FewerAreLeft ==
  ASSUME NEW S, NEW T, IsFiniteSet(T), S \subseteq T
  PROVE  Cardinality(S) <= Cardinality(T) /\ Cardinality(S) \in Nat
BY FS_Subset, FS_CardinalityType

LEMMA TicksKept ==
  ASSUME TicksOnce, ticks' \subseteq ticks,
         \A m \in Answers : /\ req'[Tick(m)] = req[Tick(m)]
                            /\ answer'[m].stage \in Early => answer[m].stage \in Early
  PROVE  TicksOnce'
BY DEF TicksOnce, Early

\* Nothing was counted in the step, and no more may be.
LEMMA NothingCounted ==
  ASSUME Typed, Counted, UNCHANGED <<evidence, handledBy>>,
         \A e \in Events : rows'[e].status = "NONE" <=> rows[e].status = "NONE",
         Pending' \subseteq Pending,
         \A e \in Events : Unticked(e)' \subseteq Unticked(e)
  PROVE  Counted'
<1>1. Handled' = Handled
  BY DEF Handled
<1>2. Cardinality(Pending') <= Cardinality(Pending) /\ Cardinality(Pending') \in Nat
  BY PartsAreFinite, FewerAreLeft
<1>3. ASSUME NEW e \in Events
      PROVE  /\ Cardinality(Unticked(e)') <= Cardinality(Unticked(e))
             /\ Cardinality(Unticked(e)') \in Nat
  BY PartsAreFinite, FewerAreLeft
<1>4. ASSUME NEW e \in Events
      PROVE  /\ evidence'[e].ticks + Cardinality(Unticked(e)') <= Cardinality(Handled')
             /\ rows'[e].status = "NONE" => evidence'[e].failures = 0
             /\ rows'[e].status # "NONE" =>
                  /\ evidence'[e].evaluated + Cardinality(Pending') < Cardinality(Handled')
                  /\ evidence'[e].failures + Cardinality(Pending') < Cardinality(Handled')
  <2> USE <1>1, <1>2, <1>3, PartsAreFinite, EvidenceIsCounted
  <2>1. evidence'[e].ticks + Cardinality(Unticked(e)') <= Cardinality(Handled')
    BY DEF Counted
  <2>2. rows'[e].status = "NONE" => evidence'[e].failures = 0
    BY DEF Counted
  <2>3. ASSUME rows'[e].status # "NONE"
        PROVE  /\ evidence'[e].evaluated + Cardinality(Pending') < Cardinality(Handled')
               /\ evidence'[e].failures + Cardinality(Pending') < Cardinality(Handled')
    BY <2>3 DEF Counted
  <2>. QED BY <2>1, <2>2, <2>3
<1>5. Cardinality(Pending') <= Cardinality(Handled')
  BY <1>1, <1>2, PartsAreFinite DEF Counted
<1>. QED BY <1>4, <1>5 DEF Counted

\* The server counts what it evaluates against one event, and with that
\* settles an answer that was pending.
LEMMA OneEvaluated ==
  ASSUME Typed, Counted, UNCHANGED <<handledBy, ticks>>,
         NEW n \in Pending, Pending' = Pending \ {n},
         \A e \in Events :
           /\ Unticked(e)' \subseteq Unticked(e)
           /\ evidence'[e].ticks = evidence[e].ticks
           /\ evidence'[e].failures \in {evidence[e].failures, evidence[e].failures + 1}
           /\ evidence'[e].evaluated \in {evidence[e].evaluated, evidence[e].evaluated + 1}
           /\ rows[e].status = "NONE" =>
                /\ evidence[e].evaluated = 0
                /\ UNCHANGED evidence[e]
           /\ rows'[e].status = "NONE" => rows[e].status = "NONE"
  PROVE  Counted'
<1>1. Handled' = Handled
  BY DEF Handled
<1>2. /\ Cardinality(Pending') = Cardinality(Pending) - 1
      /\ Cardinality(Pending') \in Nat
  BY PartsAreFinite, FS_RemoveElement, FS_CardinalityType
<1>3. ASSUME NEW e \in Events
      PROVE  /\ evidence'[e].ticks + Cardinality(Unticked(e)') <= Cardinality(Handled')
             /\ rows'[e].status = "NONE" => evidence'[e].failures = 0
             /\ rows'[e].status # "NONE" =>
                  /\ evidence'[e].evaluated + Cardinality(Pending') < Cardinality(Handled')
                  /\ evidence'[e].failures + Cardinality(Pending') < Cardinality(Handled')
  <2> USE <1>1, <1>2, PartsAreFinite, EvidenceIsCounted
  <2>1. /\ Cardinality(Unticked(e)') <= Cardinality(Unticked(e))
        /\ Cardinality(Unticked(e)') \in Nat
    BY FewerAreLeft
  <2>2. evidence'[e].ticks + Cardinality(Unticked(e)') <= Cardinality(Handled')
    BY <2>1 DEF Counted
  <2>3. rows'[e].status = "NONE" => evidence'[e].failures = 0
    BY DEF Counted
  <2>4. CASE rows[e].status = "NONE"
    <3>1. evidence'[e].evaluated = 0 /\ evidence'[e].failures = 0
      BY <2>4 DEF Counted
    <3>2. Cardinality(Pending) <= Cardinality(Handled)
      BY DEF Counted
    <3>. QED BY <2>2, <2>3, <3>1, <3>2
  <2>5. CASE rows[e].status # "NONE"
    <3>1. /\ evidence[e].evaluated + Cardinality(Pending) < Cardinality(Handled)
          /\ evidence[e].failures + Cardinality(Pending) < Cardinality(Handled)
      BY <2>5 DEF Counted
    <3>2. /\ evidence'[e].evaluated <= evidence[e].evaluated + 1
          /\ evidence'[e].failures <= evidence[e].failures + 1
          /\ evidence'[e].evaluated \in Nat /\ evidence'[e].failures \in Nat
      OBVIOUS
    <3>. QED BY <2>2, <2>3, <3>1, <3>2
  <2>. QED BY <2>4, <2>5
<1>4. Cardinality(Pending') <= Cardinality(Handled')
  BY <1>1, <1>2, PartsAreFinite DEF Counted
<1>. QED BY <1>3, <1>4 DEF Counted

\* A tick is counted against one event, which it then leaves alone.
LEMMA OneTicked ==
  ASSUME Typed, Counted, UNCHANGED <<handledBy, answer>>,
         NEW e \in Events, NEW n \in Unticked(e), Unticked(e)' = Unticked(e) \ {n},
         evidence'[e].ticks = evidence[e].ticks + 1,
         \A f \in Events :
           /\ Unticked(f)' \subseteq Unticked(f)
           /\ f # e => evidence'[f].ticks = evidence[f].ticks
           /\ evidence'[f].failures = evidence[f].failures
           /\ evidence'[f].evaluated = evidence[f].evaluated
           /\ rows'[f].status = "NONE" <=> rows[f].status = "NONE"
  PROVE  Counted'
<1>1. Handled' = Handled /\ Pending' = Pending
  BY DEF Handled, Pending
<1>2. ASSUME NEW f \in Events
      PROVE  evidence'[f].ticks + Cardinality(Unticked(f)') <= Cardinality(Handled')
  <2> USE <1>1, PartsAreFinite, EvidenceIsCounted
  <2>1. CASE f = e
    <3>1. /\ Cardinality(Unticked(e)') = Cardinality(Unticked(e)) - 1
          /\ Cardinality(Unticked(e)') \in Nat
      BY FS_RemoveElement, FS_CardinalityType
    <3>2. evidence'[e].ticks + Cardinality(Unticked(e)') <= Cardinality(Handled')
      BY <3>1 DEF Counted
    <3>. QED BY ONLY <2>1, <3>2 DEF Unticked
  <2>2. CASE f # e
    <3>1. /\ Cardinality(Unticked(f)') <= Cardinality(Unticked(f))
          /\ Cardinality(Unticked(f)') \in Nat
      BY FewerAreLeft
    <3>. QED BY <2>2, <3>1 DEF Counted
  <2>. QED BY <2>1, <2>2
<1>3. ASSUME NEW f \in Events
      PROVE  /\ rows'[f].status = "NONE" => evidence'[f].failures = 0
             /\ rows'[f].status # "NONE" =>
                  /\ evidence'[f].evaluated + Cardinality(Pending') < Cardinality(Handled')
                  /\ evidence'[f].failures + Cardinality(Pending') < Cardinality(Handled')
  BY <1>1 DEF Counted
<1>4. Cardinality(Pending') <= Cardinality(Handled')
  BY <1>1 DEF Counted
<1>. QED BY <1>2, <1>3, <1>4 DEF Counted

\* The loop acts on an answer at a junction it has not acted on before.
LEMMA OneHandled ==
  ASSUME Typed, Counted, UNCHANGED <<rows, evidence>>,
         NEW j \in Junctions, j \notin Handled, Handled' = Handled \cup {j},
         NEW n, Pending' \subseteq Pending \cup {n},
         \A e \in Events : Unticked(e)' \subseteq Unticked(e) \cup {n}
  PROVE  Counted'
<1> USE PartsAreFinite, EvidenceIsCounted
<1>1. Cardinality(Handled') = Cardinality(Handled) + 1
  BY FS_AddElement
<1>2. ASSUME NEW S, NEW T, IsFiniteSet(S), T \subseteq S \cup {n}
      PROVE  Cardinality(T) <= Cardinality(S) + 1 /\ Cardinality(T) \in Nat
  <2>0. Cardinality(S) \in Nat
    BY <1>2, FS_CardinalityType
  <2>1. IsFiniteSet(S \cup {n}) /\ Cardinality(S \cup {n}) <= Cardinality(S) + 1
    <3>1. /\ IsFiniteSet(S \cup {n})
          /\ Cardinality(S \cup {n}) =
               IF n \in S THEN Cardinality(S) ELSE Cardinality(S) + 1
      BY ONLY <1>2, FS_AddElement
    <3>. QED BY ONLY <2>0, <3>1
  <2>2. Cardinality(T) <= Cardinality(S \cup {n}) /\ Cardinality(T) \in Nat
    BY <1>2, <2>1, FewerAreLeft
  <2>3. Cardinality(S) \in Nat /\ Cardinality(S \cup {n}) \in Nat
    BY <1>2, <2>1, FS_CardinalityType
  <2>. QED BY <2>1, <2>2, <2>3
<1>3. /\ Cardinality(Pending') <= Cardinality(Pending) + 1
      /\ Cardinality(Pending') \in Nat
  BY <1>2
<1>4. ASSUME NEW e \in Events
      PROVE  /\ Cardinality(Unticked(e)') <= Cardinality(Unticked(e)) + 1
             /\ Cardinality(Unticked(e)') \in Nat
  BY <1>2
<1>5. ASSUME NEW e \in Events
      PROVE  /\ evidence[e].ticks + Cardinality(Unticked(e)') <= Cardinality(Handled')
             /\ rows[e].status = "NONE" => evidence[e].failures = 0
             /\ rows[e].status # "NONE" =>
                  /\ evidence[e].evaluated + Cardinality(Pending') < Cardinality(Handled')
                  /\ evidence[e].failures + Cardinality(Pending') < Cardinality(Handled')
  <2>1. evidence[e].ticks + Cardinality(Unticked(e)) <= Cardinality(Handled)
    BY DEF Counted
  <2>2. evidence[e].ticks + Cardinality(Unticked(e)') <= Cardinality(Handled')
    BY <1>1, <1>4, <2>1
  <2>3. rows[e].status = "NONE" => evidence[e].failures = 0
    BY DEF Counted
  <2>4. ASSUME rows[e].status # "NONE"
        PROVE  /\ evidence[e].evaluated + Cardinality(Pending') < Cardinality(Handled')
               /\ evidence[e].failures + Cardinality(Pending') < Cardinality(Handled')
    <3>1. /\ evidence[e].evaluated + Cardinality(Pending) < Cardinality(Handled)
          /\ evidence[e].failures + Cardinality(Pending) < Cardinality(Handled)
      BY <2>4 DEF Counted
    <3>. QED BY <1>1, <1>3, <3>1
  <2>. QED BY <2>2, <2>3, <2>4
<1>6. Cardinality(Pending') <= Cardinality(Handled')
  BY <1>1, <1>3 DEF Counted
<1>. QED BY <1>5, <1>6 DEF Counted

LEMMA SlotsApart ==
  ASSUME NEW m \in Answers, NEW n \in Answers
  PROVE  /\ Tick(m) # Check(n) /\ Tick(m) # <<"task", 0>>
         /\ Tick(m) = Tick(n) => m = n
BY DEF Tick, Check

LEMMA LocalStep ==
  ASSUME Typed, NEW r \in Requests, NEW record, Server!Local(r, record)
  PROVE  req'[r] = record /\ \A q \in Requests \ {r} : req'[q] = req[q]
BY DEF Typed, Server!TypeOK, Server!Local

\* Only the server's work on a tick changes what a tick may still reach.
LEMMA TicksUntouched ==
  ASSUME UNCHANGED ticks, \A m \in Answers : req'[Tick(m)] = req[Tick(m)]
  PROVE  \A e \in Events : Unticked(e)' = Unticked(e)
BY DEF Unticked

LEMMA ChecksLeaveTicks ==
  ASSUME Typed, NEW n \in Answers, ServeCheck(n) \/ ContinueCheck(n)
  PROVE  \A m \in Answers : req'[Tick(m)] = req[Tick(m)]
<1> DEFINE r == Check(n)
<1>1. \E record : Server!Local(r, record)
  <2>1. CASE ServeCheck(n)
    BY <2>1 DEF ServeCheck, Server!DetectFindActive, Server!ProbeRead, Server!Finish
  <2>2. CASE ContinueCheck(n)
    BY <2>2 DEF ContinueCheck, Server!DetectFindPersistent, Server!DetectCreate,
                Server!DetectEscalate, Server!ProbeWrite, Server!Fail, Server!Finish
  <2>. QED BY <2>1, <2>2
<1>2. r \in Requests
  BY SlotsExist
<1> HIDE DEF r
<1>3. \A q \in Requests \ {r} : req'[q] = req[q]
  BY <1>1, <1>2, LocalStep
<1>. QED BY <1>3, SlotsExist, SlotsApart DEF r

\* What has been read to be written back is of a row that exists.
LEMMA RowsRead ==
  ASSUME Typed, NEW r \in Requests, NEW e \in req[r].todo
  PROVE  /\ e \in Events /\ rows[e].status # "NONE"
         /\ req[r].step = "tick" => req[r].seen[e].status \in Server!ACTIVE_STATUSES
<1>1. e \in Events
  BY DEF Typed, Server!TypeOK, Server!Request
<1>2. Proved!ReadBehind(r, e)
  BY DEF Typed, Proved!HistoryInv
<1>. QED BY <1>1, <1>2 DEF Proved!ReadBehind, Proved!ACTIVE_STATUSES, Server!ACTIVE_STATUSES

\* A row that was never created has no probe to its name.
LEMMA NothingEvaluatedYet ==
  ASSUME Typed, NEW e \in Events, rows[e].status = "NONE"
  PROVE  evidence[e].evaluated = 0
BY DEF Typed, Proved!HistoryInv, Proved!RowEarned

LEMMA ContinueCounts ==
  ASSUME Typed, TicksOnce, Counted, NEW n \in Answers, ContinueCheck(n)
  PROVE  Counted'
<1> DEFINE r == Check(n)
<1>0. /\ r \in Requests /\ answer[n].stage = "serving" /\ n \in Pending
      /\ UNCHANGED <<handledBy, ticks>>
  BY SlotsExist DEF ContinueCheck, Pending, client, store, outbox
<1>1. \A e \in Events : Unticked(e)' = Unticked(e)
  BY <1>0, ChecksLeaveTicks, TicksUntouched
<1>2. /\ answer \in [Answers -> AnswerRecord]
      /\ rows \in [Events -> Server!Row] /\ evidence \in [Events -> Server!Evidence]
      /\ req[r] \in Server!Request
  BY <1>0, TypesApart DEF Typed, Server!TypeOK
<1>3. ASSUME NEW e, ReplyWith(n, e) PROVE Pending' = Pending \ {n}
  <2>1. answer'[n].stage = "replied" /\ \A m \in Answers \ {n} : answer'[m] = answer[m]
    BY <1>2, <1>3 DEF ReplyWith, AnswerRecord
  <2>. QED BY <2>1 DEF Pending
<1>4. CASE Server!DetectFindPersistent(r)
  <2>1. UNCHANGED <<rows, evidence>>
    BY <1>4 DEF Server!DetectFindPersistent
  <2>2. Pending' \subseteq Pending
    <3>1. UNCHANGED answer \/ \E e : ReplyWith(n, e) \/ Later(n, "done")
      BY <1>0 DEF ContinueCheck
    <3>2. CASE Later(n, "done")
      BY <1>2, <3>2 DEF Later, Pending
    <3>. QED BY <1>3, <3>1, <3>2 DEF Pending
  <2>. QED BY <1>0, <1>1, <2>1, <2>2, NothingCounted
<1>5. CASE Server!Fail(r)
  <2>1. UNCHANGED <<rows, evidence>>
    BY <1>5 DEF Server!Fail
  <2>2. Pending' \subseteq Pending
    <3>1. UNCHANGED answer \/ \E e : ReplyWith(n, e) \/ Later(n, "done")
      BY <1>0 DEF ContinueCheck
    <3>2. CASE Later(n, "done")
      BY <1>2, <3>2 DEF Later, Pending
    <3>. QED BY <1>3, <3>1, <3>2 DEF Pending
  <2>. QED BY <1>0, <1>1, <2>1, <2>2, NothingCounted
<1>6. CASE Server!DetectCreate(r) /\ \E e \in Events : ReplyWith(n, e)
  <2>1. Pending' = Pending \ {n}
    BY <1>3, <1>6
  <2>2. PICK e \in Events :
          /\ rows[e].status = "NONE"
          /\ rows' = [rows EXCEPT ![e] = rows'[e]]
          /\ rows'[e].status = "OPEN"
    BY <1>2, <1>6 DEF Server!DetectCreate, Server!NoRow
  <2>3. \A f \in Events : rows'[f].status = "NONE" => rows[f].status = "NONE"
    BY <1>2, <2>2
  <2>4. UNCHANGED evidence
    BY <1>6 DEF Server!DetectCreate
  <2>. QED BY <1>0, <1>1, <2>1, <2>3, <2>4, NothingEvaluatedYet, OneEvaluated
<1>7. ASSUME NEW e \in req[r].todo, NEW row, NEW h,
             rows' = [rows EXCEPT ![e] = row],
             row.status # "NONE",
             evidence' = [evidence EXCEPT ![e] = h],
             h.ticks = evidence[e].ticks,
             h.failures \in {evidence[e].failures, evidence[e].failures + 1},
             h.evaluated \in {evidence[e].evaluated, evidence[e].evaluated + 1},
             \E f : ReplyWith(n, f)
      PROVE  Counted'
  <2>1. Pending' = Pending \ {n}
    BY <1>3, <1>7
  <2>2. e \in Events /\ rows[e].status # "NONE"
    BY <1>0, RowsRead
  <2>3. \A f \in Events : rows'[f].status = "NONE" => rows[f].status = "NONE"
    BY <1>2, <1>7, <2>2
  <2>4. \A f \in Events :
          /\ evidence'[f].ticks = evidence[f].ticks
          /\ evidence'[f].failures \in {evidence[f].failures, evidence[f].failures + 1}
          /\ evidence'[f].evaluated \in {evidence[f].evaluated, evidence[f].evaluated + 1}
          /\ rows[f].status = "NONE" => UNCHANGED evidence[f]
    BY <1>2, <1>7, <2>2
  <2>. QED BY <1>0, <1>1, <2>1, <2>3, <2>4, NothingEvaluatedYet, OneEvaluated
<1>8. CASE Server!DetectEscalate(r) /\ \E f : ReplyWith(n, f)
  <2>1. PICK e \in req[r].todo :
          /\ rows' = [rows EXCEPT ![e] = Server!Evaluated(rows[e],
                        Server!evaluateRepeatDetection(req[r].seen[e]))]
          /\ evidence' = [evidence EXCEPT ![e] = Server!Repeated(evidence[e])]
    BY <1>8 DEF Server!DetectEscalate
  <2>2. e \in Events
    BY <1>0, RowsRead
  <2>3. /\ evidence[e] \in Server!Evidence /\ rows[e] \in Server!Row
        /\ evidence[e].failures \in Nat
    BY <1>2, <2>2 DEF Server!Evidence
  <2>4. LET h == Server!Repeated(evidence[e])
        IN /\ h.ticks = evidence[e].ticks
           /\ h.failures \in {evidence[e].failures, evidence[e].failures + 1}
           /\ h.evaluated \in {evidence[e].evaluated, evidence[e].evaluated + 1}
    BY <2>3 DEF Server!Repeated, Server!Evidence
  <2>5. Server!Evaluated(rows[e],
          Server!evaluateRepeatDetection(req[r].seen[e])).status # "NONE"
    BY <2>3 DEF Server!Evaluated, Server!evaluateRepeatDetection,
                Server!evaluateProbe, Server!Row
  <2>. QED BY <1>7, <1>8, <2>1, <2>4, <2>5
<1>9. CASE Server!ProbeWrite(r) /\ \E f : ReplyWith(n, f)
  <2>1. PICK e \in req[r].todo :
          /\ rows' = [rows EXCEPT ![e] = Server!ProbedRow(rows[e],
                        Server!evaluateProbe(req[r].seen[e], req[r].answer),
                        Server!probeCountWritten(r, e))]
          /\ evidence' = [evidence EXCEPT ![e] = Server!Probed(evidence[e], req[r].answer)]
    BY <1>9 DEF Server!ProbeWrite
  <2>2. e \in Events
    BY <1>0, RowsRead
  <2>3. /\ evidence[e] \in Server!Evidence /\ rows[e] \in Server!Row
        /\ evidence[e].failures \in Nat /\ evidence[e].evaluated \in Nat
    BY <1>2, <2>2 DEF Server!Evidence
  <2>4. LET h == Server!Probed(evidence[e], req[r].answer)
        IN /\ h.ticks = evidence[e].ticks
           /\ h.failures \in {evidence[e].failures, evidence[e].failures + 1}
           /\ h.evaluated \in {evidence[e].evaluated, evidence[e].evaluated + 1}
    BY <2>3 DEF Server!Probed, Server!Evidence
  <2> DEFINE v == Server!evaluateProbe(req[r].seen[e], req[r].answer)
             k == Server!probeCountWritten(r, e)
  <2>5. v.status # "NONE"
    BY DEF Server!evaluateProbe
  <2> HIDE DEF v, k
  <2>6. Server!ProbedRow(rows[e], v, k).status # "NONE"
    BY <2>3, <2>5 DEF Server!Evaluated, Server!ProbedRow, Server!Row
  <2>. QED BY <1>7, <1>9, <2>1, <2>4, <2>6 DEF v, k
<1>. QED BY <1>0, <1>4, <1>5, <1>6, <1>8, <1>9 DEF ContinueCheck

LEMMA TickCounts ==
  ASSUME Typed, TicksOnce, Counted, NEW n \in Answers, ServeTick(n)
  PROVE  TicksOnce' /\ Counted'
<1> DEFINE r == Tick(n)
<1>0. /\ r \in Requests
      /\ UNCHANGED <<handledBy, answer>>
      /\ \A m \in Answers : Tick(m) \in Requests /\ (m # n => Tick(m) # r)
  BY SlotsExist, SlotsApart DEF ServeTick, client, store
<1>1. /\ answer \in [Answers -> AnswerRecord]
      /\ rows \in [Events -> Server!Row] /\ evidence \in [Events -> Server!Evidence]
      /\ req[r] \in Server!Request
  BY <1>0, TypesApart DEF Typed, Server!TypeOK
<1>2. ASSUME NEW record, Server!Local(r, record)
      PROVE  req'[r] = record /\ \A m \in Answers \ {n} : req'[Tick(m)] = req[Tick(m)]
  BY <1>0, <1>2, LocalStep
<1>3. Pending' = Pending
  BY <1>0 DEF Pending
<1> HIDE DEF r
<1>4. CASE Server!TickRead(r, Topic) /\ n \in ticks /\ ticks' = ticks \ {n}
  <2>1. PICK record : Server!Local(r, record)
    BY <1>4 DEF Server!TickRead, Server!Finish
  <2>2. \A m \in Answers \ {n} : req'[Tick(m)] = req[Tick(m)]
    BY <1>2, <2>1
  <2>3. TicksOnce'
    <3>1. answer[n].stage \notin Early
      BY <1>4 DEF TicksOnce, Early
    <3>. QED BY <1>0, <1>4, <2>2, <3>1 DEF TicksOnce, Early
  <2>4. \A e \in Events : Unticked(e)' \subseteq Unticked(e)
    BY <1>4, <2>2 DEF Unticked
  <2>5. UNCHANGED <<rows, evidence>>
    BY <1>4 DEF Server!TickRead
  <2>. QED BY <1>0, <1>3, <2>3, <2>4, <2>5, NothingCounted
<1>5. CASE Server!TickWrite(r) /\ UNCHANGED ticks
  <2>1. PICK e \in req[r].todo :
          /\ rows' = [rows EXCEPT ![e] = Server!TickedRow(rows[e], req[r].seen[e])]
          /\ evidence' = [evidence EXCEPT ![e] = Server!Ticked(evidence[e])]
          /\ Server!Loop(r, "tick", req[r].todo \ {e})
    BY <1>5 DEF Server!TickWrite
  <2>2. PICK record : Server!Local(r, record) /\ record.todo \subseteq req[r].todo \ {e}
    <3> DEFINE left == req[r].todo \ {e}
               read == [f \in Events |-> IF f \in left THEN req[r].seen[f] ELSE Server!NoRow]
               rest == [req[r] EXCEPT !.step = "tick", !.todo = left, !.seen = read]
    <3>1. CASE left = {}
      <4>1. Server!Idle.todo = {}
        BY DEF Server!Idle
      <4>. QED BY <2>1, <3>1, <4>1 DEF Server!Loop, Server!Finish
    <3>2. CASE left # {}
      <4>1. rest.todo = left
        BY <1>1 DEF Server!Request
      <4>2. Server!Local(r, rest)
        BY <2>1, <3>2 DEF Server!Loop
      <4> HIDE DEF rest
      <4>. QED BY <4>1, <4>2
    <3>. QED BY <3>1, <3>2
  <2>3. /\ req'[r].todo \subseteq req[r].todo \ {e}
        /\ \A m \in Answers \ {n} : req'[Tick(m)] = req[Tick(m)]
    BY <1>2, <2>2
  <2>4. req[r].step = "tick"
    BY <1>5 DEF Server!TickWrite, Server!At
  <2>5. n \notin ticks /\ answer[n].stage \notin Early
    BY <2>4 DEF TicksOnce, Early, r
  <2>6. TicksOnce'
    BY <1>0, <1>5, <2>3, <2>5 DEF TicksOnce, Early
  <2>7. /\ e \in Events /\ rows[e].status # "NONE"
        /\ req[r].seen[e].status \in Server!ACTIVE_STATUSES
    BY <1>0, <2>4, RowsRead
  <2>8. n \in Unticked(e) /\ Unticked(e)' = Unticked(e) \ {n}
    BY <1>5, <2>1, <2>3, <2>5 DEF Unticked, r
  <2>9. \A f \in Events : Unticked(f)' \subseteq Unticked(f)
    BY <1>5, <2>3 DEF Unticked, r
  <2> DEFINE row == Server!TickedRow(rows[e], req[r].seen[e])
             h == Server!Ticked(evidence[e])
  <2>10. row.status # "NONE"
    BY <1>1, <2>7 DEF Server!TickedRow, Server!Row, Server!ACTIVE_STATUSES
  <2>11. /\ h.ticks = evidence[e].ticks + 1
         /\ h.failures = evidence[e].failures /\ h.evaluated = evidence[e].evaluated
    BY <1>1, <2>7 DEF Server!Ticked, Server!Evidence
  <2> HIDE DEF row, h
  <2>12. rows' = [rows EXCEPT ![e] = row] /\ evidence' = [evidence EXCEPT ![e] = h]
    BY <2>1 DEF row, h
  <2>13. /\ evidence'[e].ticks = evidence[e].ticks + 1
         /\ \A f \in Events :
              /\ f # e => evidence'[f].ticks = evidence[f].ticks
              /\ evidence'[f].failures = evidence[f].failures
              /\ evidence'[f].evaluated = evidence[f].evaluated
              /\ rows'[f].status = "NONE" <=> rows[f].status = "NONE"
    BY <1>1, <2>7, <2>10, <2>11, <2>12
  <2>. QED BY <1>0, <2>6, <2>7, <2>8, <2>9, <2>13, OneTicked
<1>6. CASE Server!Fail(r) /\ UNCHANGED ticks
  <2>1. /\ req'[r] = Server!Idle
        /\ \A m \in Answers \ {n} : req'[Tick(m)] = req[Tick(m)]
    BY <1>2, <1>6 DEF Server!Fail, Server!Finish
  <2>2. req[r].step # "idle" /\ UNCHANGED <<rows, evidence>>
    BY <1>6 DEF Server!Fail
  <2>3. n \notin ticks /\ answer[n].stage \notin Early
    BY <2>2 DEF TicksOnce, Early, r
  <2>4. TicksOnce'
    BY <1>0, <1>6, <2>1, <2>3 DEF TicksOnce, Early
  <2>5. \A e \in Events : Unticked(e)' \subseteq Unticked(e)
    BY <1>6, <2>1 DEF Unticked, r, Server!Idle
  <2>. QED BY <1>0, <1>3, <2>2, <2>4, <2>5, NothingCounted
<1>. QED BY <1>4, <1>5, <1>6 DEF ServeTick, r

LEMMA OutcomeCounts ==
  ASSUME Typed, TicksOnce, Counted, NEW n \in Answers, HandleJunctionOutcome(n)
  PROVE  TicksOnce' /\ Counted'
<1>0. /\ answer \in [Answers -> AnswerRecord] /\ answer[n].stage = "logging"
      /\ UNCHANGED server
      /\ handledBy \in [Junctions -> Answers \cup {0}]
      /\ n # 0
  BY TypesApart DEF Typed, HandleJunctionOutcome, RestTyped, Answers
<1>1. UNCHANGED <<rows, req, evidence>>
  BY <1>0 DEF server
<1>2. answer[n].at \in Junctions
  BY <1>0 DEF Typed, AnswersFit, Submitted
<1>3. /\ answer'[n].stage \in {"done", "asked"}
      /\ \A m \in Answers \ {n} : answer'[m] = answer[m]
  <2>1. \/ Later(n, "done") \/ Later(n, "asked")
        \/ \E e : answer' = [answer EXCEPT ![n].stage = "asked", ![n].event = e]
    BY DEF HandleJunctionOutcome
  <2>2. ASSUME NEW e, answer' = [answer EXCEPT ![n].stage = "asked", ![n].event = e]
        PROVE  /\ answer'[n].stage \in {"done", "asked"}
               /\ \A m \in Answers \ {n} : answer'[m] = answer[m]
    BY <1>0, <2>2 DEF AnswerRecord
  <2>3. CASE Later(n, "done") \/ Later(n, "asked")
    BY <1>0, <2>3 DEF Later, AnswerRecord
  <2>. QED BY <2>1, <2>2, <2>3
<1>4. CASE ~actedOn(answer[n])
  <2>1. Later(n, "done") /\ UNCHANGED <<handledBy, ticks>>
    BY <1>4 DEF HandleJunctionOutcome
  <2>2. answer'[n].stage = "done"
    BY <1>0, <2>1 DEF Later, AnswerRecord
  <2>3. \A m \in Answers : answer'[m].stage \in Early => answer[m].stage \in Early
    BY <1>3, <2>2 DEF Early
  <2>4. Pending' \subseteq Pending
    BY <1>3, <2>2 DEF Pending
  <2>5. \A e \in Events : Unticked(e)' = Unticked(e)
    BY <1>1, <2>1, TicksUntouched
  <2>6. TicksOnce'
    BY <1>1, <2>1, <2>3, TicksKept
  <2>. QED BY <1>1, <2>1, <2>4, <2>5, <2>6, NothingCounted
<1>5. CASE actedOn(answer[n])
  <2> DEFINE j == answer[n].at
  <2>1. /\ handledBy' = [handledBy EXCEPT ![j] = n]
        /\ ticks' \subseteq ticks \cup {n}
    BY <1>5 DEF HandleJunctionOutcome
  <2>2. handledBy[j] = 0
    BY <1>5 DEF actedOn
  <2> HIDE DEF j
  <2>3. j \in Junctions
    BY <1>2 DEF j
  <2>4. j \notin Handled /\ Handled' = Handled \cup {j}
    BY <1>0, <2>1, <2>2, <2>3 DEF Handled
  <2>5. Pending' \subseteq Pending \cup {n}
    BY <1>3 DEF Pending
  <2>6. \A e \in Events : Unticked(e)' \subseteq Unticked(e) \cup {n}
    BY <1>1, <2>1 DEF Unticked
  <2>7. TicksOnce'
    <3>1. req[Tick(n)].step = "idle"
      BY <1>0 DEF TicksOnce
    <3>. QED BY <1>1, <1>3, <2>1, <3>1 DEF TicksOnce
  <2>. QED BY <1>1, <2>3, <2>4, <2>5, <2>6, <2>7, OneHandled
<1>. QED BY <1>4, <1>5

\* The steps that settle or start nothing the loop counts.
LEMMA OthersCount ==
  ASSUME Typed, TicksOnce, Counted, UNCHANGED <<handledBy, ticks, evidence>>,
         \A m \in Answers :
           /\ req'[Tick(m)] = req[Tick(m)]
           /\ answer'[m].stage \in Early => answer[m].stage \in Early
           /\ answer'[m].stage \in {"asked", "serving"} =>
                answer[m].stage \in {"asked", "serving"},
         \A e \in Events : rows'[e].status = "NONE" <=> rows[e].status = "NONE"
  PROVE  TicksOnce' /\ Counted'
<1>1. TicksOnce'
  BY TicksKept
<1>2. Pending' \subseteq Pending
  BY DEF Pending
<1>3. \A e \in Events : Unticked(e)' = Unticked(e)
  BY TicksUntouched
<1>. QED BY <1>1, <1>2, <1>3, NothingCounted

LEMMA CountStep ==
  ASSUME Typed, TicksOnce, Counted, [Next]_vars
  PROVE  TicksOnce' /\ Counted'
<1> DEFINE Goal == TicksOnce' /\ Counted'
<1>0. answer \in [Answers -> AnswerRecord] /\ rows \in [Events -> Server!Row]
  BY TypesApart DEF Typed, Server!TypeOK
<1>a. ASSUME UNCHANGED <<server, handledBy, ticks, answer>> PROVE Goal
  BY <1>a, OthersCount DEF server
<1>b. ASSUME UNCHANGED <<server, handledBy, ticks>>, NEW n \in Answers,
             \E s \in {"logging", "done"} :
               /\ Later(n, s)
               /\ s = "logging" => answer[n].stage = "streaming"
      PROVE  Goal
  <2>1. /\ answer'[n].stage \in {"logging", "done"}
        /\ answer'[n].stage = "logging" => answer[n].stage = "streaming"
        /\ \A m \in Answers \ {n} : answer'[m] = answer[m]
    BY <1>0, <1>b DEF Later, AnswerRecord
  <2>2. \A m \in Answers :
          /\ answer'[m].stage \in Early => answer[m].stage \in Early
          /\ answer'[m].stage \in {"asked", "serving"} =>
               answer[m].stage \in {"asked", "serving"}
    BY <2>1 DEF Early
  <2>. QED BY <1>b, <2>2, OthersCount DEF server
<1> SUFFICES Goal
  OBVIOUS
<1> HIDE DEF Goal
<1>1. ASSUME NEW n \in Answers, NEW correct \in BOOLEAN,
             NEW c \in Categories \cup {None}, Submit(n, correct, c)
      PROVE  Goal
  <2>1. \A m \in Answers :
          /\ answer'[m].stage \in Early => answer[m].stage \in Early
          /\ answer'[m].stage \in {"asked", "serving"} =>
               answer[m].stage \in {"asked", "serving"}
    BY <1>1, SubmitFits DEF Early
  <2>2. UNCHANGED <<server, handledBy, ticks>>
    BY <1>1 DEF Submit, store, outbox
  <2>. QED BY <2>1, <2>2, OthersCount DEF Goal, server
<1>2. CASE \/ TryAgain \/ ShowAnswer \/ (\E c \in Clicks : Continue(c)) \/ ManualStep
           \/ (\E w \in Waiters : ReportsIn(w) \/ Advance(w)) \/ Resume
           \/ HoldForReading \/ Render \/ MarkPresented
           \/ CompletePendingRemediation \/ UNCHANGED vars
  <2>1. UNCHANGED <<server, handledBy, ticks, answer>>
    BY <1>2 DEF vars, run, store, outbox, TryAgain, ShowAnswer, Continue, ManualStep,
         ReportsIn, Advance, Resume, HoldForReading, Render, MarkPresented,
         CompletePendingRemediation
  <2>. QED BY <1>a, <2>1
<1>3. ASSUME NEW n \in Answers, Report(n) \/ CallFails(n) \/ HandleReply(n)
      PROVE  Goal
  <2>1. UNCHANGED <<server, handledBy, ticks>>
    BY <1>3 DEF Report, CallFails, HandleReply, store, outbox
  <2>2. Later(n, "done") \/ (Later(n, "logging") /\ answer[n].stage = "streaming")
    BY <1>3 DEF Report, CallFails, HandleReply, Streaming
  <2>3. \E s \in {"logging", "done"} :
          /\ Later(n, s)
          /\ s = "logging" => answer[n].stage = "streaming"
    BY ONLY <2>2
  <2>. QED BY ONLY <1>b, <2>1, <2>3
<1>4. ASSUME NEW n \in Answers, HandleJunctionOutcome(n)
      PROVE  Goal
  BY <1>4, OutcomeCounts DEF Goal
<1>5. ASSUME NEW n \in Answers, ServeCheck(n) PROVE Goal
  <2>1. UNCHANGED <<rows, evidence, handledBy, ticks>>
    BY <1>5 DEF ServeCheck, Server!DetectFindActive, Server!ProbeRead, client, store, outbox
  <2>2. answer[n].stage = "asked"
    BY <1>5 DEF ServeCheck
  <2>3. Later(n, "serving") \/ ReplyWith(n, answer[n].event)
    BY <1>5 DEF ServeCheck
  <2>4. /\ answer'[n].stage \in {"serving", "replied"}
        /\ \A m \in Answers \ {n} : answer'[m] = answer[m]
    BY <1>0, <2>3 DEF Later, ReplyWith, AnswerRecord
  <2>5. \A m \in Answers :
          /\ answer'[m].stage \in Early => answer[m].stage \in Early
          /\ answer'[m].stage \in {"asked", "serving"} =>
               answer[m].stage \in {"asked", "serving"}
    BY <2>2, <2>4 DEF Early
  <2>. QED BY <1>5, <2>1, <2>5, ChecksLeaveTicks, OthersCount DEF Goal
<1>6. ASSUME NEW n \in Answers, ContinueCheck(n) PROVE Goal
  <2>1. Counted'
    BY <1>6, ContinueCounts
  <2>2. UNCHANGED <<handledBy, ticks>> /\ answer[n].stage = "serving"
    BY <1>6 DEF ContinueCheck, client, store, outbox
  <2>3. UNCHANGED answer \/ (\E e : ReplyWith(n, e)) \/ Later(n, "done")
    BY <1>6 DEF ContinueCheck
  <2>4. \A m \in Answers : answer'[m].stage \in Early => answer[m].stage \in Early
    <3>1. ASSUME NEW e, ReplyWith(n, e)
          PROVE  /\ answer'[n].stage = "replied"
                 /\ \A m \in Answers \ {n} : answer'[m] = answer[m]
      BY <1>0, <3>1 DEF ReplyWith, AnswerRecord
    <3>2. CASE Later(n, "done")
      BY <1>0, <3>2 DEF Later, AnswerRecord, Early
    <3>. QED BY <2>3, <3>1, <3>2 DEF Early
  <2>5. TicksOnce'
    BY <1>6, <2>2, <2>4, ChecksLeaveTicks, TicksKept
  <2>. QED BY <2>1, <2>5 DEF Goal
<1>7. ASSUME NEW n \in Answers, ServeTick(n) PROVE Goal
  BY <1>7, TickCounts DEF Goal
<1>8. CASE ServeTask
  <2>1. PICK e \in Events :
          rows[e].status # "NONE" /\ rows' = [rows EXCEPT ![e].status = "REMEDIATED"]
    BY <1>8 DEF ServeTask, Server!PresentRemediation, Typed, TypeOK
  <2>2. \A f \in Events : rows'[f].status = "NONE" <=> rows[f].status = "NONE"
    BY <1>0, <2>1 DEF Server!Row
  <2>3. UNCHANGED <<req, evidence, handledBy, ticks, answer>>
    BY <1>8 DEF ServeTask, Server!PresentRemediation, client, store
  <2>. QED BY <2>2, <2>3, OthersCount DEF Goal
<1>. QED BY <1>1, <1>2, <1>3, <1>4, <1>5, <1>6, <1>7, <1>8 DEF Next, Progress

LEMMA CountInit == Init => TicksOnce /\ Counted
<1> SUFFICES ASSUME Init PROVE TicksOnce /\ Counted
  OBVIOUS
<1>1. Pending = {} /\ Handled = {}
  BY DEF Init, Pending, Handled, NoAnswer
<1>2. \A m \in Answers : req[Tick(m)] = Server!Idle
  BY SlotsExist DEF Init, Server!Init
<1>3. TicksOnce
  BY <1>2 DEF Init, TicksOnce, Server!Idle
<1>4. ASSUME NEW e \in Events
      PROVE  /\ Unticked(e) = {} /\ evidence[e].ticks = 0
             /\ evidence[e].failures = 0 /\ rows[e].status = "NONE"
  <2>1. Unticked(e) = {}
    BY <1>2 DEF Init, Unticked, Server!Idle
  <2>2. evidence[e] = Server!NoEvidence /\ rows[e] = Server!NoRow
    BY DEF Init, Server!Init
  <2>. QED BY <2>1, <2>2 DEF Server!NoEvidence, Server!NoRow
<1>5. Cardinality({}) = 0
  BY FS_EmptySet
<1>6. ASSUME NEW e \in Events
      PROVE  evidence[e].ticks + Cardinality(Unticked(e)) <= Cardinality(Handled)
  BY <1>1, <1>4, <1>5
<1>. QED BY <1>1, <1>3, <1>4, <1>5, <1>6 DEF Counted

----------------------------------------------------------------------------
(* Waiting for the Quick Check                                             *)

\* What an answer said stays; it is only ever reported further.
Onwards ==
  \A m \in Answers :
    /\ answer'[m].at = answer[m].at /\ answer'[m].correct = answer[m].correct
    /\ answer'[m].bottomedOut = answer[m].bottomedOut
    /\ answer'[m].stage \in InFlight \cup {"streaming"} =>
         answer[m].stage \in InFlight \cup {"streaming"}
    /\ answer'[m].stage = "streaming" => answer[m].stage = "streaming"
    /\ answer'[m].stage = "none" => answer[m].stage = "none"

LEMMA StageGoesOn ==
  ASSUME Typed, NEW n \in Answers, NEW s, NEW e, NEW t,
         \/ Later(n, s)
         \/ answer' = [answer EXCEPT ![n].stage = s, ![n].event = e]
         \/ answer' = [answer EXCEPT ![n].stage = s, ![n].event = e, ![n].status = t],
         answer[n].stage \in InFlight \cup {"streaming"},
         s \in InFlight \cup {"done"}
  PROVE  Onwards
<1>0. answer \in [Answers -> AnswerRecord]
  BY TypesApart DEF Typed
<1>1. /\ answer'[n].stage = s /\ answer'[n].at = answer[n].at
      /\ answer'[n].correct = answer[n].correct
      /\ answer'[n].bottomedOut = answer[n].bottomedOut
      /\ \A m \in Answers \ {n} : answer'[m] = answer[m]
  <2>1. CASE Later(n, s)
    BY <1>0, <2>1 DEF Later, AnswerRecord
  <2>2. CASE answer' = [answer EXCEPT ![n].stage = s, ![n].event = e]
    BY <1>0, <2>2 DEF AnswerRecord
  <2>3. CASE answer' = [answer EXCEPT ![n].stage = s, ![n].event = e, ![n].status = t]
    BY <1>0, <2>3 DEF AnswerRecord
  <2>. QED BY <2>1, <2>2, <2>3
<1>. QED BY <1>1 DEF Onwards, InFlight

LEMMA UnsettledBefore ==
  ASSUME Onwards, NEW m \in Answers, Unsettled(m)'
  PROVE  Unsettled(m)
BY DEF Onwards, Unsettled

\* Reporting an answer, at the client or the server, lets no wait go on.
LEMMA CalmKept ==
  ASSUME Typed, Calm, Onwards, UNCHANGED <<position, zone, waits, pendingRemediation>>
  PROVE  Calm'
<1>1. pendingRemediation # None => pendingRemediation.raisedBy \in Answers
  BY DEF Typed, TypeOK
<1>. QED BY <1>1, UnsettledBefore DEF Calm, Onwards, Streaming, Waiting

LEMMA CalmSubmit ==
  ASSUME Typed, Undisturbed, Calm,
         NEW n \in Answers, NEW correct \in BOOLEAN, NEW c \in Categories \cup {None},
         Submit(n, correct, c)
  PROVE  Calm'
<1>0. /\ answer[n].stage = "none" /\ answer'[n].stage = "streaming"
      /\ \A m \in Answers \ {n} : answer'[m] = answer[m]
      /\ answer'[n].at = position /\ answer'[n].correct = correct
      /\ zone'.shown = zone.shown /\ zone'.current = n
      /\ zone'.reports = IF correct THEN zone.reports ELSE zone.reports \cup {n}
      /\ zone'.state = IF correct THEN "correct" ELSE "incorrect"
      /\ zone'.revealed = answer'[n].bottomedOut
  BY SubmitFits
<1>1. /\ \A m \in Answers : ~Streaming(m)
      /\ zone.shown = position /\ zone.state = "idle"
      /\ UNCHANGED <<position, pendingRemediation>>
      /\ waits' = [waits EXCEPT !["auto"] = IF correct THEN "reports" ELSE @]
      /\ waits \in [Waiters -> {"none", "reports", "checks", "ready", "reading"}]
  BY DEF Submit, FeedbackRead, StudentActs, Rendered, Undisturbed, store, Typed, TypeOK
<1>2. \A w \in Waiters : waits[w] = "none"
  BY <1>1 DEF Calm, Waiting
<1>3. \A w \in Waiters : waits'[w] = "none" \/ (waits'[w] = "reports" /\ correct)
  BY <1>1, <1>2
<1>4. ASSUME NEW m \in Answers, Unsettled(m)'
      PROVE  /\ answer'[m].at = position' /\ zone'.shown = position'
             /\ Streaming(m)' => m \in zone'.reports
             /\ \A w \in Waiters : waits'[w] \notin {"ready", "reading"}
             /\ Streaming(m)' => \A w \in Waiters : waits'[w] # "checks"
  <2>1. CASE m = n
    <3>1. ~correct
      BY <1>0, <1>4, <2>1 DEF Unsettled
    <3>2. answer'[m].at = position' /\ zone'.shown = position' /\ m \in zone'.reports
      BY <1>0, <1>1, <2>1, <3>1
    <3>. QED BY <1>3, <3>2
  <2>2. CASE m # n
    <3>1. Unsettled(m) /\ ~Streaming(m)'
      BY <1>0, <1>1, <1>4, <2>2 DEF Unsettled, Streaming
    <3>2. answer'[m].at = position'
      BY <1>0, <1>1, <2>2, <3>1 DEF Calm
    <3>. QED BY <1>0, <1>1, <1>3, <3>1, <3>2
  <2>. QED BY <2>1, <2>2
<1>5. ASSUME pendingRemediation' # None
      PROVE  /\ answer'[pendingRemediation'.raisedBy].stage # "none"
             /\ answer'[pendingRemediation'.raisedBy].at = position'
             /\ \A w \in Waiters : waits'[w] \notin {"ready", "reading"}
  <2>1. pendingRemediation.raisedBy \in Answers
    BY <1>1, <1>5 DEF Typed, TypeOK
  <2>2. /\ answer[pendingRemediation.raisedBy].stage # "none"
        /\ answer[pendingRemediation.raisedBy].at = position
    BY <1>1, <1>5 DEF Calm
  <2>3. pendingRemediation.raisedBy # n
    BY <1>0, <2>2
  <2>. QED BY <1>0, <1>1, <1>3, <2>1, <2>2, <2>3
<1>6. \A w \in Waiters : Waiting(w)' =>
        zone'.state = "correct" \/ (zone'.state = "incorrect" /\ zone'.revealed)
  BY <1>0, <1>3 DEF Waiting
<1>7. ASSUME NEW m \in Answers, zone'.current = m, answer'[m].bottomedOut
      PROVE  zone'.state = "incorrect" /\ zone'.revealed
  <2>1. ~correct
    <3>1. answer' = [answer EXCEPT ![n] =
             [NoAnswer EXCEPT !.stage = "streaming", !.at = position,
                !.correct = correct, !.category = c,
                !.firstAttempt = isFirstAttempt(correct, zone.attempts + IF correct THEN 0 ELSE 1),
                !.bottomedOut = ~correct /\ zone.attempts + (IF correct THEN 0 ELSE 1) >= MaxAttempts]]
      BY DEF Submit
    <3>2. answer'[n].bottomedOut => ~correct
      BY <3>1 DEF NoAnswer, Typed, TypeOK
    <3>. QED BY <1>0, <1>7, <3>2
  <2>. QED BY <1>0, <1>7, <2>1
<1>. QED BY <1>4, <1>5, <1>6, <1>7 DEF Calm

LEMMA CalmStep ==
  ASSUME Typed, Undisturbed, Calm, [Next]_vars
  PROVE  Calm'
<1>0. /\ answer \in [Answers -> AnswerRecord] /\ zone \in ZoneRecord
      /\ waits \in [Waiters -> {"none", "reports", "checks", "ready", "reading"}]
      /\ pendingRemediation # None =>
           pendingRemediation \in [event: Events, raisedBy: Answers, presented: BOOLEAN]
  BY TypesApart DEF Typed, RestTyped
<1>00. {"eagerStudent", "eagerClick", "manualStep", "slowCall"} \cap environment = {}
  BY DEF Undisturbed
<1>a. ASSUME UNCHANGED answer PROVE Onwards
  BY <1>a DEF Onwards
<1>b. ASSUME UNCHANGED <<answer, position, zone, waits, pendingRemediation>> PROVE Calm'
  BY <1>a, <1>b, CalmKept
<1>c. ASSUME NEW n \in Answers, NEW e, ReplyWith(n, e),
             answer[n].stage \in InFlight
      PROVE  Onwards
  <2> DEFINE t == rows'[e].status
  <2>1. answer' = [answer EXCEPT ![n].stage = "replied", ![n].event = e, ![n].status = t]
    BY <1>c DEF ReplyWith
  <2> HIDE DEF t
  <2>. QED BY <1>c, <2>1, StageGoesOn DEF InFlight
<1>1. ASSUME NEW n \in Answers, NEW correct \in BOOLEAN,
             NEW c \in Categories \cup {None}, Submit(n, correct, c)
      PROVE  Calm'
  BY <1>1, CalmSubmit
<1>2. CASE TryAgain
  <2>1. /\ zone.state = "incorrect" /\ ~zone.revealed
        /\ zone'.state = "idle" /\ zone'.current = 0 /\ zone'.shown = zone.shown
        /\ zone'.reports = zone.reports
        /\ UNCHANGED <<answer, position, waits, pendingRemediation>>
    BY <1>0, <1>2 DEF TryAgain, store, ZoneRecord
  <2>2. \A w \in Waiters : waits[w] = "none"
    BY <2>1 DEF Calm, Waiting
  <2>3. \A m \in Answers : m # 0
    BY DEF Answers
  <2>. QED BY <2>1, <2>2, <2>3 DEF Calm, Unsettled, Streaming, Waiting
<1>3. CASE ShowAnswer
  <2>1. /\ zone.state = "incorrect"
        /\ zone'.state = "incorrect" /\ zone'.revealed /\ zone'.shown = zone.shown
        /\ zone'.reports = zone.reports /\ zone'.current = zone.current
        /\ UNCHANGED <<answer, position, waits, pendingRemediation>>
    BY <1>0, <1>3 DEF ShowAnswer, store, ZoneRecord
  <2>. QED BY <2>1 DEF Calm, Unsettled, Streaming, Waiting
<1>4. ASSUME NEW c \in Clicks, Continue(c) PROVE Calm'
  <2>1. /\ zone.state = "incorrect" /\ zone.revealed
        /\ waits' = [waits EXCEPT ![c] = "reports"]
        /\ UNCHANGED <<answer, position, zone, pendingRemediation>>
    BY <1>4 DEF Continue, store
  <2>2. \A w \in Waiters : waits'[w] = "reports" \/ waits'[w] = waits[w]
    BY <1>0, <2>1
  <2>. QED BY <2>1, <2>2 DEF Calm, Unsettled, Streaming, Waiting
<1>5. ASSUME ManualStep PROVE Calm'
  BY <1>00, <1>5 DEF ManualStep
<1>6. ASSUME NEW w \in Waiters, ReportsIn(w) PROVE Calm'
  <2>1. /\ \A n \in zone.reports : ~Streaming(n)
        /\ waits[w] = "reports"
        /\ waits' = [waits EXCEPT ![w] = IF Clear THEN "ready" ELSE "checks"]
        /\ UNCHANGED <<answer, position, zone, pendingRemediation>>
    BY <1>00, <1>6 DEF ReportsIn, store
  <2>2. \A m \in Answers : Unsettled(m) => ~Streaming(m) /\ m \in checksInFlight
    BY <2>1 DEF Calm, Unsettled, Streaming, checksInFlight
  <2>3. \A v \in Waiters : waits'[v] = waits[v] \/ v = w
    BY <1>0, <2>1
  <2>4. CASE Clear
    <3>1. pendingRemediation = None /\ \A m \in Answers : ~Unsettled(m)
      BY <2>2, <2>4 DEF Clear
    <3>2. Waiting(w)
      BY <2>1 DEF Waiting
    <3>. QED BY <2>1, <2>3, <3>1, <3>2 DEF Calm, Unsettled, Waiting
  <2>5. CASE ~Clear
    <3>1. waits'[w] = "checks" /\ Waiting(w)
      BY <1>0, <2>1, <2>5 DEF Waiting
    <3>. QED BY <2>1, <2>2, <2>3, <3>1 DEF Calm, Unsettled, Streaming, Waiting
  <2>. QED BY <2>4, <2>5
<1>7. ASSUME NEW w \in Waiters, Advance(w) PROVE Calm'
  <2>1. /\ waits[w] \in {"ready", "reading"}
        /\ waits' = [waits EXCEPT ![w] = "none"]
        /\ UNCHANGED <<answer, zone, pendingRemediation>>
    BY <1>7 DEF Advance, store
  <2>2. pendingRemediation = None /\ \A m \in Answers : ~Unsettled(m)
    BY <2>1 DEF Calm
  <2>3. \A v \in Waiters : waits'[v] = "none" \/ waits'[v] = waits[v]
    BY <1>0, <2>1
  <2>. QED BY <2>1, <2>2, <2>3 DEF Calm, Unsettled, Waiting
<1>8. CASE Resume
  <2>1. PICK S \in SUBSET {w \in Waiters : waits[w] = "checks"} :
          /\ S # {} /\ Clear
          /\ waits' = [w \in Waiters |-> IF w \in S THEN "ready" ELSE waits[w]]
    BY <1>00, <1>8 DEF Resume, ClearAtDeadline
  <2>2. UNCHANGED <<answer, position, zone, pendingRemediation>>
    BY <1>8 DEF Resume, store
  <2>3. PICK v \in Waiters : waits[v] = "checks"
    BY <2>1
  <2>4. pendingRemediation = None /\ \A m \in Answers : ~Unsettled(m)
    <3>1. pendingRemediation = None /\ \A m \in Answers : answer[m].stage \notin InFlight
      BY <2>1 DEF Clear, checksInFlight
    <3>2. \A m \in Answers : Unsettled(m) => Streaming(m)
      BY <3>1 DEF Unsettled, Streaming
    <3>. QED BY <2>3, <3>1, <3>2 DEF Calm
  <2>5. \A w \in Waiters : waits'[w] # "none" => waits[w] # "none"
    BY <2>1
  <2>. QED BY <2>2, <2>4, <2>5 DEF Calm, Unsettled, Waiting
<1>9. CASE HoldForReading
  <2>1. /\ waits["auto"] = "ready" /\ "auto" \in Waiters
        /\ waits' = [waits EXCEPT !["auto"] = "reading"]
        /\ UNCHANGED <<answer, position, zone, pendingRemediation>>
    BY <1>9 DEF HoldForReading, store, Waiters
  <2>2. pendingRemediation = None /\ \A m \in Answers : ~Unsettled(m)
    BY <2>1 DEF Calm
  <2>3. \A w \in Waiters : waits'[w] # "none" => waits[w] # "none"
    BY <1>0, <2>1
  <2>. QED BY <2>1, <2>2, <2>3 DEF Calm, Unsettled, Waiting
<1>10. CASE Render
  <2>1. /\ zone.shown # position /\ zone' = FreshZone(position) /\ waits' = NoWaits
        /\ UNCHANGED <<answer, position, pendingRemediation>>
    BY <1>10 DEF Render, store
  <2>2. zone'.state = "idle" /\ zone'.current = 0 /\ zone'.shown = position
    BY <2>1 DEF FreshZone
  <2>3. \A w \in Waiters : waits'[w] = "none"
    BY <2>1 DEF NoWaits
  <2>4. \A m \in Answers : ~Unsettled(m) /\ m # 0
    BY <2>1 DEF Calm, Answers
  <2>. QED BY <2>1, <2>2, <2>3, <2>4 DEF Calm, Unsettled, Waiting
<1>11. ASSUME NEW n \in Answers, Report(n) PROVE Calm'
  <2>1. /\ UNCHANGED <<position, zone, pendingRemediation>>
        /\ waits' = IF answer[n].bottomedOut /\ zone.current = n
                    THEN [waits EXCEPT !["auto"] = "reports"] ELSE waits
        /\ Onwards
    BY <1>11, StageGoesOn DEF Report, store, Streaming, InFlight
  <2>2. CASE waits' = waits
    BY <2>1, <2>2, CalmKept
  <2>3. CASE waits' # waits
    <3>1. zone.state = "incorrect" /\ zone.revealed
      BY <2>1, <2>3 DEF Calm
    <3>2. \A w \in Waiters : waits'[w] = "reports" \/ waits'[w] = waits[w]
      BY <1>0, <2>1
    <3>3. pendingRemediation # None => pendingRemediation.raisedBy \in Answers
      BY <1>0
    <3>. QED BY <2>1, <3>1, <3>2, <3>3, UnsettledBefore
             DEF Calm, Onwards, Streaming, Waiting
  <2>. QED BY <2>2, <2>3
<1>12. ASSUME NEW n \in Answers,
              HandleJunctionOutcome(n) \/ CallFails(n) \/ ServeCheck(n) \/ ContinueCheck(n)
       PROVE  Calm'
  <2>1. UNCHANGED <<position, zone, waits, pendingRemediation>>
    BY <1>12 DEF HandleJunctionOutcome, CallFails, ServeCheck, ContinueCheck, run, store, client
  <2>2. Onwards
    <3>1. CASE HandleJunctionOutcome(n)
      <4>1. \/ Later(n, "done") \/ Later(n, "asked")
            \/ \E e : answer' = [answer EXCEPT ![n].stage = "asked", ![n].event = e]
        BY <3>1 DEF HandleJunctionOutcome
      <4>2. answer[n].stage = "logging"
        BY <3>1 DEF HandleJunctionOutcome
      <4>. QED BY <4>1, <4>2, StageGoesOn DEF InFlight
    <3>2. CASE CallFails(n)
      BY <3>2, StageGoesOn DEF CallFails, InFlight
    <3>3. CASE ServeCheck(n)
      <4>1. Later(n, "serving") \/ ReplyWith(n, answer[n].event)
        BY <3>3 DEF ServeCheck
      <4>2. answer[n].stage = "asked"
        BY <3>3 DEF ServeCheck
      <4>. QED BY <1>c, <4>1, <4>2, StageGoesOn DEF InFlight
    <3>4. CASE ContinueCheck(n)
      <4>1. UNCHANGED answer \/ (\E e : ReplyWith(n, e)) \/ Later(n, "done")
        BY <3>4 DEF ContinueCheck
      <4>2. answer[n].stage = "serving"
        BY <3>4 DEF ContinueCheck
      <4>. QED BY <1>a, <1>c, <4>1, <4>2, StageGoesOn DEF InFlight
    <3>. QED BY <1>12, <3>1, <3>2, <3>3, <3>4
  <2>. QED BY <2>1, <2>2, CalmKept
<1>13. ASSUME NEW n \in Answers, HandleReply(n) PROVE Calm'
  <2>1. /\ UNCHANGED <<position, zone, waits>>
        /\ answer[n].stage = "replied" /\ Later(n, "done")
    BY <1>13 DEF HandleReply, run
  <2>2. Onwards
    BY <2>1, StageGoesOn DEF InFlight
  <2>3. CASE UNCHANGED pendingRemediation
    BY <2>1, <2>2, <2>3, CalmKept
  <2>4. CASE pendingRemediation' # pendingRemediation
    <3>1. /\ ~answer[n].correct /\ pendingRemediation'.raisedBy = n
      BY <1>13, <2>4 DEF HandleReply
    <3>2. Unsettled(n)
      BY <2>1, <3>1 DEF Unsettled, InFlight
    <3>3. /\ answer[n].at = position
          /\ \A w \in Waiters : waits[w] \notin {"ready", "reading"}
      BY <3>2 DEF Calm
    <3>4. answer'[n].at = position' /\ answer'[n].stage # "none"
      BY <2>1, <2>2, <3>3 DEF Onwards
    <3>. QED BY <2>1, <2>2, <3>1, <3>3, <3>4, UnsettledBefore
             DEF Calm, Onwards, Streaming, Waiting
  <2>. QED BY <2>3, <2>4
<1>14. CASE MarkPresented
  <2>1. /\ UNCHANGED <<answer, position, zone, waits>>
        /\ pendingRemediation # None
        /\ pendingRemediation' = [pendingRemediation EXCEPT !.presented = TRUE]
    BY <1>14 DEF MarkPresented, QuickCheckOpen, run
  <2>2. pendingRemediation'.raisedBy = pendingRemediation.raisedBy
    BY <1>0, <2>1
  <2>. QED BY <2>1, <2>2 DEF Calm, Unsettled, Streaming, Waiting
<1>15. CASE CompletePendingRemediation
  <2>1. UNCHANGED <<answer, position, zone, waits>> /\ pendingRemediation' = None
    BY <1>15 DEF CompletePendingRemediation, run
  <2>. QED BY <2>1 DEF Calm, Unsettled, Streaming, Waiting
<1>16. ASSUME (\E n \in Answers : ServeTick(n)) \/ ServeTask \/ UNCHANGED vars
       PROVE  Calm'
  BY <1>16, <1>b DEF ServeTick, ServeTask, vars, client, run, store
<1>. QED
  BY <1>1, <1>2, <1>3, <1>4, <1>5, <1>6, <1>7, <1>8, <1>9, <1>10, <1>11, <1>12,
     <1>13, <1>14, <1>15, <1>16 DEF Next, Progress

LEMMA CalmInit == Init => Calm
BY DEF Init, Calm, Unsettled, NoAnswer, InFlight, NoWaits, Waiting, FreshZone

----------------------------------------------------------------------------
(* The theorems                                                            *)

LEMMA Invariance == Spec => []Inv
<1>1. Init => Inv
  BY TypeInit, CountInit, CalmInit DEF Inv
<1>2. Inv /\ [Next]_vars => Inv'
  <2> SUFFICES ASSUME Inv, [Next]_vars PROVE Inv'
    OBVIOUS
  <2>1. Typed'
    BY TypeStep DEF Inv
  <2>2. TicksOnce' /\ Counted'
    BY CountStep DEF Inv
  <2>3. UNCHANGED environment
    BY DEF Next, vars, Progress, Submit, TryAgain, ShowAnswer, Continue, ManualStep,
       ReportsIn, Advance, Resume, HoldForReading, Render, Report,
       HandleJunctionOutcome, CallFails, HandleReply, MarkPresented,
       CompletePendingRemediation, ServeCheck, ContinueCheck, ServeTick, ServeTask
  <2>4. Undisturbed' => Calm'
    BY <2>3, CalmStep DEF Inv, Undisturbed
  <2>. QED BY <2>1, <2>2, <2>4 DEF Inv
<1>. QED BY <1>1, <1>2, PTL DEF Spec

\* However many answers are submitted, revisited or reported late, and however
\* the server's work on them interleaves, no event is counted more junctions,
\* probes or failures than there are junctions the loop acted on.
THEOREM JunctionsCounted == Spec => []JunctionsAreCounted
<1>1. Inv => JunctionsAreCounted
  <2> SUFFICES ASSUME Inv PROVE JunctionsAreCounted
    OBVIOUS
  <2>1. Typed /\ Counted
    BY DEF Inv
  <2>2. ASSUME NEW e \in Events, rows[e].status # "NONE"
        PROVE  /\ evidence[e].ticks <= Cardinality(Handled)
               /\ evidence[e].evaluated < Cardinality(Handled)
               /\ evidence[e].failures < Cardinality(Handled)
    BY <2>1, <2>2, PartsAreFinite, EvidenceIsCounted DEF Counted
  <2>. QED BY <2>1, <2>2 DEF JunctionsAreCounted, JunctionCountsOnce, Typed
<1>. QED BY <1>1, Invariance, PTL

\* With a student who reads on and calls that end in time, a Quick Check is
\* only ever up at the junction whose answer raised it.
THEOREM CheckedInPlace == Spec => []QuickCheckAtItsJunction
<1>1. Inv => QuickCheckAtItsJunction
  BY DEF Inv, Calm, QuickCheckAtItsJunction
<1>. QED BY <1>1, Invariance, PTL

\* And the run stays where it is for as long as the Quick Check is on screen.
THEOREM HeldByQuickCheck == Spec => NeverAdvancesUnderQuickCheck
<1>1. Inv /\ [Next]_vars =>
        [Undisturbed /\ QuickCheckOpen => UNCHANGED position]_vars
  <2> SUFFICES ASSUME Inv, [Next]_vars, Undisturbed, QuickCheckOpen
               PROVE  UNCHANGED position
    OBVIOUS
  <2>1. Calm /\ pendingRemediation # None
    BY DEF Inv, QuickCheckOpen
  <2>2. \A w \in Waiters : ~Advance(w)
    BY <2>1 DEF Calm, Advance
  <2>3. ~ManualStep
    BY DEF Undisturbed, ManualStep
  <2>. QED
    BY <2>2, <2>3 DEF Next, vars, Progress, Submit, TryAgain, ShowAnswer, Continue,
       ReportsIn, Resume, HoldForReading, Render, Report, run, client,
       HandleJunctionOutcome, CallFails, HandleReply, MarkPresented,
       CompletePendingRemediation, ServeCheck, ContinueCheck, ServeTick, ServeTask
<1>. QED BY <1>1, Invariance, PTL DEF Spec, NeverAdvancesUnderQuickCheck

\* All the server sees of a run is behaviour of MisconceptionEvents: the loop
\* implements the callers that specification assumes, and with them everything
\* proved of it holds of the rows of a run.
THEOREM LoopCallsTheServer == Spec => Proved!Spec
<1>1. Init => Proved!Init
  BY SameInit DEF Init
<1>2. Inv /\ [Next]_vars => [Proved!Next]_Proved!vars
  BY ServedByHandlers, SameHandlers DEF Inv, server, Proved!vars
<1>. QED BY <1>1, <1>2, Invariance, PTL DEF Spec, Proved!Spec
=============================================================================
