------------------------- MODULE MisconceptionLoop -------------------------
(***************************************************************************)
(* The misconception loop of one practice run: the prediction zone, the    *)
(* algorithm page and the misconception store of the web client, composed  *)
(* with the server handlers of MisconceptionEvents.                        *)
(*                                                                         *)
(* A submitted answer goes its own way, concurrently with the run: its     *)
(* feedback streams in, its interaction row is written, and only then is   *)
(* the junction reported to the loop, which sends a junction tick and a    *)
(* detection or a probe, and may put up a Quick Check. The run meanwhile   *)
(* waits, for bounded times, before it moves on.                           *)
(***************************************************************************)
EXTENDS Integers, FiniteSets

CONSTANTS
  Topics, Categories, Events, Requests, None, MaxCalls,
  ABANDON_JUNCTION_THRESHOLD, ABANDON_SESSION_GAP, BOTTOM_OUT_REMEDIATION_COUNT,
  Last,        \* the final step of the run
  Junctions,   \* the steps at which the student predicts
  TileCount,   \* answer tiles on screen at each junction
  Probing,     \* the junctions that probe each category
  MaxAttempts, \* wrong attempts after which the answer is shown
  MaxAnswers,  \* bound: answers submitted in one behaviour
  Clicks,      \* bound: clicks on Continue at one junction
  Environments \* each of them what may go less than smoothly, out of Disturbances

\* "eagerStudent": goes on before the feedback to the last answer has ended.
\* "eagerClick": clicks Continue while the run is about to move on already.
\* "manualStep": steps with the transport instead of answering.
\* "slowCall": a call may outlast the time the run waits for it.
\* "failure": a call may fail.
Disturbances ==
  {"eagerStudent", "eagerClick", "manualStep", "slowCall", "failure"}

Answers == 1..MaxAnswers

ASSUME RunAssumption ==
  /\ Last \in Nat \ {0}
  /\ Junctions \subseteq 1..(Last - 1)
  /\ TileCount \in [Junctions -> {2, 3}]
  /\ Probing \in [Categories -> SUBSET Junctions]
  /\ MaxAttempts \in Nat \ {0}
  /\ MaxAnswers \in Nat
  /\ Environments \subseteq SUBSET Disturbances

ASSUME ServerAssumption ==
  /\ Topics # {}
  /\ None \notin Topics /\ None \notin Categories /\ None \notin Events
  /\ MaxCalls \in Nat
  /\ ABANDON_JUNCTION_THRESHOLD \in Nat
  /\ ABANDON_SESSION_GAP \in Nat
  /\ BOTTOM_OUT_REMEDIATION_COUNT \in Nat \ {0}

ASSUME SlotsAssumption ==
  Requests = ({"check", "tick"} \X Answers) \cup {<<"task", 0>>}

VARIABLES
  environment,  \* fixed: the disturbances of this behaviour
  rows, sessions, req, calls, evidence, \* the server's, see MisconceptionEvents
  answer,       \* every submitted answer, and how far its report has come
  position,     \* stepIndex of the run
  zone,         \* the prediction zone, as last rendered
  waits,        \* advances in preparation
  activeEvents, \* store: the events the client believes active
  handledBy,    \* store: the answer each junction instance was handled for
  pendingRemediation,      \* store: the Quick Check, None when there is none
  junctionRetryInProgress, \* page: keeps a Quick Check from showing
  ticks, tasks  \* ticks and task presentations sent, not yet at the server

server == <<rows, sessions, req, calls, evidence>>
run == <<position, zone, waits>>
store == <<activeEvents, handledBy, pendingRemediation>>
outbox == <<ticks, tasks>>
vars == <<environment, server, answer, run, store, junctionRetryInProgress, outbox>>

Server == INSTANCE MisconceptionEvents

----------------------------------------------------------------------------
(* Answers, the prediction zone and the Quick Check                        *)

Topic == CHOOSE t \in Topics : TRUE

\* Stages in which an answer counts in checksInFlight.
InFlight == {"logging", "asked", "serving", "replied"}
Stages == InFlight \cup {"none", "streaming", "done"}

NoAnswer == [stage |-> "none", at |-> 0, correct |-> FALSE, category |-> None,
             firstAttempt |-> FALSE, bottomedOut |-> FALSE,
             event |-> None, status |-> "NONE"]

Submitted == {n \in Answers : answer[n].stage # "none"}
checksInFlight == {n \in Answers : answer[n].stage \in InFlight}
Streaming(n) == answer[n].stage = "streaming"
Later(n, stage) == answer' = [answer EXCEPT ![n].stage = stage]

\* current is the submission whose token is valid, reports the wrong answers
\* of this visit (outcomeReportsRef), shown the step last rendered.
FreshZone(step) == [state |-> "idle", attempts |-> 0, revealed |-> FALSE,
                    resolved |-> FALSE, current |-> 0, reports |-> {},
                    shown |-> step]

Waiters == Clicks \cup {"auto"}
NoWaits == [w \in Waiters |-> "none"]
Waiting(w) == waits[w] # "none"

isLiveJunctionUnresolved == position \in Junctions /\ ~zone.resolved
QuickCheckOpen ==
  /\ pendingRemediation # None
  /\ ~junctionRetryInProgress
  /\ ~isLiveJunctionUnresolved

----------------------------------------------------------------------------
(* Deliberately wrong variants of definitions below, as in                 *)
(* MisconceptionEvents: none of them is used by an action.                 *)

\* The store's wait looks at the Quick Check only, not at checks in flight.
ClearIgnoringChecks == pendingRemediation = None

\* The store's wait looks at the checks in flight only.
ClearIgnoringTask == checksInFlight = {}

\* A junction instance can be handled again.
OnlyFirstAttempt(a) == a.firstAttempt

\* A report that keeps the retry flag of an answer that bottomed out.
RetryUnlessCorrect(a) == ~a.correct

----------------------------------------------------------------------------
(* Waiting, and when the student acts                                      *)

\* isClear of the store's waitForRemediation, before its deadline ...
Clear == pendingRemediation = None /\ checksInFlight = {}

\* ... and after it.
ClearAtDeadline == "slowCall" \in environment /\ pendingRemediation = None

\* No wait has resumed or is to resume now: a resumed wait runs before any
\* click, timer or reply is looked at.
Settled ==
  \A w \in Waiters : waits[w] # "ready" /\ (waits[w] = "checks" => ~Clear)

\* ... and the page has rendered the current step.
Rendered == zone.shown = position /\ Settled

StudentActs == Rendered /\ ~QuickCheckOpen

\* Whether the student has the feedback to every earlier answer.
FeedbackRead ==
  "eagerStudent" \in environment \/ \A n \in Answers : ~Streaming(n)

----------------------------------------------------------------------------
(* The prediction zone: submitting, retrying, giving up                    *)

Init ==
  /\ environment \in Environments
  /\ Server!Init
  /\ answer = [n \in Answers |-> NoAnswer]
  /\ position = 1
  /\ zone = FreshZone(1)
  /\ waits = NoWaits
  /\ activeEvents = {}
  /\ handledBy = [j \in Junctions |-> 0]
  /\ pendingRemediation = None
  /\ junctionRetryInProgress = FALSE
  /\ ticks = {}
  /\ tasks = {}

stepForward(step) == IF step < Last THEN step + 1 ELSE step
stepBackward(step) == IF step > 1 THEN step - 1 ELSE step

isFirstAttempt(correct, wrongAttempts) ==
  IF correct THEN wrongAttempts = 0 ELSE wrongAttempts = 1

\* handleSubmit up to the verdict. Resolving the junction clears the retry
\* flag; a wrong answer is one more report an advance has to wait for.
Submit(n, correct, category) ==
  LET attempts == zone.attempts + IF correct THEN 0 ELSE 1
      bottomed == ~correct /\ attempts >= MaxAttempts
      resolved == correct \/ bottomed
  IN /\ StudentActs /\ FeedbackRead
     /\ position \in Junctions
     /\ zone.state = "idle"
     /\ n = Cardinality(Submitted) + 1
     /\ correct => category = None
     /\ answer' = [answer EXCEPT ![n] =
          [NoAnswer EXCEPT !.stage = "streaming", !.at = position,
                           !.correct = correct, !.category = category,
                           !.firstAttempt = isFirstAttempt(correct, attempts),
                           !.bottomedOut = bottomed]]
     /\ zone' = [zone EXCEPT !.state = IF correct THEN "correct" ELSE "incorrect",
                             !.attempts = attempts, !.current = n,
                             !.revealed = bottomed, !.resolved = resolved,
                             !.reports = IF correct THEN @ ELSE @ \cup {n}]
     /\ junctionRetryInProgress' = (junctionRetryInProgress /\ ~resolved)
     /\ waits' = [waits EXCEPT !["auto"] = IF correct THEN "reports" ELSE @]
     /\ UNCHANGED <<environment, server, position, store, outbox>>

\* "Try again", or the automatic reset below HIGH support.
TryAgain ==
  /\ StudentActs /\ FeedbackRead
  /\ zone.state = "incorrect" /\ ~zone.revealed
  /\ zone' = [zone EXCEPT !.state = "idle", !.current = 0]
  /\ UNCHANGED <<environment, server, answer, position, waits, store, junctionRetryInProgress, outbox>>

\* "Show me the answer": resolves the junction without an answer.
ShowAnswer ==
  /\ StudentActs /\ FeedbackRead
  /\ zone.state = "incorrect" /\ ~zone.revealed
  /\ zone' = [zone EXCEPT !.revealed = TRUE, !.resolved = TRUE]
  /\ junctionRetryInProgress' = FALSE
  /\ UNCHANGED <<environment, server, answer, position, waits, store, outbox>>

\* Each click on Continue prepares an advance of its own.
Continue(c) ==
  /\ StudentActs
  /\ zone.state = "incorrect" /\ zone.revealed
  /\ ~Waiting(c)
  /\ \/ "eagerClick" \in environment
     \/ zone.attempts < MaxAttempts /\ waits = NoWaits
  /\ waits' = [waits EXCEPT ![c] = "reports"]
  /\ UNCHANGED <<environment, server, answer, position, zone, store, junctionRetryInProgress, outbox>>

ManualStep ==
  /\ "manualStep" \in environment
  /\ StudentActs
  /\ position' \in {stepForward(position), stepBackward(position)}
  /\ UNCHANGED <<environment, server, answer, zone, waits, store, junctionRetryInProgress, outbox>>

----------------------------------------------------------------------------
(* Advancing                                                               *)

\* PredictionZone.waitForRemediation: first the reports, up to
\* OUTCOME_REPORT_WAIT_MS, then the store, which may be clear already.
ReportsIn(w) ==
  /\ Rendered
  /\ waits[w] = "reports"
  /\ "slowCall" \in environment \/ \A n \in zone.reports : ~Streaming(n)
  /\ waits' = [waits EXCEPT ![w] = IF Clear THEN "ready" ELSE "checks"]
  /\ UNCHANGED <<environment, server, answer, position, zone, store, junctionRetryInProgress, outbox>>

\* Every advance waiting on the store resumes on the same state change; one
\* whose deadline passes resumes alone.
Resume ==
  /\ zone.shown = position
  /\ \E S \in SUBSET {w \in Waiters : waits[w] = "checks"} :
       /\ S # {}
       /\ \/ Clear /\ S = {w \in Waiters : waits[w] = "checks"}
          \/ ClearAtDeadline /\ Cardinality(S) = 1
       /\ waits' = [w \in Waiters |-> IF w \in S THEN "ready" ELSE waits[w]]
  /\ UNCHANGED <<environment, server, answer, position, zone, store, junctionRetryInProgress, outbox>>

\* After a correct answer the explanation is held for reading first.
HoldForReading ==
  /\ waits["auto"] = "ready" /\ zone.state = "correct"
  /\ waits' = [waits EXCEPT !["auto"] = "reading"]
  /\ UNCHANGED <<environment, server, answer, position, zone, store, junctionRetryInProgress, outbox>>

\* The advance itself. The token it checks changes only on the next render.
Advance(w) ==
  /\ \/ waits[w] = "ready" /\ zone.state = "incorrect"
     \/ /\ waits[w] = "reading" /\ Rendered
        /\ "slowCall" \in environment \/ ~Streaming(zone.current)
  /\ position' = stepForward(position)
  /\ waits' = [waits EXCEPT ![w] = "none"]
  /\ UNCHANGED <<environment, server, answer, zone, store, junctionRetryInProgress, outbox>>

\* The per-step effect of the prediction zone: everything starts afresh and
\* the advances still in preparation are void.
Render ==
  /\ zone.shown # position
  /\ \A w \in Waiters : waits[w] # "ready"
  /\ zone' = FreshZone(position)
  /\ waits' = NoWaits
  /\ UNCHANGED <<environment, server, answer, position, store, junctionRetryInProgress, outbox>>

----------------------------------------------------------------------------
(* Reporting an answer and the loop                                        *)

\* The retry flag an answer leaves when it is reported.
retryAfter(a) == ~a.correct /\ ~a.bottomedOut

\* The feedback stream of an answer ends: handlePredictionResult, and, if the
\* answer bottomed out and is still on screen, the automatic advance.
Report(n) ==
  /\ Settled
  /\ Streaming(n)
  /\ Later(n, "logging")
  /\ junctionRetryInProgress' = retryAfter(answer[n])
  /\ waits' = IF answer[n].bottomedOut /\ zone.current = n
              THEN [waits EXCEPT !["auto"] = "reports"] ELSE waits
  /\ UNCHANGED <<environment, server, position, zone, store, outbox>>

\* Which answers the loop acts on.
actedOn(a) == a.firstAttempt /\ handledBy[a.at] = 0

\* The events a detection of category c, or an answer at junction j, is about.
openForCategory(c) == {e \in activeEvents : rows[e].category = c}
probedAt(j) == {e \in activeEvents : j \in Probing[rows[e].category]}

\* The interaction is written: handleJunctionOutcome, up to its first await.
HandleJunctionOutcome(n) ==
  LET a == answer[n]
      category == IF a.category # None /\ Probing[a.category] # {}
                  THEN a.category ELSE None
      detects == /\ category # None
                 /\ openForCategory(category) = {} \/ a.at \notin Probing[category]
      probed == IF category # None THEN openForCategory(category) ELSE probedAt(a.at)
  IN /\ Settled
     /\ a.stage = "logging"
     /\ IF ~actedOn(a)
        THEN Later(n, "done") /\ UNCHANGED <<environment, handledBy, ticks>>
        ELSE /\ handledBy' = [handledBy EXCEPT ![a.at] = n]
             /\ ticks' = IF activeEvents # {} THEN ticks \cup {n} ELSE ticks
             /\ IF detects THEN Later(n, "asked")
                ELSE IF probed = {} THEN Later(n, "done")
                ELSE \E e \in probed :
                       answer' = [answer EXCEPT ![n].stage = "asked", ![n].event = e]
     /\ UNCHANGED <<environment, server, run, activeEvents, pendingRemediation,
                    junctionRetryInProgress, tasks>>

\* Any call of the report may fail: the loop just ends.
CallFails(n) ==
  /\ "failure" \in environment
  /\ Settled
  /\ answer[n].stage \in {"logging", "asked", "replied"}
  /\ Later(n, "done")
  /\ UNCHANGED <<environment, server, run, store, junctionRetryInProgress, outbox>>

upsertEvent(e, status) ==
  IF status \in Server!ACTIVE_STATUSES THEN activeEvents \cup {e}
  ELSE activeEvents \ {e}

\* The rest of handleJunctionOutcome: the reply updates the list, and an
\* event that escalated gets a task unless one is waiting already.
HandleReply(n) ==
  LET a == answer[n]
      shouldEscalate == ~a.correct /\ a.status \in Server!ACTIVE_STATUSES
  IN /\ Settled
     /\ a.stage = "replied"
     /\ activeEvents' = upsertEvent(a.event, a.status)
     /\ pendingRemediation' =
          IF shouldEscalate /\ pendingRemediation = None
          THEN [event |-> a.event, raisedBy |-> n, presented |-> FALSE]
          ELSE pendingRemediation
     /\ Later(n, "done")
     /\ UNCHANGED <<environment, server, run, handledBy, junctionRetryInProgress, outbox>>

\* The modal mounts: the task is recorded as presented.
MarkPresented ==
  /\ Settled /\ QuickCheckOpen
  /\ ~pendingRemediation.presented
  /\ pendingRemediation' = [pendingRemediation EXCEPT !.presented = TRUE]
  /\ tasks' = tasks \cup {pendingRemediation.event}
  /\ UNCHANGED <<environment, server, answer, run, activeEvents, handledBy,
                 junctionRetryInProgress, ticks>>

\* The student answers or skips it.
CompletePendingRemediation ==
  /\ Settled /\ QuickCheckOpen
  /\ pendingRemediation.presented
  /\ pendingRemediation' = None
  /\ UNCHANGED <<environment, server, answer, run, activeEvents, handledBy,
                 junctionRetryInProgress, outbox>>

----------------------------------------------------------------------------
(* The server at work on the calls of this client                          *)

Check(n) == <<"check", n>>
Tick(n) == <<"tick", n>>
client == <<run, store, junctionRetryInProgress>>

ReplyWith(n, e) ==
  answer' = [answer EXCEPT ![n].stage = "replied", ![n].event = e,
                           ![n].status = rows'[e].status]

\* A detection or probe reaches the server.
ServeCheck(n) ==
  LET a == answer[n]
  IN /\ a.stage = "asked"
     /\ \/ /\ a.event = None
           /\ Server!DetectFindActive(Check(n), Topic, a.category)
           /\ Later(n, "serving")
        \/ /\ a.event # None
           /\ Server!ProbeRead(Check(n), a.event,
                [optionCount |-> TileCount[a.at], correct |-> a.correct,
                 hintUsed |-> FALSE])
           /\ IF Server!Active(a.event) THEN Later(n, "serving")
              ELSE ReplyWith(n, a.event)
     /\ UNCHANGED <<environment, client, outbox>>

\* Its further steps, the last of which replies.
ContinueCheck(n) ==
  LET r == Check(n)
  IN /\ answer[n].stage = "serving"
     /\ \/ /\ Server!DetectFindPersistent(r)
           /\ LET found == Server!PersistentFor(Topic, answer[n].category)
              IN IF found = {} THEN UNCHANGED answer
                 ELSE \E e \in found : ReplyWith(n, e)
        \/ /\ Server!DetectCreate(r)
           /\ \E e \in Events : /\ rows[e].status = "NONE"
                                /\ rows'[e].status # "NONE"
                                /\ ReplyWith(n, e)
        \/ /\ Server!DetectEscalate(r) \/ Server!ProbeWrite(r)
           /\ \E e \in req[r].todo : ReplyWith(n, e)
        \/ /\ "failure" \in environment
           /\ Server!Fail(r)
           /\ Later(n, "done")
     /\ UNCHANGED <<environment, client, outbox>>

\* The tick was sent without waiting for it: nothing comes back.
ServeTick(n) ==
  /\ \/ /\ n \in ticks
        /\ Server!TickRead(Tick(n), Topic)
        /\ ticks' = ticks \ {n}
     \/ Server!TickWrite(Tick(n)) /\ UNCHANGED ticks
     \/ /\ "failure" \in environment
        /\ Server!Fail(Tick(n))
        /\ UNCHANGED ticks
  /\ UNCHANGED <<environment, client, answer, tasks>>

ServeTask ==
  /\ \E e \in tasks : /\ Server!PresentRemediation(<<"task", 0>>, e)
                      /\ tasks' = tasks \ {e}
  /\ UNCHANGED <<environment, client, answer, ticks>>

----------------------------------------------------------------------------

Progress(n) ==
  \/ Report(n)
  \/ HandleJunctionOutcome(n)
  \/ HandleReply(n)
  \/ ServeCheck(n)
  \/ ContinueCheck(n)
  \/ ServeTick(n)

Next ==
  \/ \E n \in Answers, correct \in BOOLEAN, c \in Categories \cup {None} :
       Submit(n, correct, c)
  \/ TryAgain
  \/ ShowAnswer
  \/ \E c \in Clicks : Continue(c)
  \/ ManualStep
  \/ \E w \in Waiters : ReportsIn(w) \/ Advance(w)
  \/ Resume
  \/ HoldForReading
  \/ Render
  \/ \E n \in Answers : Progress(n) \/ CallFails(n)
  \/ MarkPresented
  \/ CompletePendingRemediation
  \/ ServeTask

Spec == Init /\ [][Next]_vars

\* Calls are answered in the end, timers fire, React renders, and a Quick
\* Check that is on screen is answered or skipped. Nothing is assumed of what
\* the student does with the junction.
Fairness ==
  /\ \A n \in Answers : WF_vars(Progress(n))
  /\ \A w \in Waiters : WF_vars(ReportsIn(w)) /\ WF_vars(Advance(w))
  /\ WF_vars(Resume) /\ WF_vars(HoldForReading) /\ WF_vars(Render)
  /\ WF_vars(MarkPresented) /\ WF_vars(CompletePendingRemediation)

FairSpec == Spec /\ Fairness

----------------------------------------------------------------------------
(* Properties                                                              *)

\* Every variable of the client is in a state the client can be in.
TypeOK ==
  /\ answer \in [Answers ->
       [stage: Stages, at: Junctions \cup {0}, correct: BOOLEAN,
        category: Categories \cup {None}, firstAttempt: BOOLEAN,
        bottomedOut: BOOLEAN, event: Events \cup {None},
        status: Server!ACTIVE_STATUSES \cup Server!ClosedStatuses \cup {"NONE"}]]
  /\ position \in 1..Last
  /\ zone \in [state: {"idle", "correct", "incorrect"}, attempts: 0..MaxAttempts,
              revealed: BOOLEAN, resolved: BOOLEAN, current: Answers \cup {0},
              reports: SUBSET Answers, shown: 1..Last]
  /\ waits \in [Waiters -> {"none", "reports", "checks", "ready", "reading"}]
  /\ activeEvents \subseteq Events
  /\ handledBy \in [Junctions -> Answers \cup {0}]
  /\ pendingRemediation \in
       [event: Events, raisedBy: Answers, presented: BOOLEAN] \cup {None}
  /\ junctionRetryInProgress \in BOOLEAN
  /\ ticks \subseteq Answers /\ tasks \subseteq Events

Handled == {j \in Junctions : handledBy[j] # 0}

\* A junction instance counts at most once, however often it is answered,
\* revisited or reported late, and an event is only ever probed at other
\* instances than the one it was detected at: there are always more instances
\* the loop acted on than probes, or failures, of one event.
JunctionCountsOnce ==
  \A e \in Events : rows[e].status # "NONE" =>
    /\ evidence[e].ticks <= Cardinality(Handled)
    /\ evidence[e].evaluated < Cardinality(Handled)
    /\ evidence[e].failures < Cardinality(Handled)

\* A student who reads on before acting, and calls that end, even if they
\* fail, before their wait does.
Undisturbed == environment \subseteq {"failure"}

\* Undisturbed, the run does not move on while a Quick Check is on screen
\* (waitForRemediation of the misconception store).
NeverAdvancesUnderQuickCheck ==
  [][Undisturbed /\ QuickCheckOpen => UNCHANGED position]_vars

\* Undisturbed, a Quick Check comes up at the junction whose answer raised it, never on
\* top of a later one.
QuickCheckAtItsJunction ==
  Undisturbed /\ pendingRemediation # None => answer[pendingRemediation.raisedBy].at = position

\* Undisturbed, an advance in preparation is made, or becomes void, in the
\* end: the run never waits for ever for reports, checks or a Quick Check.
RunMovesOn == \A w \in Waiters : Undisturbed /\ Waiting(w) ~> ~Waiting(w)

\* Under every disturbance the client's state is well formed and no junction
\* counts twice.
JunctionsAreCounted == TypeOK /\ JunctionCountsOnce

============================================================================
