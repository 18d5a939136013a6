------------------------ MODULE MisconceptionEvents ------------------------
(***************************************************************************)
(* The response half of misconception handling in the API: the             *)
(* MisconceptionEvent rows of one student and the handlers of              *)
(* apps/api/src/services/misconceptionEvent.service.ts that change them.   *)
(*                                                                         *)
(* A handler is a sequence of database calls with an `await' between them. *)
(* Every call is one atomic step here; what a handler read earlier is kept *)
(* in its request record and is used, possibly stale, by its later steps.  *)
(* Any number of requests of the student may be in progress at once (the   *)
(* client sends the junction tick without waiting for it, and a student    *)
(* may have two tabs open).                                                *)
(***************************************************************************)
EXTENDS Integers, Sequences, FiniteSets

CONSTANTS
  Topics,       \* algorithm topics
  Categories,   \* misconception categories
  Events,       \* identities of event rows, created or not
  Requests,     \* requests that may be in progress at the same time
  None,         \* null
  MaxCalls,     \* bound: calls the student makes in one behaviour
  ABANDON_JUNCTION_THRESHOLD,
  ABANDON_SESSION_GAP,
  BOTTOM_OUT_REMEDIATION_COUNT

ASSUME ThresholdsAssumption ==
  /\ ABANDON_JUNCTION_THRESHOLD \in Nat
  /\ ABANDON_SESSION_GAP \in Nat
  /\ BOTTOM_OUT_REMEDIATION_COUNT \in Nat \ {0}

ASSUME BoundAssumption == MaxCalls \in Nat

ASSUME NoneAssumption ==
  None \notin Topics /\ None \notin Categories /\ None \notin Events

VARIABLES
  rows,      \* the event row of each identity
  sessions,  \* topics of the sessions the student started, oldest first
  req,       \* what each request in progress has read and has still to do
  calls,     \* calls made so far
  evidence   \* history: what the student really showed for each event

vars == <<rows, sessions, req, calls, evidence>>

----------------------------------------------------------------------------
(* Rows, requests and history                                              *)

ACTIVE_STATUSES == {"OPEN", "REMEDIATED"}
ClosedStatuses == {"RESOLVED", "PERSISTENT", "ABANDONED"}

\* "NONE" marks an identity that no row has yet.
Row == [topic: Topics \cup {None}, category: Categories \cup {None},
        status: ACTIVE_STATUSES \cup ClosedStatuses \cup {"NONE"},
        remediationCount: Nat, probeCount: Nat, consecutiveCorrect: Nat,
        junctionsSinceDetection: Nat, bottomedOut: BOOLEAN,
        resolvedAt: BOOLEAN, detectedAt: Nat]

NoRow == [topic |-> None, category |-> None, status |-> "NONE",
          remediationCount |-> 0, probeCount |-> 0, consecutiveCorrect |-> 0,
          junctionsSinceDetection |-> 0, bottomedOut |-> FALSE,
          resolvedAt |-> FALSE, detectedAt |-> 0]

\* The answer a probe reports: tiles on screen, right or wrong, hint or not.
Answer == [optionCount: {2, 3}, correct: BOOLEAN, hintUsed: BOOLEAN]

Steps == {"idle", "findPersistent", "create", "escalate", "probe", "tick",
          "findStale", "lastOnTopic", "countElsewhere", "abandon"}

\* seen holds the rows as the handler read them, todo those it has not
\* finished with, cursor the one its loop is at, since the session (by
\* position) after which it counts.
Request == [step: Steps, topic: Topics \cup {None},
            category: Categories \cup {None}, answer: Answer,
            todo: SUBSET Events, seen: [Events -> Row],
            cursor: Events \cup {None}, since: Nat]

Idle == [step |-> "idle", topic |-> None, category |-> None,
         answer |-> [optionCount |-> 2, correct |-> FALSE, hintUsed |-> FALSE],
         todo |-> {}, seen |-> [e \in Events |-> NoRow],
         cursor |-> None, since |-> 0]

\* streak: clean correct probes since the last wrong, hinted or repeated one;
\* tiles: tiles of the last probe; failures: wrong probes and repeat
\* detections; evaluated: probes evaluated; ticks: junctions counted.
Evidence == [streak: Nat, tiles: {2, 3}, failures: Nat, evaluated: Nat,
             ticks: Nat]

NoEvidence == [streak |-> 0, tiles |-> 2, failures |-> 0, evaluated |-> 0,
               ticks |-> 0]

Repeated(h) == [h EXCEPT !.streak = 0, !.failures = @ + 1]

Probed(h, a) ==
  [h EXCEPT !.streak = IF a.correct /\ ~a.hintUsed THEN @ + 1 ELSE 0,
            !.failures = IF a.correct THEN @ ELSE @ + 1,
            !.tiles = a.optionCount,
            !.evaluated = @ + 1]

Ticked(h) == [h EXCEPT !.ticks = @ + 1]

Active(e) == rows[e].status \in ACTIVE_STATUSES
Closed(e) == rows[e].status \in ClosedStatuses
ForKey(e, t, c) == rows[e].topic = t /\ rows[e].category = c
PersistentFor(t, c) ==
  {e \in Events : rows[e].status = "PERSISTENT" /\ ForKey(e, t, c)}

\* Of the sessions ss, those on a topic other than t after position since.
Elsewhere(ss, t, since) == {i \in 1..Len(ss) : i > since /\ ss[i] # t}

Reading(S) == [e \in Events |-> IF e \in S THEN rows[e] ELSE NoRow]

----------------------------------------------------------------------------
(* Deliberately wrong variants of definitions below. No action uses one:   *)
(* each takes the place of the definition it is named for, to show that a  *)
(* property notices the difference.                                        *)

\* evaluateProbe counting the failures one ahead.
BottomOutEarly(row, a) ==
  LET count == row.remediationCount + IF a.correct THEN 0 ELSE 1
      bottomed == ~a.correct /\ count + 1 >= BOTTOM_OUT_REMEDIATION_COUNT
  IN [consecutiveCorrect |-> 0, remediationCount |-> count,
      status |-> IF bottomed THEN "PERSISTENT" ELSE "OPEN",
      bottomedOut |-> bottomed]

\* evaluateProbe letting a hinted correct answer keep the streak.
HintKeepsStreak(row, a) ==
  [consecutiveCorrect |-> IF ~a.correct THEN 0
                          ELSE IF a.hintUsed THEN row.consecutiveCorrect
                          ELSE row.consecutiveCorrect + 1,
   remediationCount |-> row.remediationCount + IF a.correct THEN 0 ELSE 1,
   status |-> "OPEN", bottomedOut |-> FALSE]

\* The two-way and the three-way rule exchanged.
RequiredSwapped(optionCount) == IF optionCount >= 3 THEN 2 ELSE 1

\* probeCount set from the row read earlier instead of incremented in place.
ProbeCountFromRead(r, e) == req[r].seen[e].probeCount + 1

\* probeCount decremented instead of incremented.
ProbeCountDown(r, e) == rows[e].probeCount - 1

\* Abandons on reaching the threshold instead of on passing it.
AbandonAtThreshold(junctions) == junctions >= ABANDON_JUNCTION_THRESHOLD

\* Only an OPEN event, not a REMEDIATED one, stands in for a new one.
OpenFor(t, c) ==
  {e \in Events : rows[e].status = "OPEN" /\ ForKey(e, t, c)}

----------------------------------------------------------------------------
(* The decision rules                                                      *)

requiredConsecutiveCorrect(optionCount) == IF optionCount >= 3 THEN 1 ELSE 2

\* The fields a probe writes, computed from the row as it was read.
evaluateProbe(row, a) ==
  IF a.correct
  THEN LET streak == IF a.hintUsed THEN 0 ELSE row.consecutiveCorrect + 1
       IN [consecutiveCorrect |-> streak,
           remediationCount |-> row.remediationCount,
           status |-> IF /\ ~a.hintUsed
                         /\ streak >= requiredConsecutiveCorrect(a.optionCount)
                      THEN "RESOLVED" ELSE "OPEN",
           bottomedOut |-> FALSE]
  ELSE LET count == row.remediationCount + 1
           bottomed == count >= BOTTOM_OUT_REMEDIATION_COUNT
       IN [consecutiveCorrect |-> 0,
           remediationCount |-> count,
           status |-> IF bottomed THEN "PERSISTENT" ELSE "OPEN",
           bottomedOut |-> bottomed]

evaluateRepeatDetection(row) ==
  evaluateProbe(row, [optionCount |-> 2, correct |-> FALSE, hintUsed |-> FALSE])

shouldAbandonByJunctionCount(junctions) == junctions > ABANDON_JUNCTION_THRESHOLD

shouldAbandonBySessionGap(count) == count >= ABANDON_SESSION_GAP

ActiveFor(t, c) == {e \in Events : Active(e) /\ ForKey(e, t, c)}

----------------------------------------------------------------------------
(* The handlers                                                            *)

Init ==
  /\ rows = [e \in Events |-> NoRow]
  /\ sessions = <<>>
  /\ req = [r \in Requests |-> Idle]
  /\ calls = 0
  /\ evidence = [e \in Events |-> NoEvidence]

\* A new call takes a request that is not in progress.
Arrive(r) ==
  /\ req[r].step = "idle"
  /\ calls < MaxCalls
  /\ calls' = calls + 1

At(r, step) == req[r].step = step /\ UNCHANGED calls

Local(r, record) == req' = [req EXCEPT ![r] = record]
Finish(r) == Local(r, Idle)

\* The first query of detectOrEscalate.
DetectFindActive(r, t, c) ==
  /\ Arrive(r)
  /\ \/ \E e \in ActiveFor(t, c) :
          Local(r, [Idle EXCEPT !.step = "escalate", !.todo = {e},
                                !.seen = Reading({e})])
     \/ /\ ActiveFor(t, c) = {}
        /\ Local(r, [Idle EXCEPT !.step = "findPersistent",
                                 !.topic = t, !.category = c])
  /\ UNCHANGED <<rows, sessions, evidence>>

\* Its second query, made when the first found nothing.
DetectFindPersistent(r) ==
  /\ At(r, "findPersistent")
  /\ IF PersistentFor(req[r].topic, req[r].category) # {}
     THEN Finish(r)
     ELSE Local(r, [req[r] EXCEPT !.step = "create"])
  /\ UNCHANGED <<rows, sessions, evidence>>

DetectCreate(r) ==
  /\ At(r, "create")
  /\ \E e \in Events :
       /\ rows[e].status = "NONE"
       /\ rows' = [rows EXCEPT ![e] =
            [NoRow EXCEPT !.topic = req[r].topic, !.category = req[r].category,
                          !.status = "OPEN", !.detectedAt = Len(sessions)]]
  /\ Finish(r)
  /\ UNCHANGED <<sessions, evidence>>

\* The fields both writers of an evaluation set; the rest of the row stays.
Evaluated(row, v) ==
  [row EXCEPT !.consecutiveCorrect = v.consecutiveCorrect,
              !.remediationCount = v.remediationCount,
              !.status = v.status, !.bottomedOut = v.bottomedOut]

DetectEscalate(r) ==
  /\ At(r, "escalate")
  /\ \E e \in req[r].todo :
       /\ rows' = [rows EXCEPT ![e] =
            Evaluated(@, evaluateRepeatDetection(req[r].seen[e]))]
       /\ evidence' = [evidence EXCEPT ![e] = Repeated(@)]
  /\ Finish(r)
  /\ UNCHANGED sessions

\* recordProbe reads the row; a probe of a closed event is only logged.
ProbeRead(r, e, a) ==
  /\ Arrive(r)
  /\ rows[e].status # "NONE"
  /\ IF Active(e)
     THEN Local(r, [Idle EXCEPT !.step = "probe", !.answer = a,
                                !.todo = {e}, !.seen = Reading({e})])
     ELSE Finish(r)
  /\ UNCHANGED <<rows, sessions, evidence>>

\* probeCount: { increment: 1 } is applied by the database.
probeCountWritten(r, e) == rows[e].probeCount + 1

\* The row a probe leaves; resolvedAt is set on resolving, never cleared.
ProbedRow(row, v, count) ==
  [Evaluated(row, v) EXCEPT !.probeCount = count,
                            !.resolvedAt = @ \/ v.status = "RESOLVED"]

\* Its transaction: the probe row and the event row, together.
ProbeWrite(r) ==
  /\ At(r, "probe")
  /\ \E e \in req[r].todo :
       /\ rows' = [rows EXCEPT ![e] =
            ProbedRow(@, evaluateProbe(req[r].seen[e], req[r].answer),
                      probeCountWritten(r, e))]
       /\ evidence' = [evidence EXCEPT ![e] = Probed(@, req[r].answer)]
  /\ Finish(r)
  /\ UNCHANGED sessions

\* presentRemediation: all it read before its transaction is whose event it
\* is, which never changes, so the handler is one step.
PresentRemediation(r, e) ==
  /\ Arrive(r)
  /\ rows[e].status # "NONE"
  /\ rows' = [rows EXCEPT ![e].status = "REMEDIATED"]
  /\ UNCHANGED <<sessions, req, evidence>>

\* Goes on to the loop over the rows found, or ends when there are none.
Loop(r, step, S) ==
  IF S = {} THEN Finish(r)
  ELSE Local(r, [req[r] EXCEPT !.step = step, !.todo = S,
                               !.seen = [e \in Events |->
                                  IF e \in S THEN @[e] ELSE NoRow]])

ActiveOn(t) == {e \in Events : Active(e) /\ rows[e].topic = t}

\* incrementJunctionsSinceDetection reads the active rows of the topic ...
TickRead(r, t) ==
  /\ Arrive(r)
  /\ IF ActiveOn(t) = {} THEN Finish(r)
     ELSE Local(r, [Idle EXCEPT !.step = "tick", !.todo = ActiveOn(t),
                                !.seen = Reading(ActiveOn(t))])
  /\ UNCHANGED <<rows, sessions, evidence>>

\* The row a tick leaves: count and status both come from what was read.
TickedRow(row, read) ==
  LET junctions == read.junctionsSinceDetection + 1
  IN [row EXCEPT !.junctionsSinceDetection = junctions,
                 !.status = IF shouldAbandonByJunctionCount(junctions)
                            THEN "ABANDONED" ELSE read.status]

\* ... and writes each of them back, one at a time.
TickWrite(r) ==
  /\ At(r, "tick")
  /\ \E e \in req[r].todo :
       /\ rows' = [rows EXCEPT ![e] = TickedRow(@, req[r].seen[e])]
       /\ evidence' = [evidence EXCEPT ![e] = Ticked(@)]
       /\ Loop(r, "tick", req[r].todo \ {e})
  /\ UNCHANGED sessions

\* createSession adds the session row, then checks for stale events.
CreateSession(r, t) ==
  /\ Arrive(r)
  /\ sessions' = Append(sessions, t)
  /\ Local(r, [Idle EXCEPT !.step = "findStale", !.topic = t])
  /\ UNCHANGED <<rows, evidence>>

\* The session-check endpoint runs the same check and adds no session.
SessionCheck(r, t) ==
  /\ Arrive(r)
  /\ Local(r, [Idle EXCEPT !.step = "findStale", !.topic = t])
  /\ UNCHANGED <<rows, sessions, evidence>>

\* checkStaleEventsOnSessionStart: the active events on the other topics.
StaleFind(r) ==
  /\ At(r, "findStale")
  /\ LET S == {e \in Events : Active(e) /\ rows[e].topic # req[r].topic}
     IN IF S = {} THEN Finish(r)
        ELSE Local(r, [req[r] EXCEPT !.step = "lastOnTopic", !.todo = S,
                                     !.seen = Reading(S)])
  /\ UNCHANGED <<rows, sessions, evidence>>

\* The last session on the topic, or the detection if there was none.
IsSince(row, i) ==
  IF \E j \in DOMAIN sessions : sessions[j] = row.topic
  THEN /\ i \in DOMAIN sessions
       /\ sessions[i] = row.topic
       /\ \A j \in DOMAIN sessions : j > i => sessions[j] # row.topic
  ELSE i = row.detectedAt

StaleLastOnTopic(r) ==
  /\ At(r, "lastOnTopic")
  /\ \E e \in req[r].todo, i \in 0..Len(sessions) :
       /\ IsSince(req[r].seen[e], i)
       /\ Local(r, [req[r] EXCEPT !.step = "countElsewhere",
                                  !.cursor = e, !.since = i])
  /\ UNCHANGED <<rows, sessions, evidence>>

StaleCountElsewhere(r) ==
  /\ At(r, "countElsewhere")
  /\ \E e \in req[r].todo :
       /\ e = req[r].cursor
       /\ IF shouldAbandonBySessionGap(
               Cardinality(Elsewhere(sessions, req[r].seen[e].topic, req[r].since)))
          THEN Local(r, [req[r] EXCEPT !.step = "abandon"])
          ELSE Loop(r, "lastOnTopic", req[r].todo \ {e})
  /\ UNCHANGED <<rows, sessions, evidence>>

StaleAbandon(r) ==
  /\ At(r, "abandon")
  /\ \E e \in req[r].todo :
       /\ e = req[r].cursor
       /\ rows' = [rows EXCEPT ![e].status = "ABANDONED"]
       /\ Loop(r, "lastOnTopic", req[r].todo \ {e})
  /\ UNCHANGED <<sessions, evidence>>

\* Any database call may fail: the handler throws, the router answers 500
\* (createSession ignores it) and the steps that were left are never made.
Fail(r) ==
  /\ req[r].step # "idle"
  /\ Finish(r)
  /\ UNCHANGED <<rows, sessions, calls, evidence>>

Next ==
  \E r \in Requests :
    \/ \E t \in Topics, c \in Categories : DetectFindActive(r, t, c)
    \/ DetectFindPersistent(r)
    \/ DetectCreate(r)
    \/ DetectEscalate(r)
    \/ \E e \in Events, a \in Answer : ProbeRead(r, e, a)
    \/ ProbeWrite(r)
    \/ \E t \in Topics : TickRead(r, t)
    \/ TickWrite(r)
    \/ \E t \in Topics : CreateSession(r, t)
    \/ \E t \in Topics : SessionCheck(r, t)
    \/ StaleFind(r)
    \/ StaleLastOnTopic(r)
    \/ StaleCountElsewhere(r)
    \/ StaleAbandon(r)
    \/ \E e \in Events : PresentRemediation(r, e)
    \/ Fail(r)

Spec == Init /\ [][Next]_vars

----------------------------------------------------------------------------
(* Properties that hold however the requests interleave                    *)

\* Every row, request and history record is one the program can hold.
TypeOK ==
  /\ rows \in [Events -> Row]
  /\ sessions \in Seq(Topics)
  /\ req \in [Requests -> Request]
  /\ calls \in Nat
  /\ evidence \in [Events -> Evidence]

\* ABANDON_SESSION_GAP of the sessions ss are on other topics than t.
LeftFor(ss, t) == Cardinality(Elsewhere(ss, t, 0)) >= ABANDON_SESSION_GAP

RowEarned(e) ==
  /\ rows[e].remediationCount <= evidence[e].failures
  /\ rows[e].junctionsSinceDetection <= evidence[e].ticks
  /\ rows[e].probeCount = evidence[e].evaluated
  /\ rows[e].status = "NONE" => rows[e].probeCount = 0
  /\ rows[e].status = "PERSISTENT" \/ rows[e].bottomedOut
       => rows[e].remediationCount >= BOTTOM_OUT_REMEDIATION_COUNT
  /\ rows[e].status = "ABANDONED"
       => \/ evidence[e].ticks > ABANDON_JUNCTION_THRESHOLD
          \/ LeftFor(sessions, rows[e].topic)

ReadBehind(r, e) ==
  /\ rows[e].status # "NONE"
  /\ req[r].seen[e].topic = rows[e].topic
  /\ req[r].seen[e].remediationCount <= evidence[e].failures
  /\ req[r].seen[e].junctionsSinceDetection <= evidence[e].ticks
  /\ req[r].step = "tick" => req[r].seen[e].status \in ACTIVE_STATUSES
  /\ req[r].step = "abandon" /\ req[r].cursor = e
       => LeftFor(sessions, rows[e].topic)

\* Nothing a row says, and nothing a handler in progress has read and will
\* write back, is ahead of what the student really did: counts may be behind
\* (a lost update) but a failure, a junction or a status is never invented.
HistoryInv ==
  /\ \A e \in Events : RowEarned(e)
  /\ \A r \in Requests : \A e \in req[r].todo : ReadBehind(r, e)

\* A misconception is recorded as persistent (and bottomed out) only when
\* the student really failed on it BOTTOM_OUT_REMEDIATION_COUNT times: racing
\* writes from stale reads can lose a failure, never count one twice.
PersistentEarned ==
  \A e \in Events :
    rows[e].status = "PERSISTENT" \/ rows[e].bottomedOut
      => evidence[e].failures >= BOTTOM_OUT_REMEDIATION_COUNT

\* The row's probeCount is the number of probes evaluated for it, however
\* many transactions of recordProbe were in progress together.
ProbeCountExact ==
  \A e \in Events : rows[e].probeCount = evidence[e].evaluated

\* An event is abandoned only after more than ABANDON_JUNCTION_THRESHOLD
\* junctions were counted for it, or after ABANDON_SESSION_GAP sessions on
\* other topics: no stale write of the tick loop abandons it sooner.
AbandonedForCause ==
  \A e \in Events : rows[e].status = "ABANDONED" =>
    \/ evidence[e].ticks > ABANDON_JUNCTION_THRESHOLD
    \/ LeftFor(sessions, rows[e].topic)

----------------------------------------------------------------------------
(* Properties of one request at a time                                     *)

\* The row tells the student's whole history with the event: the failures,
\* the junctions and the current streak of clean probes, none lost or stale.
NoLostEvidence ==
  \A e \in Events :
    /\ rows[e].remediationCount = evidence[e].failures
    /\ rows[e].consecutiveCorrect = evidence[e].streak
    /\ rows[e].junctionsSinceDetection = evidence[e].ticks

\* An event is resolved only by a streak of clean correct probes with nothing
\* wrong, hinted or detected again in between: two, unless the last question
\* had three options or more.
ResolvedEarned ==
  \A e \in Events : rows[e].status = "RESOLVED" =>
    evidence[e].streak >= IF evidence[e].tiles = 2 THEN 2 ELSE 1

\* Of all the handlers only presentRemediation (which writes REMEDIATED
\* whatever the status is) ever changes the status of a closed event.
ClosedOnlyReopenedByTask ==
  \A e \in Events :
     Closed(e) /\ rows'[e].status # rows[e].status
       => rows'[e].status = "REMEDIATED"

\* detectOrEscalate opens a new event only for a topic and category that has
\* neither an open event nor one that already bottomed out.
DetectionOpensOnlyWhenNone ==
  \A e \in Events :
     rows[e].status = "NONE" /\ rows'[e].status # "NONE" =>
       \A f \in Events :
         ForKey(f, rows'[e].topic, rows'[e].category) =>
           rows[f].status \in {"RESOLVED", "ABANDONED"}

\* A probe is evaluated only against an event that is still active: one that
\* arrives after the event closed is not re-evaluated (recordProbe).
LateProbeNotEvaluated ==
  \A e \in Events :
     rows'[e].probeCount # rows[e].probeCount => Active(e)

\* Rows change by the rules for opening, evaluating and reopening an event.
RulesAreKept ==
  [][ClosedOnlyReopenedByTask /\ DetectionOpensOnlyWhenNone /\ LateProbeNotEvaluated]_vars

============================================================================
