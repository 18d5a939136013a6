--------------------- MODULE MisconceptionEventsProofs ---------------------
(***************************************************************************)
(* Theorems about MisconceptionEvents, for every set of topics,            *)
(* categories, events and concurrent requests, every threshold and every   *)
(* number of calls.                                                        *)
(***************************************************************************)
EXTENDS MisconceptionEvents, FiniteSetTheorems, TLAPS

Evaluation == [consecutiveCorrect: Nat, remediationCount: Nat,
               status: {"OPEN", "RESOLVED", "PERSISTENT"}, bottomedOut: BOOLEAN]

LEMMA IdleType == Idle \in Request
BY DEF Idle, Request, Steps, Answer, NoRow, Row, ACTIVE_STATUSES, ClosedStatuses

LEMMA ReadingType ==
  ASSUME TypeOK, NEW S \in SUBSET Events
  PROVE  Reading(S) \in [Events -> Row]
BY DEF TypeOK, Reading, NoRow, Row, ACTIVE_STATUSES, ClosedStatuses

\* What an evaluation writes, whatever row was read.
LEMMA EvaluationType ==
  ASSUME NEW row \in Row, NEW a \in Answer
  PROVE  evaluateProbe(row, a) \in Evaluation
<1>1. row.consecutiveCorrect \in Nat /\ row.remediationCount \in Nat
  BY DEF Row
<1>2. CASE a.correct
  BY <1>1, <1>2 DEF evaluateProbe, Evaluation
<1>3. CASE ~a.correct
  <2>1. (row.remediationCount + 1 >= BOTTOM_OUT_REMEDIATION_COUNT) \in BOOLEAN
    OBVIOUS
  <2>. QED BY <1>1, <1>3, <2>1 DEF evaluateProbe, Evaluation
<1>. QED BY <1>2, <1>3

LEMMA EvaluatedType ==
  ASSUME NEW row \in Row, NEW v \in Evaluation
  PROVE  Evaluated(row, v) \in Row
BY DEF Evaluated, Evaluation, Row, ACTIVE_STATUSES, ClosedStatuses

LEMMA ProbedRowType ==
  ASSUME NEW row \in Row, NEW v \in Evaluation, NEW count \in Nat
  PROVE  ProbedRow(row, v, count) \in Row
<1>1. (Evaluated(row, v).resolvedAt \/ v.status = "RESOLVED") \in BOOLEAN
  OBVIOUS
<1>2. Evaluated(row, v) \in Row
  BY EvaluatedType
<1>. QED
  <2> DEFINE w == Evaluated(row, v)
             resolved == w.resolvedAt \/ v.status = "RESOLVED"
  <2>1. [w EXCEPT !.probeCount = count, !.resolvedAt = resolved] \in Row
    <3> HIDE DEF w, resolved
    <3>1. w \in Row /\ resolved \in BOOLEAN
      BY <1>1, <1>2 DEF w, resolved
    <3>. QED BY <3>1 DEF Row
  <2>. QED BY <2>1 DEF ProbedRow

LEMMA TickedRowType ==
  ASSUME NEW row \in Row, NEW read \in Row
  PROVE  TickedRow(row, read) \in Row
<1> DEFINE junctions == read.junctionsSinceDetection + 1
<1>1. /\ junctions \in Nat
      /\ row.junctionsSinceDetection \in Nat
      /\ read.status \in ACTIVE_STATUSES \cup ClosedStatuses \cup {"NONE"}
  BY DEF Row
<1>2. CASE shouldAbandonByJunctionCount(junctions)
  BY <1>1, <1>2 DEF TickedRow, Row, ClosedStatuses
<1>3. CASE ~shouldAbandonByJunctionCount(junctions)
  BY <1>1, <1>3 DEF TickedRow, Row
<1>. QED BY <1>2, <1>3

LEMMA EvidenceType ==
  ASSUME NEW h \in Evidence, NEW a \in Answer
  PROVE  /\ Repeated(h) \in Evidence
         /\ Probed(h, a) \in Evidence
         /\ Ticked(h) \in Evidence
<1>0. /\ h.streak + 1 \in Nat /\ h.failures + 1 \in Nat
      /\ h.evaluated + 1 \in Nat /\ h.ticks + 1 \in Nat
  BY DEF Evidence
<1>1. Repeated(h) \in Evidence
  BY <1>0 DEF Repeated, Evidence
<1>2. Probed(h, a) \in Evidence
  <2>1. a.optionCount \in {2, 3}
    BY DEF Answer
  <2>2. CASE a.correct /\ ~a.hintUsed
    BY <1>0, <2>1, <2>2 DEF Probed, Evidence
  <2>3. CASE a.correct /\ a.hintUsed
    BY <1>0, <2>1, <2>3 DEF Probed, Evidence
  <2>4. CASE ~a.correct
    BY <1>0, <2>1, <2>4 DEF Probed, Evidence
  <2>. QED BY <2>2, <2>3, <2>4
<1>3. Ticked(h) \in Evidence
  BY <1>0, SMTT(30) DEF Ticked, Evidence
<1>. QED BY <1>1, <1>2, <1>3

LEMMA FinishType ==
  ASSUME TypeOK, NEW r \in Requests, Finish(r)
  PROVE  req' \in [Requests -> Request]
BY IdleType DEF TypeOK, Finish, Local

LEMMA LocalType ==
  ASSUME TypeOK, NEW r \in Requests, NEW record \in Request, Local(r, record)
  PROVE  req' \in [Requests -> Request]
BY DEF TypeOK, Local

LEMMA LoopType ==
  ASSUME TypeOK, NEW r \in Requests, NEW step \in Steps,
         NEW S \in SUBSET Events, Loop(r, step, S)
  PROVE  req' \in [Requests -> Request]
<1>1. CASE S = {}
  BY <1>1, FinishType DEF Loop
<1>2. CASE S # {}
  <2> DEFINE read == [e \in Events |-> IF e \in S THEN req[r].seen[e] ELSE NoRow]
             rec == [req[r] EXCEPT !.step = step, !.todo = S, !.seen = read]
  <2>1. req[r] \in Request
    BY DEF TypeOK
  <2>2. read \in [Events -> Row]
    BY <2>1 DEF Request, NoRow, Row, ACTIVE_STATUSES, ClosedStatuses
  <2>3. rec \in Request
    BY <2>1, <2>2 DEF Request
  <2>4. Local(r, rec)
    BY <1>2 DEF Loop
  <2>. QED BY <2>3, <2>4, LocalType
<1>. QED BY <1>1, <1>2

\* Every step keeps every variable in its type.
LEMMA TypeStep == TypeOK /\ [Next]_vars => TypeOK'
<1> SUFFICES ASSUME TypeOK, [Next]_vars PROVE TypeOK'
  OBVIOUS
<1>0. CASE UNCHANGED vars
  BY <1>0 DEF vars, TypeOK
<1>1. ASSUME NEW r \in Requests, NEW t \in Topics, NEW c \in Categories,
             DetectFindActive(r, t, c)
      PROVE  TypeOK'
  <2>1. req' \in [Requests -> Request]
    <3>1. ASSUME NEW e \in ActiveFor(t, c),
                 Local(r, [Idle EXCEPT !.step = "escalate", !.todo = {e},
                                       !.seen = Reading({e})])
          PROVE  req' \in [Requests -> Request]
      <4>1. e \in Events
        BY DEF ActiveFor
      <4>2. Reading({e}) \in [Events -> Row]
        BY <4>1, ReadingType
      <4>3. [Idle EXCEPT !.step = "escalate", !.todo = {e},
                         !.seen = Reading({e})] \in Request
        BY <4>1, <4>2, IdleType DEF Request, Steps
      <4>. QED BY <3>1, <4>3, LocalType
    <3>2. [Idle EXCEPT !.step = "findPersistent", !.topic = t,
                       !.category = c] \in Request
      BY IdleType DEF Request, Steps
    <3>. QED BY <1>1, <3>1, <3>2, LocalType DEF DetectFindActive
  <2>2. calls' = calls + 1 /\ UNCHANGED <<rows, sessions, evidence>>
    BY <1>1 DEF DetectFindActive, Arrive
  <2>. QED BY <2>1, <2>2 DEF TypeOK
<1>2. ASSUME NEW r \in Requests, DetectFindPersistent(r)
      PROVE  TypeOK'
  <2>1. [req[r] EXCEPT !.step = "create"] \in Request
    BY DEF TypeOK, Request, Steps
  <2>2. req' \in [Requests -> Request]
    BY <1>2, <2>1, FinishType, LocalType DEF DetectFindPersistent
  <2>. QED BY <1>2, <2>2 DEF TypeOK, DetectFindPersistent, At
<1>3. ASSUME NEW r \in Requests, DetectCreate(r)
      PROVE  TypeOK'
  <2>1. req' \in [Requests -> Request]
    BY <1>3, FinishType DEF DetectCreate
  <2>2. PICK e \in Events : rows' = [rows EXCEPT ![e] =
            [NoRow EXCEPT !.topic = req[r].topic, !.category = req[r].category,
                          !.status = "OPEN", !.detectedAt = Len(sessions)]]
    BY <1>3 DEF DetectCreate
  <2>3. [NoRow EXCEPT !.topic = req[r].topic, !.category = req[r].category,
                      !.status = "OPEN", !.detectedAt = Len(sessions)] \in Row
    <3>1. Len(sessions) \in Nat
      BY DEF TypeOK
    <3>. QED BY <3>1 DEF TypeOK, Request, NoRow, Row, ACTIVE_STATUSES, ClosedStatuses
  <2>4. rows' \in [Events -> Row]
    BY <2>2, <2>3 DEF TypeOK
  <2>. QED BY <1>3, <2>1, <2>4 DEF TypeOK, DetectCreate, At
<1>4. ASSUME NEW r \in Requests, DetectEscalate(r)
      PROVE  TypeOK'
  <2>1. req' \in [Requests -> Request]
    BY <1>4, FinishType DEF DetectEscalate
  <2>2. PICK e \in req[r].todo :
          /\ rows' = [rows EXCEPT ![e] =
               Evaluated(@, evaluateRepeatDetection(req[r].seen[e]))]
          /\ evidence' = [evidence EXCEPT ![e] = Repeated(@)]
    BY <1>4 DEF DetectEscalate
  <2>3. /\ e \in Events /\ req[r].seen[e] \in Row /\ rows[e] \in Row
        /\ evidence[e] \in Evidence
    BY DEF TypeOK, Request
  <2>4. evaluateRepeatDetection(req[r].seen[e]) \in Evaluation
    <3>1. [optionCount |-> 2, correct |-> FALSE, hintUsed |-> FALSE] \in Answer
      BY DEF Answer
    <3>. QED BY <2>3, <3>1, EvaluationType DEF evaluateRepeatDetection
  <2>5. Evaluated(rows[e], evaluateRepeatDetection(req[r].seen[e])) \in Row
    BY <2>3, <2>4, EvaluatedType
  <2>6. rows' \in [Events -> Row]
    BY <2>2, <2>3, <2>5 DEF TypeOK
  <2>7. evidence' \in [Events -> Evidence]
    <3>1. Repeated(evidence[e]) \in Evidence
      <4>1. req[r].answer \in Answer
        BY DEF TypeOK, Request
      <4>. QED BY <2>3, <4>1, EvidenceType
    <3>. QED BY <2>2, <2>3, <3>1 DEF TypeOK
  <2>. QED BY <1>4, <2>1, <2>6, <2>7 DEF TypeOK, DetectEscalate, At
<1>5. ASSUME NEW r \in Requests, NEW e \in Events, NEW a \in Answer,
             ProbeRead(r, e, a)
      PROVE  TypeOK'
  <2>1. Reading({e}) \in [Events -> Row]
    BY ReadingType
  <2>2. [Idle EXCEPT !.step = "probe", !.answer = a, !.todo = {e},
                     !.seen = Reading({e})] \in Request
    BY <2>1, IdleType DEF Request, Steps
  <2>3. req' \in [Requests -> Request]
    BY <1>5, <2>2, FinishType, LocalType DEF ProbeRead
  <2>. QED BY <1>5, <2>3 DEF TypeOK, ProbeRead, Arrive
<1>6. ASSUME NEW r \in Requests, ProbeWrite(r)
      PROVE  TypeOK'
  <2> DEFINE a == req[r].answer
             v(e) == evaluateProbe(req[r].seen[e], a)
  <2>1. req' \in [Requests -> Request]
    BY <1>6, FinishType DEF ProbeWrite
  <2>2. PICK e \in req[r].todo :
          /\ rows' = [rows EXCEPT ![e] =
               ProbedRow(@, v(e), probeCountWritten(r, e))]
          /\ evidence' = [evidence EXCEPT ![e] = Probed(@, a)]
    BY <1>6 DEF ProbeWrite
  <2>3. /\ e \in Events /\ req[r].seen[e] \in Row /\ rows[e] \in Row
        /\ a \in Answer /\ evidence[e] \in Evidence
    BY DEF TypeOK, Request
  <2>4. probeCountWritten(r, e) \in Nat
    BY <2>3 DEF probeCountWritten, Row
  <2>5. v(e) \in Evaluation
    BY <2>3, EvaluationType
  <2>6. ProbedRow(rows[e], v(e), probeCountWritten(r, e)) \in Row
    BY <2>3, <2>4, <2>5, ProbedRowType
  <2>7. Probed(evidence[e], a) \in Evidence
    BY <2>3, EvidenceType
  <2>8. rows' \in [Events -> Row]
    BY <2>2, <2>3, <2>6 DEF TypeOK
  <2>9. evidence' \in [Events -> Evidence]
    BY <2>2, <2>3, <2>7 DEF TypeOK
  <2>. QED BY <1>6, <2>1, <2>8, <2>9 DEF TypeOK, ProbeWrite, At
<1>7. ASSUME NEW r \in Requests, NEW t \in Topics, TickRead(r, t)
      PROVE  TypeOK'
  <2>1. ActiveOn(t) \in SUBSET Events
    BY DEF ActiveOn
  <2>2. Reading(ActiveOn(t)) \in [Events -> Row]
    BY <2>1, ReadingType
  <2>3. [Idle EXCEPT !.step = "tick", !.todo = ActiveOn(t),
                     !.seen = Reading(ActiveOn(t))] \in Request
    BY <2>1, <2>2, IdleType DEF Request, Steps
  <2>4. req' \in [Requests -> Request]
    BY <1>7, <2>3, FinishType, LocalType DEF TickRead
  <2>. QED BY <1>7, <2>4 DEF TypeOK, TickRead, Arrive
<1>8. ASSUME NEW r \in Requests, TickWrite(r)
      PROVE  TypeOK'
  <2>1. PICK e \in req[r].todo :
          /\ rows' = [rows EXCEPT ![e] = TickedRow(@, req[r].seen[e])]
          /\ evidence' = [evidence EXCEPT ![e] = Ticked(@)]
          /\ Loop(r, "tick", req[r].todo \ {e})
    BY <1>8 DEF TickWrite
  <2>2. /\ req[r].todo \in SUBSET Events /\ e \in Events
        /\ req[r].seen[e] \in Row /\ rows[e] \in Row /\ evidence[e] \in Evidence
    BY DEF TypeOK, Request
  <2>3. req' \in [Requests -> Request]
    BY <2>1, <2>2, LoopType DEF Steps
  <2>4. rows' \in [Events -> Row]
    BY <2>1, <2>2, TickedRowType DEF TypeOK
  <2>5. evidence' \in [Events -> Evidence]
    <3>1. Ticked(evidence[e]) \in Evidence
      <4>1. req[r].answer \in Answer
        BY DEF TypeOK, Request
      <4>. QED BY <2>2, <4>1, EvidenceType
    <3>. QED BY <2>1, <2>2, <3>1 DEF TypeOK
  <2>. QED BY <1>8, <2>3, <2>4, <2>5 DEF TypeOK, TickWrite, At
<1>9. ASSUME NEW r \in Requests, NEW t \in Topics, CreateSession(r, t)
      PROVE  TypeOK'
  <2>1. [Idle EXCEPT !.step = "findStale", !.topic = t] \in Request
    BY IdleType DEF Request, Steps
  <2>2. req' \in [Requests -> Request]
    BY <1>9, <2>1, LocalType DEF CreateSession
  <2>3. sessions' \in Seq(Topics)
    BY <1>9 DEF TypeOK, CreateSession
  <2>. QED BY <1>9, <2>2, <2>3 DEF TypeOK, CreateSession, Arrive
<1>10. ASSUME NEW r \in Requests, NEW t \in Topics, SessionCheck(r, t)
       PROVE  TypeOK'
  <2>1. [Idle EXCEPT !.step = "findStale", !.topic = t] \in Request
    BY IdleType DEF Request, Steps
  <2>2. req' \in [Requests -> Request]
    BY <1>10, <2>1, LocalType DEF SessionCheck
  <2>. QED BY <1>10, <2>2 DEF TypeOK, SessionCheck, Arrive
<1>11. ASSUME NEW r \in Requests, StaleFind(r)
       PROVE  TypeOK'
  <2> DEFINE S == {e \in Events : Active(e) /\ rows[e].topic # req[r].topic}
  <2>1. Reading(S) \in [Events -> Row]
    BY ReadingType
  <2> DEFINE read == Reading(S)
  <2>a. S \in SUBSET Events /\ req[r] \in Request
    BY DEF TypeOK
  <2> HIDE DEF S, read
  <2>2. [req[r] EXCEPT !.step = "lastOnTopic", !.todo = S, !.seen = read] \in Request
    BY <2>1, <2>a DEF Request, Steps, read
  <2> USE DEF S, read
  <2>3. req' \in [Requests -> Request]
    BY <1>11, <2>2, FinishType, LocalType DEF StaleFind
  <2>. QED BY <1>11, <2>3 DEF TypeOK, StaleFind, At
<1>12. ASSUME NEW r \in Requests, StaleLastOnTopic(r)
       PROVE  TypeOK'
  <2>1. PICK e \in req[r].todo, i \in 0..Len(sessions) :
          Local(r, [req[r] EXCEPT !.step = "countElsewhere",
                                  !.cursor = e, !.since = i])
    BY <1>12 DEF StaleLastOnTopic
  <2>2. i \in Nat
    BY DEF TypeOK
  <2>a. req[r] \in Request
    BY DEF TypeOK
  <2>b. e \in Events
    BY <2>a DEF Request
  <2>3. [req[r] EXCEPT !.step = "countElsewhere",
                       !.cursor = e, !.since = i] \in Request
    BY <2>2, <2>a, <2>b DEF Request, Steps
  <2>4. req' \in [Requests -> Request]
    BY <2>1, <2>3, LocalType
  <2>. QED BY <1>12, <2>4 DEF TypeOK, StaleLastOnTopic, At
<1>13. ASSUME NEW r \in Requests, StaleCountElsewhere(r)
       PROVE  TypeOK'
  <2>1. PICK e \in req[r].todo :
          \/ Local(r, [req[r] EXCEPT !.step = "abandon"])
          \/ Loop(r, "lastOnTopic", req[r].todo \ {e})
    BY <1>13 DEF StaleCountElsewhere
  <2>2. req[r].todo \ {e} \in SUBSET Events
    BY DEF TypeOK, Request
  <2>3. [req[r] EXCEPT !.step = "abandon"] \in Request
    BY DEF TypeOK, Request, Steps
  <2>4. req' \in [Requests -> Request]
    BY <2>1, <2>2, <2>3, LocalType, LoopType DEF Steps
  <2>. QED BY <1>13, <2>4 DEF TypeOK, StaleCountElsewhere, At
<1>14. ASSUME NEW r \in Requests, StaleAbandon(r)
       PROVE  TypeOK'
  <2>1. PICK e \in req[r].todo :
          /\ rows' = [rows EXCEPT ![e].status = "ABANDONED"]
          /\ Loop(r, "lastOnTopic", req[r].todo \ {e})
    BY <1>14 DEF StaleAbandon
  <2>2. req[r].todo \ {e} \in SUBSET Events /\ e \in Events /\ rows[e] \in Row
    BY DEF TypeOK, Request
  <2>3. req' \in [Requests -> Request]
    BY <2>1, <2>2, LoopType DEF Steps
  <2> DEFINE new == [rows[e] EXCEPT !.status = "ABANDONED"]
  <2>a. new \in Row
    BY <2>2 DEF Row, ClosedStatuses
  <2>b. rows' = [rows EXCEPT ![e] = new] /\ rows \in [Events -> Row]
    BY <2>1 DEF TypeOK
  <2> HIDE DEF new
  <2>4. rows' \in [Events -> Row]
    BY ONLY <2>2, <2>a, <2>b
  <2>. QED BY <1>14, <2>3, <2>4 DEF TypeOK, StaleAbandon, At
<1>15. ASSUME NEW r \in Requests, NEW e \in Events, PresentRemediation(r, e)
       PROVE  TypeOK'
  <2> DEFINE new == [rows[e] EXCEPT !.status = "REMEDIATED"]
  <2>a. rows \in [Events -> Row] /\ rows[e] \in Row
    BY DEF TypeOK
  <2>b. new \in Row
    BY <2>a DEF Row, ACTIVE_STATUSES
  <2>c. rows' = [rows EXCEPT ![e] = new]
    BY <1>15 DEF PresentRemediation
  <2> HIDE DEF new
  <2>1. rows' \in [Events -> Row]
    BY ONLY <2>a, <2>b, <2>c
  <2>. QED BY <1>15, <2>1 DEF TypeOK, PresentRemediation, Arrive
<1>16. ASSUME NEW r \in Requests, Fail(r)
       PROVE  TypeOK'
  BY <1>16, FinishType DEF TypeOK, Fail
<1>. QED BY <1>0, <1>1, <1>2, <1>3, <1>4, <1>5, <1>6, <1>7, <1>8, <1>9, <1>10,
            <1>11, <1>12, <1>13, <1>14, <1>15, <1>16 DEF Next

LEMMA TypeInit == Init => TypeOK
BY BoundAssumption, IdleType
   DEF Init, TypeOK, NoRow, Row, NoEvidence, Evidence, ClosedStatuses, ACTIVE_STATUSES

\* Every row, request and history record stays well formed under every
\* interleaving of the handlers.
THEOREM TypeCorrect == Spec => []TypeOK
BY TypeInit, TypeStep, PTL DEF Spec

----------------------------------------------------------------------------
(* The history of an event runs ahead of its row and of every reading.     *)

\* Sessions elsewhere only grow when a session starts.
LEMMA LeftGrows ==
  ASSUME NEW ss \in Seq(Topics), NEW t, NEW s \in Topics, LeftFor(ss, t)
  PROVE  LeftFor(Append(ss, s), t)
<1> DEFINE before == Elsewhere(ss, t, 0)
           after == Elsewhere(Append(ss, s), t, 0)
<1>1. /\ Len(ss) \in Nat
      /\ Len(Append(ss, s)) = Len(ss) + 1
      /\ \A i \in 1..Len(ss) : Append(ss, s)[i] = ss[i]
  OBVIOUS
<1>2. before \subseteq after
  BY <1>1 DEF Elsewhere
<1>3. IsFiniteSet(before) /\ IsFiniteSet(after)
  <2>1. IsFiniteSet(1..Len(ss)) /\ IsFiniteSet(1..Len(Append(ss, s)))
    BY <1>1, FS_Interval
  <2>2. before \subseteq 1..Len(ss) /\ after \subseteq 1..Len(Append(ss, s))
    BY DEF Elsewhere
  <2>. QED BY <2>1, <2>2, FS_Subset
<1>4. Cardinality(before) <= Cardinality(after)
  BY <1>2, <1>3, FS_Subset
<1>5. Cardinality(before) \in Nat /\ Cardinality(after) \in Nat
  BY <1>3, FS_CardinalityType
<1>. QED BY <1>4, <1>5, ThresholdsAssumption DEF LeftFor

\* Counting from a later session finds no more of them.
LEMMA SinceFindsFewer ==
  ASSUME NEW ss \in Seq(Topics), NEW t, NEW since \in Nat,
         Cardinality(Elsewhere(ss, t, since)) >= ABANDON_SESSION_GAP
  PROVE  LeftFor(ss, t)
<1> DEFINE later == Elsewhere(ss, t, since)
           all == Elsewhere(ss, t, 0)
<1>1. later \subseteq all
  BY DEF Elsewhere
<1>2. IsFiniteSet(all)
  <2>1. Len(ss) \in Nat
    OBVIOUS
  <2>2. IsFiniteSet(1..Len(ss))
    BY <2>1, FS_Interval
  <2>. QED BY <2>2, FS_Subset DEF Elsewhere
<1>3. Cardinality(later) <= Cardinality(all) /\ IsFiniteSet(later)
  BY <1>1, <1>2, FS_Subset
<1>4. Cardinality(later) \in Nat /\ Cardinality(all) \in Nat
  BY <1>2, <1>3, FS_CardinalityType
<1>. QED BY <1>3, <1>4, ThresholdsAssumption DEF LeftFor

\* An evaluation reports no failure the history does not have, and bottoms
\* out only at the threshold.
LEMMA EvaluationEarned ==
  ASSUME NEW row \in Row, NEW a \in Answer, NEW h \in Evidence,
         row.remediationCount <= h.failures
  PROVE  LET v == evaluateProbe(row, a)
         IN /\ v.remediationCount <= Probed(h, a).failures
            /\ v.status = "PERSISTENT" \/ v.bottomedOut
                 => v.remediationCount >= BOTTOM_OUT_REMEDIATION_COUNT
            /\ v.status # "ABANDONED" /\ v.status # "NONE"
<1>1. row.remediationCount \in Nat /\ row.consecutiveCorrect \in Nat
      /\ h.failures \in Nat
  BY DEF Row, Evidence
<1>2. CASE a.correct
  <2>1. Probed(h, a).failures = h.failures
    BY <1>2 DEF Probed, Evidence
  <2>. QED BY <1>1, <1>2, <2>1 DEF evaluateProbe
<1>3. CASE ~a.correct
  <2> DEFINE v == evaluateProbe(row, a)
  <2>1. Probed(h, a).failures = h.failures + 1
    BY <1>3 DEF Probed, Evidence
  <2>2. v.remediationCount = row.remediationCount + 1
    BY <1>3 DEF evaluateProbe
  <2>3. CASE row.remediationCount + 1 >= BOTTOM_OUT_REMEDIATION_COUNT
    <3>1. v.status = "PERSISTENT"
      BY <1>3, <2>3 DEF evaluateProbe
    <3>. QED BY <1>1, <2>1, <2>2, <2>3, <3>1
  <2>4. CASE ~(row.remediationCount + 1 >= BOTTOM_OUT_REMEDIATION_COUNT)
    <3>1. v.status = "OPEN" /\ ~v.bottomedOut
      BY <1>3, <2>4 DEF evaluateProbe
    <3>. QED BY <1>1, <2>1, <2>2, <3>1
  <2>. QED BY <2>3, <2>4
<1>. QED BY <1>2, <1>3

\* What a step may do to an event while others are working on it: rows stay,
\* keep their topic, and the history and the sessions only grow.
Forward ==
  /\ \A e \in Events : rows[e].status # "NONE" =>
       /\ rows'[e].status # "NONE"
       /\ rows'[e].topic = rows[e].topic
       /\ evidence'[e].failures >= evidence[e].failures
       /\ evidence'[e].ticks >= evidence[e].ticks
  /\ \A t : LeftFor(sessions, t) => LeftFor(sessions', t)

LEMMA ReadStaysBehind ==
  ASSUME TypeOK, TypeOK', Forward, NEW r \in Requests, NEW e \in req[r].todo,
         ReadBehind(r, e), req'[r] = req[r]
  PROVE  ReadBehind(r, e)'
<1>1. e \in Events /\ req[r].seen[e] \in Row
  BY DEF TypeOK, Request
<1>2. /\ rows'[e].status # "NONE"
      /\ rows'[e].topic = rows[e].topic
      /\ evidence'[e].failures >= evidence[e].failures
      /\ evidence'[e].ticks >= evidence[e].ticks
      /\ LeftFor(sessions, rows[e].topic) => LeftFor(sessions', rows[e].topic)
  BY <1>1 DEF Forward, ReadBehind
<1>3. /\ evidence[e].failures \in Nat /\ evidence'[e].failures \in Nat
      /\ evidence[e].ticks \in Nat /\ evidence'[e].ticks \in Nat
      /\ req[r].seen[e].remediationCount \in Nat
      /\ req[r].seen[e].junctionsSinceDetection \in Nat
  BY <1>1 DEF TypeOK, Evidence, Row
<1>. QED BY <1>2, <1>3 DEF ReadBehind

\* A request that has just finished has nothing to write back.
LEMMA FinishedBehind ==
  ASSUME TypeOK, NEW r \in Requests, Finish(r)
  PROVE  req'[r].todo = {}
BY DEF TypeOK, Finish, Local, Idle

\* The invariant after a step of request r, from what holds of the rows and
\* of r itself: the other requests only see time go forward.
LEMMA OthersStayBehind ==
  ASSUME TypeOK, TypeOK', HistoryInv, Forward, NEW r \in Requests,
         \A q \in Requests \ {r} : req'[q] = req[q],
         \A e \in Events : RowEarned(e)',
         \A e \in req'[r].todo : ReadBehind(r, e)'
  PROVE  HistoryInv'
<1>1. ASSUME NEW q \in Requests \ {r}, NEW e \in req'[q].todo
      PROVE  ReadBehind(q, e)'
  <2>1. req'[q] = req[q] /\ q \in Requests
    BY <1>1
  <2>2. e \in req[q].todo
    BY <1>1, <2>1
  <2>3. ReadBehind(q, e)
    BY <2>1, <2>2 DEF HistoryInv
  <2>. QED BY <2>1, <2>2, <2>3, ReadStaysBehind
<1>. QED BY <1>1 DEF HistoryInv

LEMMA LocalOnly ==
  ASSUME TypeOK, NEW r \in Requests, NEW record, Local(r, record)
  PROVE  /\ req'[r] = record
         /\ req'[r].step = record.step /\ req'[r].todo = record.todo
         /\ req'[r].seen = record.seen /\ req'[r].cursor = record.cursor
         /\ \A q \in Requests \ {r} : req'[q] = req[q]
BY DEF TypeOK, Local

LEMMA LoopOnly ==
  ASSUME TypeOK, NEW r \in Requests, NEW step, NEW S, Loop(r, step, S)
  PROVE  /\ \A q \in Requests \ {r} : req'[q] = req[q]
         /\ req'[r].todo \subseteq S
         /\ \A e \in req'[r].todo : e \in Events =>
              req'[r].seen[e] = req[r].seen[e] /\ req'[r].step = step
<1>1. CASE S = {}
  BY <1>1, LocalOnly DEF Loop, Finish, Idle
<1>2. CASE S # {}
  <2> DEFINE rec == [req[r] EXCEPT !.step = step, !.todo = S,
                       !.seen = [e \in Events |->
                                   IF e \in S THEN req[r].seen[e] ELSE NoRow]]
  <2>1. Local(r, rec)
    BY <1>2 DEF Loop
  <2>2. /\ req'[r] = rec
        /\ \A q \in Requests \ {r} : req'[q] = req[q]
    BY <2>1, LocalOnly
  <2>3. /\ rec.todo = S
        /\ rec.step = step
        /\ rec.seen = [e \in Events |-> IF e \in S THEN req[r].seen[e] ELSE NoRow]
    BY DEF TypeOK, Request
  <2>. QED BY <2>2, <2>3
<1>. QED BY <1>1, <1>2

\* Reading, or starting a session, takes nothing back.
LEMMA NothingWritten ==
  ASSUME TypeOK, HistoryInv, UNCHANGED <<rows, evidence>>,
         \/ UNCHANGED sessions
         \/ \E t \in Topics : sessions' = Append(sessions, t)
  PROVE  Forward /\ \A e \in Events : RowEarned(e)'
<1>1. ASSUME NEW t, LeftFor(sessions, t)
      PROVE  LeftFor(sessions', t)
  <2>1. sessions \in Seq(Topics)
    BY DEF TypeOK
  <2>. QED BY <1>1, <2>1, LeftGrows
<1>2. Forward
  <2>1. ASSUME NEW e \in Events
        PROVE  evidence[e].failures \in Nat /\ evidence[e].ticks \in Nat
    BY DEF TypeOK, Evidence
  <2>. QED BY <1>1, <2>1 DEF Forward
<1>3. ASSUME NEW e \in Events
      PROVE  RowEarned(e)'
  BY <1>1 DEF HistoryInv, RowEarned
<1>. QED BY <1>2, <1>3

\* Writing one row that stays behind its history keeps every row behind.
LEMMA OneRowWritten ==
  ASSUME TypeOK, HistoryInv, UNCHANGED sessions, NEW e \in Events,
         NEW row \in Row, NEW h \in Evidence,
         rows' = [rows EXCEPT ![e] = row],
         evidence' = [evidence EXCEPT ![e] = h],
         row.status # "NONE",
         rows[e].status # "NONE" => row.topic = rows[e].topic,
         h.failures >= evidence[e].failures,
         h.ticks >= evidence[e].ticks,
         row.remediationCount <= h.failures,
         row.junctionsSinceDetection <= h.ticks,
         row.probeCount = h.evaluated,
         row.status = "PERSISTENT" \/ row.bottomedOut
           => row.remediationCount >= BOTTOM_OUT_REMEDIATION_COUNT,
         row.status = "ABANDONED"
           => \/ h.ticks > ABANDON_JUNCTION_THRESHOLD
              \/ LeftFor(sessions, row.topic)
  PROVE  Forward /\ \A f \in Events : RowEarned(f)'
<1>1. /\ rows'[e] = row /\ evidence'[e] = h
      /\ \A f \in Events \ {e} : rows'[f] = rows[f] /\ evidence'[f] = evidence[f]
  BY DEF TypeOK
<1>2. Forward
  <2>1. ASSUME NEW f \in Events
        PROVE  evidence[f].failures \in Nat /\ evidence[f].ticks \in Nat
    BY DEF TypeOK, Evidence
  <2>. QED BY <1>1, <2>1 DEF Forward
<1>3. RowEarned(e)'
  BY <1>1 DEF RowEarned
<1>4. ASSUME NEW f \in Events \ {e}
      PROVE  RowEarned(f)'
  BY <1>1 DEF HistoryInv, RowEarned
<1>. QED BY <1>2, <1>3, <1>4

\* What is left of a loop's readings stays behind, when the step it goes on
\* with is neither the tick (unless it was one) nor the abandonment.
LEMMA SubsetStaysBehind ==
  ASSUME TypeOK, TypeOK', HistoryInv, Forward, NEW r \in Requests,
         NEW e \in req'[r].todo, e \in req[r].todo,
         req'[r].seen[e] = req[r].seen[e],
         req'[r].step # "abandon",
         req'[r].step = "tick" => req[r].step = "tick"
  PROVE  ReadBehind(r, e)'
<1>1. e \in Events /\ req[r].seen[e] \in Row
  BY DEF TypeOK, Request
<1>2. ReadBehind(r, e)
  BY DEF HistoryInv
<1>3. /\ rows'[e].status # "NONE"
      /\ rows'[e].topic = rows[e].topic
      /\ evidence'[e].failures >= evidence[e].failures
      /\ evidence'[e].ticks >= evidence[e].ticks
  BY <1>1, <1>2 DEF Forward, ReadBehind
<1>4. /\ evidence[e].failures \in Nat /\ evidence'[e].failures \in Nat
      /\ evidence[e].ticks \in Nat /\ evidence'[e].ticks \in Nat
      /\ req[r].seen[e].remediationCount \in Nat
      /\ req[r].seen[e].junctionsSinceDetection \in Nat
  BY <1>1 DEF TypeOK, Evidence, Row
<1>. QED BY <1>2, <1>3, <1>4 DEF ReadBehind

\* What one reading gives the handler that made it.
LEMMA FreshlyRead ==
  ASSUME TypeOK, HistoryInv, UNCHANGED <<rows, sessions, evidence>>,
         NEW r \in Requests, NEW e \in Events, Active(e),
         req'[r].seen[e] = rows[e], req'[r].step # "abandon"
  PROVE  ReadBehind(r, e)'
<1>1. RowEarned(e)
  BY DEF HistoryInv
<1>2. rows'[e] = rows[e] /\ evidence'[e] = evidence[e]
  OBVIOUS
<1>. QED BY <1>1, <1>2 DEF RowEarned, ReadBehind, Active, ACTIVE_STATUSES

\* Every step keeps rows and readings behind the history.
LEMMA HistoryStep ==
  TypeOK /\ TypeOK' /\ HistoryInv /\ [Next]_vars => HistoryInv'
<1> SUFFICES ASSUME TypeOK, TypeOK', HistoryInv, [Next]_vars PROVE HistoryInv'
  OBVIOUS
<1> USE DEF At, Arrive
<1>0. CASE UNCHANGED vars
  BY <1>0 DEF vars, HistoryInv, RowEarned, ReadBehind
<1>1. ASSUME NEW r \in Requests, NEW t \in Topics, NEW c \in Categories,
             DetectFindActive(r, t, c)
      PROVE  HistoryInv'
  <2>0. UNCHANGED <<rows, sessions, evidence>>
    BY <1>1 DEF DetectFindActive
  <2>1. CASE \E e \in ActiveFor(t, c) :
               Local(r, [Idle EXCEPT !.step = "escalate", !.todo = {e},
                                     !.seen = Reading({e})])
    <3>1. PICK e \in ActiveFor(t, c) :
               Local(r, [Idle EXCEPT !.step = "escalate", !.todo = {e},
                                     !.seen = Reading({e})])
      BY <2>1
    <3>2. e \in Events /\ Active(e)
      BY DEF ActiveFor
    <3>3. Reading({e}) \in [Events -> Row] /\ Reading({e})[e] = rows[e]
      BY <3>2, ReadingType DEF Reading
    <3>4. /\ req'[r].step = "escalate" /\ req'[r].todo = {e}
          /\ req'[r].seen = Reading({e})
          /\ \A q \in Requests \ {r} : req'[q] = req[q]
      <4> DEFINE rec == [Idle EXCEPT !.step = "escalate", !.todo = {e},
                                     !.seen = Reading({e})]
      <4>1. rec.step = "escalate" /\ rec.todo = {e} /\ rec.seen = Reading({e})
        BY DEF Idle
      <4>2. Local(r, rec)
        BY <3>1
      <4> HIDE DEF rec
      <4>. QED BY <4>1, <4>2, LocalOnly
    <3>5. ReadBehind(r, e)'
      BY <2>0, <3>2, <3>3, <3>4, FreshlyRead
    <3>. QED BY <2>0, <3>4, <3>5, NothingWritten, OthersStayBehind
  <2>2. CASE Local(r, [Idle EXCEPT !.step = "findPersistent",
                                   !.topic = t, !.category = c])
    <3>1. req'[r].todo = {} /\ \A q \in Requests \ {r} : req'[q] = req[q]
      <4> DEFINE rec == [Idle EXCEPT !.step = "findPersistent",
                                     !.topic = t, !.category = c]
      <4>1. rec.todo = {} /\ Local(r, rec)
        BY <2>2 DEF Idle
      <4> HIDE DEF rec
      <4>. QED BY <4>1, LocalOnly
    <3>. QED BY <2>0, <3>1, NothingWritten, OthersStayBehind
  <2>. QED BY <1>1, <2>1, <2>2 DEF DetectFindActive
<1>2. ASSUME NEW r \in Requests, DetectFindPersistent(r)
      PROVE  HistoryInv'
  <2>0. UNCHANGED <<rows, sessions, evidence>>
    BY <1>2 DEF DetectFindPersistent
  <2>1. CASE Finish(r)
    BY <2>0, <2>1, FinishedBehind, LocalOnly, NothingWritten, OthersStayBehind
       DEF Finish
  <2>2. CASE Local(r, [req[r] EXCEPT !.step = "create"])
    <3>1. /\ req'[r].todo = req[r].todo /\ req'[r].seen = req[r].seen
          /\ req'[r].step = "create"
          /\ \A q \in Requests \ {r} : req'[q] = req[q]
      BY <2>2, LocalOnly DEF TypeOK, Request
    <3>2. ASSUME NEW e \in req[r].todo
          PROVE  ReadBehind(r, e)'
      <4>1. ReadBehind(r, e)
        BY DEF HistoryInv
      <4>. QED BY <2>0, <3>1, <4>1 DEF ReadBehind
    <3>. QED BY <2>0, <3>1, <3>2, NothingWritten, OthersStayBehind
  <2>. QED BY <1>2, <2>1, <2>2 DEF DetectFindPersistent
<1>3. ASSUME NEW r \in Requests, DetectCreate(r)
      PROVE  HistoryInv'
  <2> DEFINE row == [NoRow EXCEPT !.topic = req[r].topic,
                                  !.category = req[r].category,
                                  !.status = "OPEN", !.detectedAt = Len(sessions)]
  <2>1. PICK e \in Events : rows[e].status = "NONE" /\ rows' = [rows EXCEPT ![e] = row]
    BY <1>3 DEF DetectCreate
  <2>2. row \in Row
    <3>1. rows'[e] = row /\ rows'[e] \in Row
      BY <2>1 DEF TypeOK
    <3>. QED BY <3>1
  <2>3. /\ row.status = "OPEN" /\ row.remediationCount = 0
        /\ row.junctionsSinceDetection = 0 /\ row.probeCount = 0
        /\ row.bottomedOut = FALSE
    BY DEF NoRow
  <2>4. /\ evidence[e] \in Evidence /\ UNCHANGED sessions
        /\ evidence' = [evidence EXCEPT ![e] = evidence[e]]
    BY <1>3 DEF TypeOK, DetectCreate
  <2>5. /\ 0 <= evidence[e].failures /\ 0 <= evidence[e].ticks
        /\ evidence[e].failures >= evidence[e].failures
        /\ evidence[e].ticks >= evidence[e].ticks
    BY <2>4 DEF Evidence
  <2>6. evidence[e].evaluated = 0
    BY <2>1 DEF HistoryInv, RowEarned
  <2> HIDE DEF row
  <2>7. Forward /\ \A f \in Events : RowEarned(f)'
    BY <2>1, <2>2, <2>3, <2>4, <2>5, <2>6, OneRowWritten
  <2>8. req'[r].todo = {} /\ \A q \in Requests \ {r} : req'[q] = req[q]
    BY <1>3, FinishedBehind, LocalOnly DEF DetectCreate, Finish
  <2>. QED BY <2>7, <2>8, OthersStayBehind
<1>4. ASSUME NEW r \in Requests, DetectEscalate(r)
      PROVE  HistoryInv'
  <2>1. PICK e \in req[r].todo :
          /\ rows' = [rows EXCEPT ![e] =
               Evaluated(@, evaluateRepeatDetection(req[r].seen[e]))]
          /\ evidence' = [evidence EXCEPT ![e] = Repeated(@)]
    BY <1>4 DEF DetectEscalate
  <2> DEFINE wrong == [optionCount |-> 2, correct |-> FALSE, hintUsed |-> FALSE]
             v == evaluateProbe(req[r].seen[e], wrong)
             row == Evaluated(rows[e], v)
             h == Repeated(evidence[e])
  <2>2. /\ e \in Events /\ req[r].seen[e] \in Row /\ rows[e] \in Row
        /\ evidence[e] \in Evidence /\ wrong \in Answer
    BY DEF TypeOK, Request, Answer
  <2>3. ReadBehind(r, e) /\ RowEarned(e)
    BY <2>2 DEF HistoryInv
  <2>4. /\ v.remediationCount <= Probed(evidence[e], wrong).failures
        /\ v.status = "PERSISTENT" \/ v.bottomedOut
             => v.remediationCount >= BOTTOM_OUT_REMEDIATION_COUNT
        /\ v.status # "ABANDONED" /\ v.status # "NONE"
    BY <2>2, <2>3, EvaluationEarned DEF ReadBehind
  <2>5. /\ Probed(evidence[e], wrong).failures = evidence[e].failures + 1
        /\ h.failures = evidence[e].failures + 1
        /\ h.ticks = evidence[e].ticks /\ h.evaluated = evidence[e].evaluated
    BY <2>2 DEF Probed, Repeated, Evidence
  <2>6. h \in Evidence /\ evidence[e].failures \in Nat /\ evidence[e].ticks \in Nat
    BY <2>2, EvidenceType DEF Evidence
  <2>7. /\ row.remediationCount = v.remediationCount /\ row.status = v.status
        /\ row.bottomedOut = v.bottomedOut /\ row.topic = rows[e].topic
        /\ row.probeCount = rows[e].probeCount
        /\ row.junctionsSinceDetection = rows[e].junctionsSinceDetection
    BY <2>2 DEF Evaluated, Row
  <2>8. row \in Row
    BY <2>2, EvaluationType, EvaluatedType
  <2>9. rows' = [rows EXCEPT ![e] = row] /\ evidence' = [evidence EXCEPT ![e] = h]
    BY <2>1 DEF evaluateRepeatDetection
  <2>10. /\ row.junctionsSinceDetection <= h.ticks
         /\ row.probeCount = h.evaluated
         /\ rows[e].status # "NONE"
    BY <2>3, <2>5, <2>7 DEF RowEarned, ReadBehind
  <2> HIDE DEF row, h, v, wrong
  <2>11. Forward /\ \A f \in Events : RowEarned(f)'
    <3>1. h.failures >= evidence[e].failures /\ h.ticks >= evidence[e].ticks
      BY <2>5, <2>6
    <3>2. UNCHANGED sessions
      BY <1>4 DEF DetectEscalate
    <3>3. row.remediationCount <= h.failures
      BY <2>4, <2>5, <2>7
    <3>. QED BY <2>2, <2>4, <2>6, <2>7, <2>8, <2>9, <2>10, <3>1, <3>2, <3>3,
                OneRowWritten
  <2>12. req'[r].todo = {} /\ \A q \in Requests \ {r} : req'[q] = req[q]
    BY <1>4, FinishedBehind, LocalOnly DEF DetectEscalate, Finish
  <2>. QED BY <2>11, <2>12, OthersStayBehind
<1>5. ASSUME NEW r \in Requests, NEW e \in Events, NEW a \in Answer,
             ProbeRead(r, e, a)
      PROVE  HistoryInv'
  <2>0. UNCHANGED <<rows, sessions, evidence>>
    BY <1>5 DEF ProbeRead
  <2>1. CASE Finish(r)
    BY <2>0, <2>1, FinishedBehind, LocalOnly, NothingWritten, OthersStayBehind
       DEF Finish
  <2>2. CASE /\ Active(e)
             /\ Local(r, [Idle EXCEPT !.step = "probe", !.answer = a,
                                      !.todo = {e}, !.seen = Reading({e})])
    <3>1. Reading({e}) \in [Events -> Row] /\ Reading({e})[e] = rows[e]
      BY ReadingType DEF Reading
    <3>2. /\ req'[r].step = "probe" /\ req'[r].todo = {e}
          /\ req'[r].seen = Reading({e})
          /\ \A q \in Requests \ {r} : req'[q] = req[q]
      <4> DEFINE rec == [Idle EXCEPT !.step = "probe", !.answer = a,
                                     !.todo = {e}, !.seen = Reading({e})]
      <4>1. rec.step = "probe" /\ rec.todo = {e} /\ rec.seen = Reading({e})
        BY DEF Idle
      <4>2. Local(r, rec)
        BY <2>2
      <4> HIDE DEF rec
      <4>. QED BY <4>1, <4>2, LocalOnly
    <3>3. ReadBehind(r, e)'
      BY <2>0, <2>2, <3>1, <3>2, FreshlyRead
    <3>. QED BY <2>0, <3>2, <3>3, NothingWritten, OthersStayBehind
  <2>. QED BY <1>5, <2>1, <2>2 DEF ProbeRead
<1>6. ASSUME NEW r \in Requests, ProbeWrite(r)
      PROVE  HistoryInv'
  <2>1. PICK e \in req[r].todo :
          /\ rows' = [rows EXCEPT ![e] =
               ProbedRow(@, evaluateProbe(req[r].seen[e], req[r].answer),
                         probeCountWritten(r, e))]
          /\ evidence' = [evidence EXCEPT ![e] = Probed(@, req[r].answer)]
    BY <1>6 DEF ProbeWrite
  <2> DEFINE a == req[r].answer
             v == evaluateProbe(req[r].seen[e], a)
             row == ProbedRow(rows[e], v, probeCountWritten(r, e))
             h == Probed(evidence[e], a)
  <2>2. /\ e \in Events /\ req[r].seen[e] \in Row /\ rows[e] \in Row
        /\ evidence[e] \in Evidence /\ a \in Answer
    BY DEF TypeOK, Request
  <2>3. ReadBehind(r, e) /\ RowEarned(e)
    BY <2>2 DEF HistoryInv
  <2>4. /\ v.remediationCount <= h.failures
        /\ v.status = "PERSISTENT" \/ v.bottomedOut
             => v.remediationCount >= BOTTOM_OUT_REMEDIATION_COUNT
        /\ v.status # "ABANDONED" /\ v.status # "NONE"
    BY <2>2, <2>3, EvaluationEarned DEF ReadBehind
  <2>5. /\ h.failures = evidence[e].failures \/ h.failures = evidence[e].failures + 1
        /\ h.ticks = evidence[e].ticks /\ h.evaluated = evidence[e].evaluated + 1
    BY <2>2 DEF Probed, Evidence
  <2>6. h \in Evidence /\ evidence[e].failures \in Nat /\ evidence[e].ticks \in Nat
    BY <2>2, EvidenceType DEF Evidence
  <2>7. /\ row.remediationCount = v.remediationCount /\ row.status = v.status
        /\ row.bottomedOut = v.bottomedOut /\ row.topic = rows[e].topic
        /\ row.probeCount = rows[e].probeCount + 1
        /\ row.junctionsSinceDetection = rows[e].junctionsSinceDetection
    BY <2>2 DEF ProbedRow, Evaluated, probeCountWritten, Row
  <2>8. row \in Row
    <3>1. probeCountWritten(r, e) \in Nat
      BY <2>2 DEF probeCountWritten, Row
    <3>. QED BY <2>2, <3>1, EvaluationType, ProbedRowType
  <2>9. rows' = [rows EXCEPT ![e] = row] /\ evidence' = [evidence EXCEPT ![e] = h]
    BY <2>1
  <2>10. /\ row.junctionsSinceDetection <= h.ticks
         /\ row.probeCount = h.evaluated
         /\ rows[e].status # "NONE"
    BY <2>3, <2>5, <2>7 DEF RowEarned, ReadBehind
  <2> HIDE DEF row, h, v, a
  <2>11. Forward /\ \A f \in Events : RowEarned(f)'
    <3>1. h.failures >= evidence[e].failures /\ h.ticks >= evidence[e].ticks
      BY <2>5, <2>6
    <3>2. UNCHANGED sessions
      BY <1>6 DEF ProbeWrite
    <3>3. row.remediationCount <= h.failures
      BY <2>4, <2>7
    <3>. QED BY <2>2, <2>4, <2>6, <2>7, <2>8, <2>9, <2>10, <3>1, <3>2, <3>3,
                OneRowWritten
  <2>12. req'[r].todo = {} /\ \A q \in Requests \ {r} : req'[q] = req[q]
    BY <1>6, FinishedBehind, LocalOnly DEF ProbeWrite, Finish
  <2>. QED BY <2>11, <2>12, OthersStayBehind
<1>7. ASSUME NEW r \in Requests, NEW t \in Topics, TickRead(r, t)
      PROVE  HistoryInv'
  <2>0. UNCHANGED <<rows, sessions, evidence>>
    BY <1>7 DEF TickRead
  <2>1. CASE Finish(r)
    BY <2>0, <2>1, FinishedBehind, LocalOnly, NothingWritten, OthersStayBehind
       DEF Finish
  <2>2. CASE Local(r, [Idle EXCEPT !.step = "tick", !.todo = ActiveOn(t),
                                   !.seen = Reading(ActiveOn(t))])
    <3>1. /\ ActiveOn(t) \in SUBSET Events
          /\ \A e \in ActiveOn(t) : Active(e) /\ Reading(ActiveOn(t))[e] = rows[e]
      BY DEF ActiveOn, Reading
    <3>2. Reading(ActiveOn(t)) \in [Events -> Row]
      BY <3>1, ReadingType
    <3>3. /\ req'[r].step = "tick" /\ req'[r].todo = ActiveOn(t)
          /\ req'[r].seen = Reading(ActiveOn(t))
          /\ \A q \in Requests \ {r} : req'[q] = req[q]
      <4> DEFINE rec == [Idle EXCEPT !.step = "tick", !.todo = ActiveOn(t),
                                     !.seen = Reading(ActiveOn(t))]
      <4>1. /\ rec.step = "tick" /\ rec.todo = ActiveOn(t)
            /\ rec.seen = Reading(ActiveOn(t))
        BY DEF Idle
      <4>2. Local(r, rec)
        BY <2>2
      <4> HIDE DEF rec
      <4>. QED BY <4>1, <4>2, LocalOnly
    <3>4. ASSUME NEW e \in req'[r].todo
          PROVE  ReadBehind(r, e)'
      BY <2>0, <3>1, <3>3, FreshlyRead
    <3>. QED BY <2>0, <3>3, <3>4, NothingWritten, OthersStayBehind
  <2>. QED BY <1>7, <2>1, <2>2 DEF TickRead
<1>8. ASSUME NEW r \in Requests, TickWrite(r)
      PROVE  HistoryInv'
  <2>1. PICK e \in req[r].todo :
          /\ rows' = [rows EXCEPT ![e] = TickedRow(@, req[r].seen[e])]
          /\ evidence' = [evidence EXCEPT ![e] = Ticked(@)]
          /\ Loop(r, "tick", req[r].todo \ {e})
    BY <1>8 DEF TickWrite
  <2> DEFINE read == req[r].seen[e]
             junctions == read.junctionsSinceDetection + 1
             row == TickedRow(rows[e], read)
             h == Ticked(evidence[e])
  <2>2. /\ e \in Events /\ read \in Row /\ rows[e] \in Row
        /\ evidence[e] \in Evidence /\ req[r].answer \in Answer
    BY DEF TypeOK, Request
  <2>3. ReadBehind(r, e) /\ RowEarned(e) /\ req[r].step = "tick"
    BY <1>8, <2>2 DEF HistoryInv, TickWrite
  <2>4. /\ h \in Evidence /\ h.ticks = evidence[e].ticks + 1
        /\ h.failures = evidence[e].failures /\ h.evaluated = evidence[e].evaluated
        /\ evidence[e].failures \in Nat /\ evidence[e].ticks \in Nat
    BY <2>2, EvidenceType DEF Ticked, Evidence
  <2>5. /\ row \in Row /\ row.topic = rows[e].topic
        /\ row.remediationCount = rows[e].remediationCount
        /\ row.bottomedOut = rows[e].bottomedOut
        /\ row.probeCount = rows[e].probeCount
        /\ row.junctionsSinceDetection = junctions
        /\ row.status = IF shouldAbandonByJunctionCount(junctions)
                        THEN "ABANDONED" ELSE read.status
    <3>1. row \in Row
      BY <2>2, TickedRowType
    <3>2. /\ row.topic = rows[e].topic
          /\ row.remediationCount = rows[e].remediationCount
          /\ row.bottomedOut = rows[e].bottomedOut
          /\ row.probeCount = rows[e].probeCount
      BY <2>2 DEF TickedRow, Row
    <3>3. /\ row.junctionsSinceDetection = junctions
          /\ row.status = IF shouldAbandonByJunctionCount(junctions)
                          THEN "ABANDONED" ELSE read.status
      BY <2>2 DEF TickedRow, Row
    <3>. QED BY <3>1, <3>2, <3>3
  <2>6. /\ read.status \in ACTIVE_STATUSES /\ rows[e].status # "NONE"
        /\ read.junctionsSinceDetection <= evidence[e].ticks
    BY <2>3 DEF ReadBehind
  <2>7. row.junctionsSinceDetection <= h.ticks
    <3>1. read.junctionsSinceDetection \in Nat
      BY <2>2 DEF Row
    <3>. QED BY <2>4, <2>5, <2>6, <3>1
  <2>8. \/ row.status \in ACTIVE_STATUSES
        \/ row.status = "ABANDONED" /\ h.ticks > ABANDON_JUNCTION_THRESHOLD
    <3>1. read.junctionsSinceDetection \in Nat
      BY <2>2 DEF Row
    <3>2. CASE shouldAbandonByJunctionCount(junctions)
      BY <2>4, <2>5, <2>7, <3>1, <3>2, ThresholdsAssumption
         DEF shouldAbandonByJunctionCount
    <3>3. CASE ~shouldAbandonByJunctionCount(junctions)
      <4>1. row.status = read.status
        BY <2>5, <3>3
      <4>. QED BY <2>6, <4>1
    <3>. QED BY <3>2, <3>3
  <2>9. /\ rows[e].remediationCount <= evidence[e].failures
        /\ rows[e].probeCount = evidence[e].evaluated
        /\ rows[e].bottomedOut
             => rows[e].remediationCount >= BOTTOM_OUT_REMEDIATION_COUNT
    BY <2>3 DEF RowEarned
  <2>10. rows' = [rows EXCEPT ![e] = row] /\ evidence' = [evidence EXCEPT ![e] = h]
    BY <2>1
  <2> HIDE DEF row, h, junctions, read
  <2>11. Forward /\ \A f \in Events : RowEarned(f)'
    <3>1. /\ h.failures >= evidence[e].failures /\ h.ticks >= evidence[e].ticks
          /\ row.remediationCount <= h.failures /\ row.probeCount = h.evaluated
      BY <2>4, <2>5, <2>9
    <3>2. UNCHANGED sessions
      BY <1>8 DEF TickWrite
    <3>3. row.status # "NONE" /\ row.status # "PERSISTENT"
      BY <2>8 DEF ACTIVE_STATUSES
    <3>4. row.status = "ABANDONED" => h.ticks > ABANDON_JUNCTION_THRESHOLD
      BY <2>8 DEF ACTIVE_STATUSES
    <3>. QED BY <2>2, <2>4, <2>5, <2>7, <2>9, <2>10, <3>1, <3>2, <3>3, <3>4,
                OneRowWritten
  <2>12. /\ \A q \in Requests \ {r} : req'[q] = req[q]
         /\ req'[r].todo \subseteq req[r].todo \ {e}
         /\ \A f \in req'[r].todo : f \in Events =>
              req'[r].seen[f] = req[r].seen[f] /\ req'[r].step = "tick"
    BY <2>1, LoopOnly
  <2>13. ASSUME NEW f \in req'[r].todo
         PROVE  ReadBehind(r, f)'
    <3>1. f \in Events /\ f \in req[r].todo
      BY <2>12 DEF TypeOK, Request
    <3>2. req'[r].seen[f] = req[r].seen[f] /\ req'[r].step = "tick"
      BY <2>12, <3>1
    <3>. QED BY <2>3, <2>11, <3>1, <3>2, SubsetStaysBehind
  <2>. QED BY <2>11, <2>12, <2>13, OthersStayBehind
<1>9. ASSUME NEW r \in Requests, NEW t \in Topics, CreateSession(r, t)
      PROVE  HistoryInv'
  <2>1. UNCHANGED <<rows, evidence>> /\ sessions' = Append(sessions, t)
    BY <1>9 DEF CreateSession
  <2>2. req'[r].todo = {} /\ \A q \in Requests \ {r} : req'[q] = req[q]
    <3> DEFINE rec == [Idle EXCEPT !.step = "findStale", !.topic = t]
    <3>1. rec.todo = {} /\ Local(r, rec)
      BY <1>9 DEF CreateSession, Idle
    <3> HIDE DEF rec
    <3>. QED BY <3>1, LocalOnly
  <2>. QED BY <2>1, <2>2, NothingWritten, OthersStayBehind
<1>10. ASSUME NEW r \in Requests, NEW t \in Topics, SessionCheck(r, t)
       PROVE  HistoryInv'
  <2>1. UNCHANGED <<rows, sessions, evidence>>
    BY <1>10 DEF SessionCheck
  <2>2. req'[r].todo = {} /\ \A q \in Requests \ {r} : req'[q] = req[q]
    <3> DEFINE rec == [Idle EXCEPT !.step = "findStale", !.topic = t]
    <3>1. rec.todo = {} /\ Local(r, rec)
      BY <1>10 DEF SessionCheck, Idle
    <3> HIDE DEF rec
    <3>. QED BY <3>1, LocalOnly
  <2>. QED BY <2>1, <2>2, NothingWritten, OthersStayBehind
<1>11. ASSUME NEW r \in Requests, StaleFind(r)
       PROVE  HistoryInv'
  <2> DEFINE S == {e \in Events : Active(e) /\ rows[e].topic # req[r].topic}
  <2>0. UNCHANGED <<rows, sessions, evidence>>
    BY <1>11 DEF StaleFind
  <2>1. CASE Finish(r)
    BY <2>0, <2>1, FinishedBehind, LocalOnly, NothingWritten, OthersStayBehind
       DEF Finish
  <2>2. CASE Local(r, [req[r] EXCEPT !.step = "lastOnTopic", !.todo = S,
                                     !.seen = Reading(S)])
    <3>1. \A e \in S : e \in Events /\ Active(e) /\ Reading(S)[e] = rows[e]
      BY DEF Reading
    <3>2. /\ req'[r].step = "lastOnTopic" /\ req'[r].todo = S
          /\ req'[r].seen = Reading(S)
          /\ \A q \in Requests \ {r} : req'[q] = req[q]
      <4> DEFINE rec == [req[r] EXCEPT !.step = "lastOnTopic", !.todo = S,
                                       !.seen = Reading(S)]
      <4> HIDE DEF S
      <4>1. rec.step = "lastOnTopic" /\ rec.todo = S /\ rec.seen = Reading(S)
        BY DEF TypeOK, Request
      <4>2. Local(r, rec)
        BY <2>2
      <4> HIDE DEF rec
      <4>. QED BY <4>1, <4>2, LocalOnly
    <3>3. ASSUME NEW e \in req'[r].todo
          PROVE  ReadBehind(r, e)'
      BY <2>0, <3>1, <3>2, FreshlyRead
    <3>. QED BY <2>0, <3>2, <3>3, NothingWritten, OthersStayBehind
  <2>. QED BY <1>11, <2>1, <2>2 DEF StaleFind
<1>12. ASSUME NEW r \in Requests, StaleLastOnTopic(r)
       PROVE  HistoryInv'
  <2>0. UNCHANGED <<rows, sessions, evidence>>
    BY <1>12 DEF StaleLastOnTopic
  <2>1. PICK e \in req[r].todo, i \in 0..Len(sessions) :
          Local(r, [req[r] EXCEPT !.step = "countElsewhere",
                                  !.cursor = e, !.since = i])
    BY <1>12 DEF StaleLastOnTopic
  <2>2. /\ req'[r].todo = req[r].todo /\ req'[r].seen = req[r].seen
        /\ req'[r].step = "countElsewhere"
        /\ \A q \in Requests \ {r} : req'[q] = req[q]
    <3> DEFINE rec == [req[r] EXCEPT !.step = "countElsewhere",
                                     !.cursor = e, !.since = i]
    <3>1. rec.step = "countElsewhere" /\ rec.todo = req[r].todo
          /\ rec.seen = req[r].seen
      BY DEF TypeOK, Request
    <3>2. Local(r, rec)
      BY <2>1
    <3> HIDE DEF rec
    <3>. QED BY <3>1, <3>2, LocalOnly
  <2>3. Forward /\ \A f \in Events : RowEarned(f)'
    BY <2>0, NothingWritten
  <2>4. ASSUME NEW f \in req'[r].todo
        PROVE  ReadBehind(r, f)'
    BY <2>2, <2>3, SubsetStaysBehind
  <2>. QED BY <2>2, <2>3, <2>4, OthersStayBehind
<1>13. ASSUME NEW r \in Requests, StaleCountElsewhere(r)
       PROVE  HistoryInv'
  <2>0. UNCHANGED <<rows, sessions, evidence>>
    BY <1>13 DEF StaleCountElsewhere
  <2>1. Forward /\ \A f \in Events : RowEarned(f)'
    BY <2>0, NothingWritten
  <2>2. PICK e \in req[r].todo :
          /\ e = req[r].cursor
          /\ IF shouldAbandonBySessionGap(Cardinality(
                  Elsewhere(sessions, req[r].seen[e].topic, req[r].since)))
             THEN Local(r, [req[r] EXCEPT !.step = "abandon"])
             ELSE Loop(r, "lastOnTopic", req[r].todo \ {e})
    BY <1>13 DEF StaleCountElsewhere
  <2>3. CASE /\ shouldAbandonBySessionGap(Cardinality(
                  Elsewhere(sessions, req[r].seen[e].topic, req[r].since)))
             /\ Local(r, [req[r] EXCEPT !.step = "abandon"])
    <3>1. /\ req'[r].todo = req[r].todo /\ req'[r].seen = req[r].seen
          /\ req'[r].step = "abandon" /\ req'[r].cursor = e
          /\ \A q \in Requests \ {r} : req'[q] = req[q]
      BY <2>2, <2>3, LocalOnly DEF TypeOK, Request
    <3>2. sessions \in Seq(Topics) /\ req[r].since \in Nat
      BY DEF TypeOK, Request
    <3>3. LeftFor(sessions, req[r].seen[e].topic)
      BY <2>3, <3>2, SinceFindsFewer DEF shouldAbandonBySessionGap
    <3>4. ASSUME NEW f \in req'[r].todo
          PROVE  ReadBehind(r, f)'
      <4>1. ReadBehind(r, f)
        BY <3>1 DEF HistoryInv
      <4>. QED BY <2>0, <3>1, <3>3, <4>1 DEF ReadBehind
    <3>. QED BY <2>1, <3>1, <3>4, OthersStayBehind
  <2>4. CASE Loop(r, "lastOnTopic", req[r].todo \ {e})
    <3>1. /\ \A q \in Requests \ {r} : req'[q] = req[q]
          /\ req'[r].todo \subseteq req[r].todo \ {e}
          /\ \A f \in req'[r].todo : f \in Events =>
               req'[r].seen[f] = req[r].seen[f] /\ req'[r].step = "lastOnTopic"
      BY <2>4, LoopOnly
    <3>2. ASSUME NEW f \in req'[r].todo
          PROVE  ReadBehind(r, f)'
      <4>1. f \in Events /\ f \in req[r].todo
        BY <3>1 DEF TypeOK, Request
      <4>2. req'[r].seen[f] = req[r].seen[f] /\ req'[r].step = "lastOnTopic"
        BY <3>1, <4>1
      <4>. QED BY <2>1, <4>1, <4>2, SubsetStaysBehind
    <3>. QED BY <2>1, <3>1, <3>2, OthersStayBehind
  <2>. QED BY <2>2, <2>3, <2>4
<1>14. ASSUME NEW r \in Requests, StaleAbandon(r)
       PROVE  HistoryInv'
  <2>1. PICK e \in req[r].todo :
          /\ e = req[r].cursor
          /\ rows' = [rows EXCEPT ![e].status = "ABANDONED"]
          /\ Loop(r, "lastOnTopic", req[r].todo \ {e})
    BY <1>14 DEF StaleAbandon
  <2> DEFINE row == [rows[e] EXCEPT !.status = "ABANDONED"]
  <2>2. /\ e \in Events /\ rows[e] \in Row /\ evidence[e] \in Evidence
    BY DEF TypeOK, Request
  <2>3. ReadBehind(r, e) /\ RowEarned(e) /\ req[r].step = "abandon"
    BY <1>14, <2>2 DEF HistoryInv, StaleAbandon
  <2>4. LeftFor(sessions, rows[e].topic) /\ rows[e].status # "NONE"
    BY <2>1, <2>3 DEF ReadBehind
  <2>5. /\ row.topic = rows[e].topic /\ row.status = "ABANDONED"
        /\ row.remediationCount = rows[e].remediationCount
        /\ row.bottomedOut = rows[e].bottomedOut
        /\ row.probeCount = rows[e].probeCount
        /\ row.junctionsSinceDetection = rows[e].junctionsSinceDetection
    BY <2>2 DEF Row
  <2>6. row \in Row
    BY <2>2 DEF Row, ClosedStatuses
  <2>7. /\ rows' = [rows EXCEPT ![e] = row] /\ UNCHANGED sessions
        /\ evidence' = [evidence EXCEPT ![e] = evidence[e]]
    BY <1>14, <2>1 DEF StaleAbandon, TypeOK
  <2>8. /\ evidence[e].failures >= evidence[e].failures
        /\ evidence[e].ticks >= evidence[e].ticks
    BY <2>2 DEF Evidence
  <2> HIDE DEF row
  <2>9. Forward /\ \A f \in Events : RowEarned(f)'
    BY <2>2, <2>3, <2>4, <2>5, <2>6, <2>7, <2>8, OneRowWritten DEF RowEarned
  <2>10. /\ \A q \in Requests \ {r} : req'[q] = req[q]
         /\ req'[r].todo \subseteq req[r].todo \ {e}
         /\ \A f \in req'[r].todo : f \in Events =>
              req'[r].seen[f] = req[r].seen[f] /\ req'[r].step = "lastOnTopic"
    BY <2>1, LoopOnly
  <2>11. ASSUME NEW f \in req'[r].todo
         PROVE  ReadBehind(r, f)'
    <3>1. f \in Events /\ f \in req[r].todo
      BY <2>10 DEF TypeOK, Request
    <3>2. req'[r].seen[f] = req[r].seen[f] /\ req'[r].step = "lastOnTopic"
      BY <2>10, <3>1
    <3>. QED BY <2>9, <3>1, <3>2, SubsetStaysBehind
  <2>. QED BY <2>9, <2>10, <2>11, OthersStayBehind
<1>15. ASSUME NEW r \in Requests, NEW e \in Events, PresentRemediation(r, e)
       PROVE  HistoryInv'
  <2> DEFINE row == [rows[e] EXCEPT !.status = "REMEDIATED"]
  <2>1. rows[e] \in Row /\ evidence[e] \in Evidence /\ RowEarned(e)
    BY DEF TypeOK, HistoryInv
  <2>2. /\ row.topic = rows[e].topic /\ row.status = "REMEDIATED"
        /\ row.remediationCount = rows[e].remediationCount
        /\ row.bottomedOut = rows[e].bottomedOut
        /\ row.probeCount = rows[e].probeCount
        /\ row.junctionsSinceDetection = rows[e].junctionsSinceDetection
    BY <2>1 DEF Row
  <2>3. row \in Row
    BY <2>1 DEF Row, ACTIVE_STATUSES
  <2>4. /\ rows' = [rows EXCEPT ![e] = row] /\ UNCHANGED <<sessions, req>>
        /\ evidence' = [evidence EXCEPT ![e] = evidence[e]]
        /\ rows[e].status # "NONE"
    BY <1>15 DEF PresentRemediation, TypeOK
  <2>5. /\ evidence[e].failures >= evidence[e].failures
        /\ evidence[e].ticks >= evidence[e].ticks
    BY <2>1 DEF Evidence
  <2> HIDE DEF row
  <2>6. Forward /\ \A f \in Events : RowEarned(f)'
    BY <2>1, <2>2, <2>3, <2>4, <2>5, OneRowWritten DEF RowEarned
  <2>7. ASSUME NEW f \in req'[r].todo
        PROVE  ReadBehind(r, f)'
    BY <2>4, <2>6, ReadStaysBehind DEF HistoryInv
  <2>. QED BY <2>4, <2>6, <2>7, OthersStayBehind
<1>16. ASSUME NEW r \in Requests, Fail(r)
       PROVE  HistoryInv'
  <2>1. req'[r].todo = {} /\ \A q \in Requests \ {r} : req'[q] = req[q]
    BY <1>16, FinishedBehind, LocalOnly DEF Fail, Finish
  <2>. QED BY <1>16, <2>1, NothingWritten, OthersStayBehind DEF Fail
<1>. QED BY <1>0, <1>1, <1>2, <1>3, <1>4, <1>5, <1>6, <1>7, <1>8, <1>9, <1>10,
            <1>11, <1>12, <1>13, <1>14, <1>15, <1>16 DEF Next

LEMMA HistoryInit == Init => HistoryInv
BY ThresholdsAssumption
   DEF Init, HistoryInv, RowEarned, ReadBehind, NoRow, NoEvidence, Idle

\* However the handlers interleave and fail, no row and no reading a handler
\* will write back runs ahead of what the student really did.
THEOREM HistoryTheorem == Spec => []HistoryInv
<1>1. TypeOK /\ HistoryInv /\ [Next]_vars => (TypeOK /\ HistoryInv)'
  BY TypeStep, HistoryStep
<1>2. Init => TypeOK /\ HistoryInv
  BY TypeInit, HistoryInit
<1>. QED BY <1>1, <1>2, PTL DEF Spec

\* No misconception is called persistent without the failures that make it so.
THEOREM PersistentEarnedTheorem == Spec => []PersistentEarned
<1>1. TypeOK /\ HistoryInv => PersistentEarned
  <2> SUFFICES ASSUME TypeOK, HistoryInv, NEW e \in Events,
                      rows[e].status = "PERSISTENT" \/ rows[e].bottomedOut
               PROVE  evidence[e].failures >= BOTTOM_OUT_REMEDIATION_COUNT
    BY DEF PersistentEarned
  <2>1. RowEarned(e)
    BY DEF HistoryInv
  <2>2. rows[e].remediationCount \in Nat /\ evidence[e].failures \in Nat
    BY DEF TypeOK, Row, Evidence
  <2>. QED BY <2>1, <2>2, ThresholdsAssumption DEF RowEarned
<1>. QED BY <1>1, TypeCorrect, HistoryTheorem, PTL

\* No probe is lost or counted twice.
THEOREM ProbeCountTheorem == Spec => []ProbeCountExact
<1>1. HistoryInv => ProbeCountExact
  BY DEF HistoryInv, RowEarned, ProbeCountExact
<1>. QED BY <1>1, HistoryTheorem, PTL

\* No event is abandoned before its junctions or its sessions ran out.
THEOREM AbandonedTheorem == Spec => []AbandonedForCause
<1>1. HistoryInv => AbandonedForCause
  BY DEF HistoryInv, RowEarned, AbandonedForCause
<1>. QED BY <1>1, HistoryTheorem, PTL

----------------------------------------------------------------------------
(***************************************************************************)
(* A student whose requests never overlap: one request slot, any number    *)
(* of topics, categories, events and calls, every threshold. A request     *)
(* may still fail at any of its calls. What a handler read is then what    *)
(* the database holds until it writes, so nothing is lost; the theorems    *)
(* above say what is left of this when requests do overlap.                *)
(***************************************************************************)

OneAtATime == \E r \in Requests : Requests = {r}

\* What a handler has read of a row it may still write is the row, and active.
ReadIsCurrent ==
  \A r \in Requests :
    /\ req[r].step = "idle" => req[r].todo = {}
    /\ \A e \in req[r].todo : req[r].seen[e] = rows[e] /\ Active(e)

\* What a detection found absent before it creates an event is still absent.
StillAbsent ==
  \A r \in Requests :
    /\ req[r].step \in {"findPersistent", "create"} =>
          /\ req[r].topic \in Topics /\ req[r].category \in Categories
          /\ ActiveFor(req[r].topic, req[r].category) = {}
    /\ req[r].step = "create" => PersistentFor(req[r].topic, req[r].category) = {}

\* A row and the history of its event, as long as nothing is lost.
Tells(row, h) ==
  /\ row.remediationCount = h.failures
  /\ row.consecutiveCorrect = h.streak
  /\ row.junctionsSinceDetection = h.ticks
  /\ row.status = "RESOLVED" => h.streak >= IF h.tiles = 2 THEN 2 ELSE 1
  /\ row.status = "NONE" => row = NoRow

RowsTell == \A e \in Events : Tells(rows[e], evidence[e])

Serial == TypeOK /\ ReadIsCurrent /\ StillAbsent /\ RowsTell

----------------------------------------------------------------------------
(* What the one request knows after its step                               *)

LEMMA AfterFinish ==
  ASSUME TypeOK, NEW r, Requests = {r}, Finish(r)
  PROVE  ReadIsCurrent' /\ StillAbsent'
<1>1. req'[r].todo = {} /\ req'[r].step = "idle"
  BY DEF TypeOK, Finish, Local, Idle
<1>. QED BY <1>1 DEF ReadIsCurrent, StillAbsent

LEMMA AfterReading ==
  ASSUME TypeOK, NEW r, Requests = {r}, UNCHANGED rows,
         NEW record, Local(r, record),
         \A e \in record.todo : record.seen[e] = rows[e] /\ Active(e),
         record.step \notin {"idle", "findPersistent", "create"}
  PROVE  ReadIsCurrent' /\ StillAbsent'
<1>1. req'[r] = record
  BY DEF TypeOK, Local
<1>. QED BY <1>1 DEF ReadIsCurrent, StillAbsent, Active

LEMMA AfterLoop ==
  ASSUME TypeOK, ReadIsCurrent, NEW r, Requests = {r},
         NEW step \in Steps \ {"idle", "findPersistent", "create"},
         NEW S \in SUBSET req[r].todo, \A e \in S : rows'[e] = rows[e],
         Loop(r, step, S)
  PROVE  ReadIsCurrent' /\ StillAbsent'
<1>1. CASE S = {}
  BY <1>1, AfterFinish DEF Loop
<1>2. CASE S # {}
  <2> DEFINE read == [e \in Events |-> IF e \in S THEN req[r].seen[e] ELSE NoRow]
             rec == [req[r] EXCEPT !.step = step, !.todo = S, !.seen = read]
  <2>1. req[r] \in Request /\ S \subseteq Events
    BY DEF TypeOK, Request
  <2>2. rec.todo = S /\ rec.step = step /\ rec.seen = read
    BY <2>1 DEF Request
  <2>3. req'[r] = rec
    <3>1. Local(r, rec)
      BY <1>2 DEF Loop
    <3>. QED BY <3>1 DEF TypeOK, Local
  <2>4. ASSUME NEW e \in S
        PROVE  read[e] = rows'[e] /\ rows'[e].status \in ACTIVE_STATUSES
    BY <2>1, <2>4 DEF ReadIsCurrent, Active
  <2> HIDE DEF read, rec
  <2>. QED BY <2>2, <2>3, <2>4 DEF ReadIsCurrent, StillAbsent, Active
<1>. QED BY <1>1, <1>2

\* One row is written together with what the student showed.
LEMMA AfterWrite ==
  ASSUME TypeOK, RowsTell, NEW e \in Events, NEW row, NEW h,
         rows' = [rows EXCEPT ![e] = row],
         evidence' = [evidence EXCEPT ![e] = h],
         Tells(row, h)
  PROVE  RowsTell'
<1>1. /\ rows'[e] = row /\ evidence'[e] = h
      /\ \A f \in Events \ {e} : rows'[f] = rows[f] /\ evidence'[f] = evidence[f]
  BY DEF TypeOK
<1>. QED BY <1>1 DEF RowsTell

----------------------------------------------------------------------------
(* What an evaluation and a tick make of a row that tells its history       *)

\* evaluateProbe's counters are those of the history, and a streak resolves
\* an event only when it is as long as the last question asks for.
LEMMA ProbeTells ==
  ASSUME NEW row \in Row, NEW h \in Evidence, NEW a \in Answer, Tells(row, h)
  PROVE  LET v == evaluateProbe(row, a)
         IN  /\ v.remediationCount = Probed(h, a).failures
             /\ v.consecutiveCorrect = Probed(h, a).streak
             /\ row.junctionsSinceDetection = Probed(h, a).ticks
             /\ v.status = "RESOLVED" =>
                  Probed(h, a).streak >= IF Probed(h, a).tiles = 2 THEN 2 ELSE 1
             /\ v.status # "NONE"
<1>1. /\ row.remediationCount = h.failures /\ row.remediationCount \in Nat
      /\ row.consecutiveCorrect = h.streak /\ row.consecutiveCorrect \in Nat
      /\ row.junctionsSinceDetection = h.ticks
      /\ a.optionCount \in {2, 3}
  BY DEF Tells, Row, Answer
<1>2. /\ Probed(h, a).streak = IF a.correct /\ ~a.hintUsed THEN h.streak + 1 ELSE 0
      /\ Probed(h, a).failures = IF a.correct THEN h.failures ELSE h.failures + 1
      /\ Probed(h, a).tiles = a.optionCount
      /\ Probed(h, a).ticks = h.ticks
  BY DEF Probed, Evidence
<1>3. CASE a.correct /\ ~a.hintUsed
  <2>1. /\ evaluateProbe(row, a).consecutiveCorrect = row.consecutiveCorrect + 1
        /\ evaluateProbe(row, a).remediationCount = row.remediationCount
        /\ evaluateProbe(row, a).status =
             IF row.consecutiveCorrect + 1 >= requiredConsecutiveCorrect(a.optionCount)
             THEN "RESOLVED" ELSE "OPEN"
    BY <1>3 DEF evaluateProbe
  <2>. QED BY <1>1, <1>2, <1>3, <2>1 DEF requiredConsecutiveCorrect
<1>4. CASE a.correct /\ a.hintUsed
  <2>1. /\ evaluateProbe(row, a).consecutiveCorrect = 0
        /\ evaluateProbe(row, a).remediationCount = row.remediationCount
        /\ evaluateProbe(row, a).status = "OPEN"
    BY <1>4 DEF evaluateProbe
  <2>. QED BY <1>1, <1>2, <1>4, <2>1
<1>5. CASE ~a.correct
  <2>1. /\ evaluateProbe(row, a).consecutiveCorrect = 0
        /\ evaluateProbe(row, a).remediationCount = row.remediationCount + 1
        /\ evaluateProbe(row, a).status \in {"OPEN", "PERSISTENT"}
    BY <1>5 DEF evaluateProbe
  <2>. QED BY <1>1, <1>2, <1>5, <2>1
<1>. QED BY <1>3, <1>4, <1>5

LEMMA ProbedRowTells ==
  ASSUME NEW row \in Row, NEW h \in Evidence, NEW a \in Answer, Tells(row, h),
         NEW count
  PROVE  Tells(ProbedRow(row, evaluateProbe(row, a), count), Probed(h, a))
<1> DEFINE v == evaluateProbe(row, a)
           new == ProbedRow(row, v, count)
<1>1. /\ new.remediationCount = v.remediationCount
      /\ new.consecutiveCorrect = v.consecutiveCorrect
      /\ new.junctionsSinceDetection = row.junctionsSinceDetection
      /\ new.status = v.status
  <2> HIDE DEF v
  <2>. QED BY DEF ProbedRow, Evaluated, Row
<1>2. /\ v.remediationCount = Probed(h, a).failures
      /\ v.consecutiveCorrect = Probed(h, a).streak
      /\ row.junctionsSinceDetection = Probed(h, a).ticks
      /\ v.status = "RESOLVED" =>
           Probed(h, a).streak >= IF Probed(h, a).tiles = 2 THEN 2 ELSE 1
      /\ v.status # "NONE"
  BY ProbeTells
<1> HIDE DEF v, new
<1>3. Tells(new, Probed(h, a))
  BY <1>1, <1>2 DEF Tells
<1>. QED BY <1>3 DEF new, v

\* A repeat detection counts as a wrong answer.
LEMMA RepeatTells ==
  ASSUME NEW row \in Row, NEW h \in Evidence, Tells(row, h)
  PROVE  Tells(Evaluated(row, evaluateRepeatDetection(row)), Repeated(h))
<1> DEFINE a == [optionCount |-> 2, correct |-> FALSE, hintUsed |-> FALSE]
           v == evaluateProbe(row, a)
           new == Evaluated(row, v)
<1>1. /\ v.consecutiveCorrect = 0
      /\ v.remediationCount = row.remediationCount + 1
      /\ v.status \in {"OPEN", "PERSISTENT"}
  BY DEF evaluateProbe
<1>2. /\ new.remediationCount = v.remediationCount
      /\ new.consecutiveCorrect = v.consecutiveCorrect
      /\ new.junctionsSinceDetection = row.junctionsSinceDetection
      /\ new.status = v.status
  <2> HIDE DEF v
  <2>. QED BY DEF Evaluated, Row
<1>3. /\ Repeated(h).failures = h.failures + 1
      /\ Repeated(h).streak = 0
      /\ Repeated(h).ticks = h.ticks
  BY DEF Repeated, Evidence
<1>4. new = Evaluated(row, evaluateRepeatDetection(row))
  BY DEF evaluateRepeatDetection
<1> HIDE DEF new, v
<1>. QED BY <1>1, <1>2, <1>3, <1>4 DEF Tells

LEMMA TickTells ==
  ASSUME NEW row \in Row, NEW h \in Evidence, Tells(row, h),
         row.status \in ACTIVE_STATUSES
  PROVE  Tells(TickedRow(row, row), Ticked(h))
<1> DEFINE new == TickedRow(row, row)
<1>1. /\ new.remediationCount = row.remediationCount
      /\ new.consecutiveCorrect = row.consecutiveCorrect
      /\ new.junctionsSinceDetection = row.junctionsSinceDetection + 1
      /\ new.status \in {"ABANDONED", row.status}
  BY DEF TickedRow, Row
<1>2. /\ Ticked(h).failures = h.failures
      /\ Ticked(h).streak = h.streak
      /\ Ticked(h).ticks = h.ticks + 1
  BY DEF Ticked, Evidence
<1> HIDE DEF new
<1>3. Tells(new, Ticked(h))
  BY <1>1, <1>2 DEF Tells, ACTIVE_STATUSES
<1>. QED BY <1>3 DEF new

----------------------------------------------------------------------------
(* The invariant of a single request                                       *)

LEMMA SerialInit == Init => Serial
<1> SUFFICES ASSUME Init PROVE Serial
  OBVIOUS
<1>1. TypeOK
  BY TypeInit
<1>2. ReadIsCurrent /\ StillAbsent
  BY DEF Init, Idle, ReadIsCurrent, StillAbsent
<1>3. RowsTell
  BY DEF Init, NoRow, NoEvidence, RowsTell, Tells
<1>. QED BY <1>1, <1>2, <1>3 DEF Serial

\* A step that writes no row leaves every row with its history.
LEMMA NothingToTell ==
  ASSUME RowsTell, UNCHANGED <<rows, evidence>>
  PROVE  RowsTell'
BY DEF RowsTell

\* With one request, what was read is what is written over.
LEMMA SerialStep ==
  ASSUME NEW r, Requests = {r}, Serial, [Next]_vars
  PROVE  Serial'
<1> USE DEF At, Arrive
<1>0. TypeOK /\ TypeOK' /\ ReadIsCurrent /\ StillAbsent /\ RowsTell
  BY TypeStep DEF Serial
<1>s. SUFFICES ReadIsCurrent' /\ StillAbsent' /\ RowsTell'
  BY <1>0 DEF Serial
<1>t. /\ rows \in [Events -> Row] /\ evidence \in [Events -> Evidence]
      /\ req[r] \in Request /\ req[r].todo \subseteq Events
      /\ req[r].answer \in Answer
  BY <1>0 DEF TypeOK, Request
<1>c. \A e \in req[r].todo : req[r].seen[e] = rows[e] /\ Active(e)
  BY <1>0 DEF ReadIsCurrent
<1>u. CASE UNCHANGED vars
  <2>1. ReadIsCurrent'
    BY <1>0, <1>u DEF vars, ReadIsCurrent, Active
  <2>2. StillAbsent'
    BY <1>0, <1>u DEF vars, StillAbsent, ActiveFor, PersistentFor, Active, ForKey
  <2>. QED BY <1>0, <1>u, <2>1, <2>2, NothingToTell DEF vars
<1>1. ASSUME NEW t \in Topics, NEW c \in Categories, DetectFindActive(r, t, c)
      PROVE  ReadIsCurrent' /\ StillAbsent' /\ RowsTell'
  <2>0. UNCHANGED <<rows, evidence>>
    BY <1>1 DEF DetectFindActive
  <2>1. ASSUME NEW e \in ActiveFor(t, c),
               Local(r, [Idle EXCEPT !.step = "escalate", !.todo = {e},
                                     !.seen = Reading({e})])
        PROVE  ReadIsCurrent' /\ StillAbsent'
    <3> DEFINE rec == [Idle EXCEPT !.step = "escalate", !.todo = {e},
                                   !.seen = Reading({e})]
    <3>1. /\ rec.todo = {e} /\ rec.step = "escalate"
          /\ rec.seen[e] = rows[e] /\ Active(e)
      BY DEF Idle, Reading, ActiveFor
    <3>2. Local(r, rec)
      BY <2>1
    <3> HIDE DEF rec
    <3>. QED BY <1>0, <2>0, <3>1, <3>2, AfterReading
  <2>2. CASE /\ ActiveFor(t, c) = {}
             /\ Local(r, [Idle EXCEPT !.step = "findPersistent",
                                      !.topic = t, !.category = c])
    <3>1. /\ req'[r].todo = {} /\ req'[r].step = "findPersistent"
          /\ req'[r].topic = t /\ req'[r].category = c
      BY <1>0, <2>2 DEF TypeOK, Local, Idle
    <3>2. ReadIsCurrent'
      BY <3>1 DEF ReadIsCurrent
    <3>3. StillAbsent'
      BY <2>0, <2>2, <3>1 DEF StillAbsent, ActiveFor, Active, ForKey
    <3>4. RowsTell'
      BY <1>0, <2>0, NothingToTell
    <3>. QED BY <3>2, <3>3, <3>4
  <2>. QED BY <1>0, <1>1, <2>0, <2>1, <2>2, NothingToTell DEF DetectFindActive
<1>2. CASE DetectFindPersistent(r)
  <2>0. UNCHANGED <<rows, evidence>> /\ req[r].step = "findPersistent"
    BY <1>2 DEF DetectFindPersistent
  <2>n. RowsTell'
    BY <1>0, <2>0, NothingToTell
  <2>1. CASE Finish(r)
    BY <1>0, <2>n, <2>1, AfterFinish
  <2>2. CASE /\ PersistentFor(req[r].topic, req[r].category) = {}
             /\ Local(r, [req[r] EXCEPT !.step = "create"])
    <3> DEFINE rec == [req[r] EXCEPT !.step = "create"]
    <3>0. /\ rec.todo = req[r].todo /\ rec.seen = req[r].seen
          /\ rec.topic = req[r].topic /\ rec.category = req[r].category
          /\ rec.step = "create"
      BY <1>t DEF Request
    <3>1. req'[r] = rec
      BY <1>0, <2>2 DEF TypeOK, Local
    <3> HIDE DEF rec
    <3>2. ReadIsCurrent'
      BY <1>c, <2>0, <3>0, <3>1 DEF ReadIsCurrent, Active
    <3>3. StillAbsent'
      BY <1>0, <2>0, <2>2, <3>0, <3>1
         DEF StillAbsent, ActiveFor, PersistentFor, Active, ForKey
    <3>. QED BY <2>n, <3>2, <3>3
  <2>. QED BY <1>2, <2>n, <2>1, <2>2 DEF DetectFindPersistent
<1>3. CASE DetectCreate(r)
  <2>1. PICK e \in Events :
           /\ rows[e].status = "NONE"
           /\ rows' = [rows EXCEPT ![e] =
                [NoRow EXCEPT !.topic = req[r].topic, !.category = req[r].category,
                              !.status = "OPEN", !.detectedAt = Len(sessions)]]
    BY <1>3 DEF DetectCreate
  <2> DEFINE row == [NoRow EXCEPT !.topic = req[r].topic, !.category = req[r].category,
                                  !.status = "OPEN", !.detectedAt = Len(sessions)]
  <2>2. /\ row.remediationCount = 0 /\ row.consecutiveCorrect = 0
        /\ row.junctionsSinceDetection = 0 /\ row.status = "OPEN"
    BY DEF NoRow
  <2>3. /\ evidence[e].failures = 0 /\ evidence[e].streak = 0
        /\ evidence[e].ticks = 0
    BY <1>0, <2>1 DEF RowsTell, Tells, NoRow
  <2>4. Finish(r) /\ evidence' = [evidence EXCEPT ![e] = evidence[e]]
    BY <1>3, <1>t DEF DetectCreate
  <2> HIDE DEF row
  <2>5. Tells(row, evidence[e])
    BY <2>2, <2>3 DEF Tells
  <2>6. rows' = [rows EXCEPT ![e] = row]
    BY <2>1 DEF row
  <2>. QED BY <1>0, <2>4, <2>5, <2>6, AfterFinish, AfterWrite
<1>4. CASE DetectEscalate(r)
  <2>1. PICK e \in req[r].todo :
       /\ rows' = [rows EXCEPT ![e] =
            Evaluated(@, evaluateRepeatDetection(req[r].seen[e]))]
       /\ evidence' = [evidence EXCEPT ![e] = Repeated(@)]
    BY <1>4 DEF DetectEscalate
  <2>2. /\ e \in Events /\ rows[e] \in Row /\ evidence[e] \in Evidence
        /\ Tells(rows[e], evidence[e])
    BY <1>0, <1>t DEF RowsTell
  <2>3. rows' = [rows EXCEPT ![e] = Evaluated(rows[e], evaluateRepeatDetection(rows[e]))]
    BY <1>c, <2>1
  <2>4. Finish(r)
    BY <1>4 DEF DetectEscalate
  <2>5. Tells(Evaluated(rows[e], evaluateRepeatDetection(rows[e])), Repeated(evidence[e]))
    BY <2>2, RepeatTells
  <2>. QED BY <1>0, <2>1, <2>2, <2>3, <2>4, <2>5, AfterFinish, AfterWrite
<1>5. ASSUME NEW e \in Events, NEW a \in Answer, ProbeRead(r, e, a)
      PROVE  ReadIsCurrent' /\ StillAbsent' /\ RowsTell'
  <2>0. UNCHANGED <<rows, evidence>>
    BY <1>5 DEF ProbeRead
  <2>1. CASE Active(e)
    <3> DEFINE rec == [Idle EXCEPT !.step = "probe", !.answer = a,
                                   !.todo = {e}, !.seen = Reading({e})]
    <3>1. /\ rec.todo = {e} /\ rec.step = "probe" /\ rec.seen[e] = rows[e]
      BY DEF Idle, Reading
    <3>2. Local(r, rec)
      BY <1>5, <2>1 DEF ProbeRead
    <3> HIDE DEF rec
    <3>. QED BY <1>0, <2>0, <2>1, <3>1, <3>2, AfterReading, NothingToTell
  <2>2. CASE ~Active(e)
    BY <1>0, <1>5, <2>0, <2>2, AfterFinish, NothingToTell DEF ProbeRead
  <2>. QED BY <2>1, <2>2
<1>6. CASE ProbeWrite(r)
  <2>1. PICK e \in req[r].todo :
       /\ rows' = [rows EXCEPT ![e] =
            ProbedRow(@, evaluateProbe(req[r].seen[e], req[r].answer),
                      probeCountWritten(r, e))]
       /\ evidence' = [evidence EXCEPT ![e] = Probed(@, req[r].answer)]
    BY <1>6 DEF ProbeWrite
  <2>2. /\ e \in Events /\ rows[e] \in Row /\ evidence[e] \in Evidence
        /\ Tells(rows[e], evidence[e])
    BY <1>0, <1>t DEF RowsTell
  <2> DEFINE row == ProbedRow(rows[e], evaluateProbe(rows[e], req[r].answer),
                              probeCountWritten(r, e))
  <2>3. rows' = [rows EXCEPT ![e] = row]
    BY <1>c, <2>1
  <2>4. Finish(r)
    BY <1>6 DEF ProbeWrite
  <2>5. Tells(row, Probed(evidence[e], req[r].answer))
    BY <1>t, <2>2, ProbedRowTells
  <2> HIDE DEF row
  <2>. QED BY <1>0, <2>1, <2>2, <2>3, <2>4, <2>5, AfterFinish, AfterWrite
<1>7. ASSUME NEW t \in Topics, TickRead(r, t)
      PROVE  ReadIsCurrent' /\ StillAbsent' /\ RowsTell'
  <2>0. UNCHANGED <<rows, evidence>>
    BY <1>7 DEF TickRead
  <2>1. CASE ActiveOn(t) # {}
    <3> DEFINE rec == [Idle EXCEPT !.step = "tick", !.todo = ActiveOn(t),
                                   !.seen = Reading(ActiveOn(t))]
    <3>1. /\ rec.step = "tick"
          /\ \A e \in rec.todo : rec.seen[e] = rows[e] /\ Active(e)
      BY DEF Idle, Reading, ActiveOn
    <3>2. Local(r, rec)
      BY <1>7, <2>1 DEF TickRead
    <3> HIDE DEF rec
    <3>. QED BY <1>0, <2>0, <3>1, <3>2, AfterReading, NothingToTell
  <2>2. CASE ActiveOn(t) = {}
    BY <1>0, <1>7, <2>0, <2>2, AfterFinish, NothingToTell DEF TickRead
  <2>. QED BY <2>1, <2>2
<1>8. CASE TickWrite(r)
  <2>1. PICK e \in req[r].todo :
       /\ rows' = [rows EXCEPT ![e] = TickedRow(@, req[r].seen[e])]
       /\ evidence' = [evidence EXCEPT ![e] = Ticked(@)]
       /\ Loop(r, "tick", req[r].todo \ {e})
    BY <1>8 DEF TickWrite
  <2>2. /\ e \in Events /\ rows[e] \in Row /\ evidence[e] \in Evidence
        /\ Tells(rows[e], evidence[e]) /\ rows[e].status \in ACTIVE_STATUSES
    BY <1>0, <1>c, <1>t DEF RowsTell, Active
  <2>3. rows' = [rows EXCEPT ![e] = TickedRow(rows[e], rows[e])]
    BY <1>c, <2>1
  <2>4. \A f \in req[r].todo \ {e} : rows'[f] = rows[f]
    BY <1>t, <2>3
  <2>5. ReadIsCurrent' /\ StillAbsent'
    BY <1>0, <2>1, <2>4, AfterLoop DEF Steps
  <2>6. Tells(TickedRow(rows[e], rows[e]), Ticked(evidence[e]))
    BY <2>2, TickTells
  <2>. QED BY <1>0, <2>1, <2>2, <2>3, <2>5, <2>6, AfterWrite
<1>9. ASSUME NEW t \in Topics, CreateSession(r, t) \/ SessionCheck(r, t)
      PROVE  ReadIsCurrent' /\ StillAbsent' /\ RowsTell'
  <2>0. UNCHANGED <<rows, evidence>>
    BY <1>9 DEF CreateSession, SessionCheck
  <2> DEFINE rec == [Idle EXCEPT !.step = "findStale", !.topic = t]
  <2>1. rec.step = "findStale" /\ rec.todo = {}
    BY DEF Idle
  <2>2. Local(r, rec)
    BY <1>9 DEF CreateSession, SessionCheck
  <2> HIDE DEF rec
  <2>. QED BY <1>0, <2>0, <2>1, <2>2, AfterReading, NothingToTell
<1>10. CASE StaleFind(r)
  <2> DEFINE S == {e \in Events : Active(e) /\ rows[e].topic # req[r].topic}
  <2>0. UNCHANGED <<rows, evidence>>
    BY <1>10 DEF StaleFind
  <2>1. CASE S # {}
    <3> DEFINE rec == [req[r] EXCEPT !.step = "lastOnTopic", !.todo = S,
                                     !.seen = Reading(S)]
    <3>1. rec.step = "lastOnTopic" /\ rec.todo = S /\ rec.seen = Reading(S)
      BY <1>t DEF Request
    <3>2. \A e \in S : Reading(S)[e] = rows[e] /\ Active(e)
      BY DEF Reading
    <3>3. Local(r, rec)
      BY <1>10, <2>1 DEF StaleFind
    <3> HIDE DEF rec, S
    <3>. QED BY <1>0, <2>0, <3>1, <3>2, <3>3, AfterReading, NothingToTell
  <2>2. CASE S = {}
    BY <1>0, <1>10, <2>0, <2>2, AfterFinish, NothingToTell DEF StaleFind
  <2>. QED BY <2>1, <2>2
<1>11. CASE StaleLastOnTopic(r)
  <2>0. UNCHANGED <<rows, evidence>>
    BY <1>11 DEF StaleLastOnTopic
  <2>1. PICK e \in req[r].todo, i \in 0..Len(sessions) :
           Local(r, [req[r] EXCEPT !.step = "countElsewhere",
                                   !.cursor = e, !.since = i])
    BY <1>11 DEF StaleLastOnTopic
  <2> DEFINE rec == [req[r] EXCEPT !.step = "countElsewhere",
                                   !.cursor = e, !.since = i]
  <2>2. /\ rec.step = "countElsewhere" /\ rec.todo = req[r].todo
        /\ rec.seen = req[r].seen
    BY <1>t DEF Request
  <2>3. Local(r, rec)
    BY <2>1
  <2> HIDE DEF rec
  <2>. QED BY <1>0, <1>c, <2>0, <2>2, <2>3, AfterReading, NothingToTell
<1>12. CASE StaleCountElsewhere(r)
  <2>0. UNCHANGED <<rows, evidence>>
    BY <1>12 DEF StaleCountElsewhere
  <2>1. PICK e \in req[r].todo :
          \/ Local(r, [req[r] EXCEPT !.step = "abandon"])
          \/ Loop(r, "lastOnTopic", req[r].todo \ {e})
    BY <1>12 DEF StaleCountElsewhere
  <2>2. CASE Local(r, [req[r] EXCEPT !.step = "abandon"])
    <3> DEFINE rec == [req[r] EXCEPT !.step = "abandon"]
    <3>1. /\ rec.step = "abandon" /\ rec.todo = req[r].todo
          /\ rec.seen = req[r].seen
      BY <1>t DEF Request
    <3>2. Local(r, rec)
      BY <2>2
    <3> HIDE DEF rec
    <3>. QED BY <1>0, <1>c, <2>0, <3>1, <3>2, AfterReading, NothingToTell
  <2>3. CASE Loop(r, "lastOnTopic", req[r].todo \ {e})
    BY <1>0, <2>0, <2>3, AfterLoop, NothingToTell DEF Steps
  <2>. QED BY <2>1, <2>2, <2>3
<1>13. CASE StaleAbandon(r)
  <2>1. PICK e \in req[r].todo :
       /\ rows' = [rows EXCEPT ![e].status = "ABANDONED"]
       /\ Loop(r, "lastOnTopic", req[r].todo \ {e})
    BY <1>13 DEF StaleAbandon
  <2> DEFINE row == [rows[e] EXCEPT !.status = "ABANDONED"]
  <2>2. e \in Events /\ rows[e] \in Row /\ Tells(rows[e], evidence[e])
    BY <1>0, <1>t DEF RowsTell
  <2>3. rows' = [rows EXCEPT ![e] = row]
    BY <2>1
  <2>4. Tells(row, evidence[e])
    BY <2>2 DEF Tells, Row
  <2>5. evidence' = [evidence EXCEPT ![e] = evidence[e]]
    BY <1>13, <1>t, <2>2 DEF StaleAbandon
  <2> HIDE DEF row
  <2>6. \A f \in req[r].todo \ {e} : rows'[f] = rows[f]
    BY <1>t, <2>3
  <2>7. ReadIsCurrent' /\ StillAbsent'
    BY <1>0, <2>1, <2>6, AfterLoop DEF Steps
  <2>. QED BY <1>0, <2>2, <2>3, <2>4, <2>5, <2>7, AfterWrite
<1>14. ASSUME NEW e \in Events, PresentRemediation(r, e)
       PROVE  ReadIsCurrent' /\ StillAbsent' /\ RowsTell'
  <2> DEFINE row == [rows[e] EXCEPT !.status = "REMEDIATED"]
  <2>1. rows[e] \in Row /\ Tells(rows[e], evidence[e])
    BY <1>0, <1>t DEF RowsTell
  <2>2. rows' = [rows EXCEPT ![e] = row] /\ UNCHANGED req /\ req[r].step = "idle"
    BY <1>14 DEF PresentRemediation
  <2>3. Tells(row, evidence[e])
    BY <2>1 DEF Tells, Row
  <2>4. evidence' = [evidence EXCEPT ![e] = evidence[e]]
    BY <1>14, <1>t DEF PresentRemediation
  <2>5. row.status = "REMEDIATED"
    BY <2>1 DEF Row
  <2> HIDE DEF row
  <2>. QED BY <1>0, <2>2, <2>3, <2>4, AfterWrite
              DEF ReadIsCurrent, StillAbsent
<1>15. CASE Fail(r)
  BY <1>0, <1>15, AfterFinish, NothingToTell DEF Fail
<1>. QED BY <1>u, <1>1, <1>2, <1>3, <1>4, <1>5, <1>6, <1>7, <1>8, <1>9, <1>10,
            <1>11, <1>12, <1>13, <1>14, <1>15 DEF Next

LEMMA SerialAlways ==
  ASSUME OneAtATime
  PROVE  Spec => []Serial
<1>1. PICK r : Requests = {r}
  BY DEF OneAtATime
<1>2. Serial /\ [Next]_vars => Serial'
  BY <1>1, SerialStep
<1>. QED BY <1>2, SerialInit, PTL DEF Spec

\* A student whose requests never overlap loses nothing: every row tells the
\* failures, the streak and the junctions of its event exactly
\* (misconceptionEvent.service.ts writes back what it read).
THEOREM NothingIsLost ==
  ASSUME OneAtATime
  PROVE  Spec => []NoLostEvidence
<1>1. Serial => NoLostEvidence
  BY DEF Serial, RowsTell, Tells, NoLostEvidence
<1>. QED BY <1>1, SerialAlways, PTL

\* An event is resolved by the streak that the last question asks for, and
\* by nothing else.
THEOREM ResolutionIsEarned ==
  ASSUME OneAtATime
  PROVE  Spec => []ResolvedEarned
<1>1. Serial => ResolvedEarned
  BY DEF Serial, RowsTell, Tells, ResolvedEarned
<1>. QED BY <1>1, SerialAlways, PTL

----------------------------------------------------------------------------
(* The rules of a step                                                     *)

\* The rules look at a row's key, its status and its count of probes.
LEMMA NoRowChanges ==
  ASSUME TypeOK, UNCHANGED rows
  PROVE  ClosedOnlyReopenedByTask /\ DetectionOpensOnlyWhenNone /\ LateProbeNotEvaluated
BY DEF ClosedOnlyReopenedByTask, DetectionOpensOnlyWhenNone, LateProbeNotEvaluated

\* A handler that writes a row it has just read writes an active one.
LEMMA ActiveRowChanges ==
  ASSUME TypeOK, NEW e \in Events, Active(e), NEW row,
         rows' = [rows EXCEPT ![e] = row]
  PROVE  ClosedOnlyReopenedByTask /\ DetectionOpensOnlyWhenNone /\ LateProbeNotEvaluated
<1>1. /\ rows'[e] = row
      /\ \A f \in Events \ {e} : rows'[f] = rows[f]
  BY DEF TypeOK
<1>2. ~Closed(e) /\ rows[e].status # "NONE"
  BY DEF Active, Closed, ACTIVE_STATUSES, ClosedStatuses
<1>. QED BY <1>1, <1>2 DEF ClosedOnlyReopenedByTask,
            DetectionOpensOnlyWhenNone, LateProbeNotEvaluated

LEMMA RulesStep ==
  ASSUME NEW r, Requests = {r}, Serial, [Next]_vars
  PROVE  ClosedOnlyReopenedByTask /\ DetectionOpensOnlyWhenNone /\ LateProbeNotEvaluated
<1> USE DEF At, Arrive
<1>0. TypeOK /\ ReadIsCurrent /\ StillAbsent /\ RowsTell
  BY DEF Serial
<1>c. \A e \in req[r].todo : e \in Events /\ Active(e)
  BY <1>0 DEF ReadIsCurrent, TypeOK, Request
<1>1. CASE UNCHANGED rows
  BY <1>0, <1>1, NoRowChanges
<1>2. CASE \/ DetectEscalate(r) \/ ProbeWrite(r) \/ TickWrite(r) \/ StaleAbandon(r)
  <2>1. \E e \in req[r].todo : \E row : rows' = [rows EXCEPT ![e] = row]
    <3>1. CASE DetectEscalate(r)
      BY <3>1 DEF DetectEscalate
    <3>2. CASE ProbeWrite(r)
      BY <3>2 DEF ProbeWrite
    <3>3. CASE TickWrite(r)
      BY <3>3 DEF TickWrite
    <3>4. CASE StaleAbandon(r)
      BY <3>4 DEF StaleAbandon
    <3>. QED BY <1>2, <3>1, <3>2, <3>3, <3>4
  <2>2. PICK e \in req[r].todo : \E row : rows' = [rows EXCEPT ![e] = row]
    BY <2>1
  <2>3. PICK row : rows' = [rows EXCEPT ![e] = row]
    BY <2>2
  <2>. QED BY <1>0, <1>c, <2>3, ActiveRowChanges
<1>3. CASE DetectCreate(r)
  <2> DEFINE row == [NoRow EXCEPT !.topic = req[r].topic, !.category = req[r].category,
                                  !.status = "OPEN", !.detectedAt = Len(sessions)]
             t == req[r].topic
             c == req[r].category
  <2>1. PICK e \in Events : rows[e].status = "NONE" /\ rows' = [rows EXCEPT ![e] = row]
    BY <1>3 DEF DetectCreate
  <2>2. /\ row.topic = t /\ row.category = c /\ row.probeCount = 0
    BY DEF NoRow
  <2>3. /\ t \in Topics /\ c \in Categories
        /\ ActiveFor(t, c) = {} /\ PersistentFor(t, c) = {}
    BY <1>0, <1>3 DEF DetectCreate, StillAbsent
  <2>4. /\ rows'[e] = row
        /\ \A f \in Events \ {e} : rows'[f] = rows[f]
    BY <1>0, <2>1 DEF TypeOK
  <2>5. rows[e].probeCount = 0 /\ ~Closed(e)
    BY <1>0, <2>1 DEF RowsTell, Tells, NoRow, Closed, ClosedStatuses
  <2>6. ASSUME NEW f \in Events, ForKey(f, t, c)
        PROVE  rows[f].status \in {"RESOLVED", "ABANDONED"}
    <3>1. rows[f].status # "NONE"
      BY <1>0, <2>3, <2>6, NoneAssumption DEF RowsTell, Tells, NoRow, ForKey
    <3>2. rows[f].status \in ACTIVE_STATUSES \cup ClosedStatuses \cup {"NONE"}
      BY <1>0 DEF TypeOK, Row
    <3>. QED BY <2>3, <2>6, <3>1, <3>2
             DEF ActiveFor, PersistentFor, Active, ACTIVE_STATUSES, ClosedStatuses
  <2> HIDE DEF row, t, c
  <2>7. ClosedOnlyReopenedByTask
    BY <2>4, <2>5 DEF ClosedOnlyReopenedByTask
  <2>8. DetectionOpensOnlyWhenNone
    BY <2>2, <2>4, <2>6 DEF DetectionOpensOnlyWhenNone
  <2>9. LateProbeNotEvaluated
    BY <2>2, <2>4, <2>5 DEF LateProbeNotEvaluated
  <2>. QED BY <2>7, <2>8, <2>9
<1>4. ASSUME NEW e \in Events, PresentRemediation(r, e)
      PROVE  ClosedOnlyReopenedByTask /\ DetectionOpensOnlyWhenNone /\ LateProbeNotEvaluated
  <2> DEFINE row == [rows[e] EXCEPT !.status = "REMEDIATED"]
  <2>1. rows' = [rows EXCEPT ![e] = row] /\ rows[e].status # "NONE"
    BY <1>4 DEF PresentRemediation
  <2>2. row.status = "REMEDIATED" /\ row.probeCount = rows[e].probeCount
    BY <1>0 DEF TypeOK, Row
  <2>3. /\ rows'[e] = row
        /\ \A f \in Events \ {e} : rows'[f] = rows[f]
    BY <1>0, <2>1 DEF TypeOK
  <2> HIDE DEF row
  <2>. QED BY <2>1, <2>2, <2>3 DEF ClosedOnlyReopenedByTask,
              DetectionOpensOnlyWhenNone, LateProbeNotEvaluated
<1>5. UNCHANGED rows \/ DetectEscalate(r) \/ ProbeWrite(r) \/ TickWrite(r)
        \/ StaleAbandon(r) \/ DetectCreate(r)
        \/ \E e \in Events : PresentRemediation(r, e)
  BY DEF Next, vars, DetectFindActive, DetectFindPersistent, ProbeRead, TickRead,
         CreateSession, SessionCheck, StaleFind, StaleLastOnTopic,
         StaleCountElsewhere, Fail
<1>. QED BY <1>1, <1>2, <1>3, <1>4, <1>5

\* Closed events are reopened only by a remediation task, an event is opened
\* only for a key that has none open or bottomed out, and a probe that comes
\* late is not evaluated.
THEOREM RulesHold ==
  ASSUME OneAtATime
  PROVE  Spec => RulesAreKept
<1>1. PICK r : Requests = {r}
  BY DEF OneAtATime
<1>2. Serial /\ [Next]_vars =>
        [ClosedOnlyReopenedByTask /\ DetectionOpensOnlyWhenNone /\ LateProbeNotEvaluated]_vars
  BY <1>1, RulesStep
<1>. QED BY <1>2, SerialAlways, PTL DEF Spec, RulesAreKept

==============================================================================
