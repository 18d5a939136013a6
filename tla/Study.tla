------------------------------- MODULE Study -------------------------------
(***************************************************************************)
(* Study participation in the API (services/study.service.ts and           *)
(* assessment.service.ts, with createSession and updateSession of          *)
(* session.service.ts and deleteAccount of account.service.ts as far as    *)
(* they touch it): enrolment under a unique code, consent, withdrawal, the *)
(* post-test override, the SUS submission, the sessions that complete a    *)
(* topic, and the pre-test and post-test.                                  *)
(*                                                                         *)
(* Every database call is one atomic step, and what a handler read earlier *)
(* is kept in its request and used, possibly stale, by its later steps.    *)
(*                                                                         *)
(* A participant code P01, P02, ... is its ordinal, 0 for none. A date is  *)
(* the number of sessions that existed at that moment: all the code asks   *)
(* of a date is whether it is set and which sessions started since.        *)
(***************************************************************************)
EXTENDS Integers, Sequences, FiniteSets

CONSTANTS
  Users,           \* accounts
  isDemo,          \* those of them that are demo accounts
  mayOverlap,      \* those whose client makes a call before the last one ended
  STUDY_TOPICS,    \* the instrumented topics, in their fixed order
  Items,           \* the items of an assessment, one point each
  Requests,        \* requests that may be in progress at the same time
  None,            \* null
  ENROL_ATTEMPTS,  \* tries of one enrolment
  Budgets          \* bound: the numbers of calls the users make in a behaviour

TopicSet == {STUDY_TOPICS[i] : i \in DOMAIN STUDY_TOPICS}

ASSUME StudyAssumption ==
  /\ isDemo \subseteq Users
  /\ mayOverlap \subseteq Users
  /\ IsFiniteSet(Users)
  /\ STUDY_TOPICS \in Seq(TopicSet) \ {<<>>}
  /\ \A i, j \in DOMAIN STUDY_TOPICS : STUDY_TOPICS[i] = STUDY_TOPICS[j] => i = j
  /\ IsFiniteSet(Items)
  /\ None \notin Users \cup TopicSet
  /\ ENROL_ATTEMPTS \in Nat \ {0}
  /\ Budgets \subseteq [Users -> Nat]

VARIABLES
  user,       \* the User row of each account
  sessions,   \* every Session row, oldest first
  attempt,    \* the AssessmentAttempt row of each account and phase
  req,        \* what each request in progress has read and has still to do
  calls,      \* calls each user has left
  overlapped, \* history: users who had two requests in progress at once
  claims      \* history: participant codes claimed so far

vars == <<user, sessions, attempt, req, calls, overlapped, claims>>

----------------------------------------------------------------------------
(* Rows and requests                                                       *)

Never == -1

User == [exists: BOOLEAN, participantCode: Nat,
         classicTopicSlug: TopicSet \cup {None},
         consentAt: Nat \cup {Never}, withdrawnAt: Nat \cup {Never},
         posttestOverrideAt: Nat \cup {Never},
         posttestOverrideIncompleteTopics: SUBSET TopicSet,
         susSubmittedAt: Nat \cup {Never}]

NewUser == [exists |-> TRUE, participantCode |-> 0, classicTopicSlug |-> None,
            consentAt |-> Never, withdrawnAt |-> Never,
            posttestOverrideAt |-> Never,
            posttestOverrideIncompleteTopics |-> {}, susSubmittedAt |-> Never]

NoUser == [NewUser EXCEPT !.exists = FALSE]

\* PRACTICE stands for every mode but CLASSIC. answered: a conceptual
\* junction was answered in it. A deleted account leaves its place, without
\* an owner, so that the later sessions keep their dates.
Session == [owner: Users \cup {None}, topic: TopicSet,
            mode: {"PRACTICE", "CLASSIC"},
            reachedFinalStep: BOOLEAN, answered: BOOLEAN]

Phases == {"PRE", "POST"}

\* What is recorded for an item: nothing, a wrong answer or a right one.
Response == {None, FALSE, TRUE}

Attempt == [exists: BOOLEAN, completed: BOOLEAN, totalScore: Nat,
            responses: [Items -> Response]]

NoAttempt == [exists |-> FALSE, completed |-> FALSE, totalScore |-> 0,
              responses |-> [i \in Items |-> None]]

Steps == {"idle", "ordinal", "claim", "consent", "withdraw", "topics",
          "override", "session", "sus", "status", "find", "create",
          "respond", "complete"}

\* seen is the User row as the handler read it, ordinal the code it is about
\* to claim, tries the claims it lost, topics the completed topics it read;
\* topic and mode are the session to be created; phase, item, correct and
\* total are for an assessment. since: claims made when the request came.
Request == [step: Steps, user: Users \cup {None}, seen: User, ordinal: Nat,
            tries: Nat, topics: SUBSET TopicSet, topic: TopicSet \cup {None},
            mode: {"PRACTICE", "CLASSIC"}, phase: Phases \cup {None},
            item: Items \cup {None}, correct: BOOLEAN, total: Nat, since: Nat]

Idle == [step |-> "idle", user |-> None, seen |-> NoUser, ordinal |-> 0,
         tries |-> 0, topics |-> {}, topic |-> None, mode |-> "PRACTICE",
         phase |-> None, item |-> None, correct |-> FALSE, total |-> 0,
         since |-> 0]

isActiveParticipant(row) ==
  row.participantCode # 0 /\ row.consentAt # Never /\ row.withdrawnAt = Never

----------------------------------------------------------------------------
(* Deliberately wrong variants of definitions below. No action uses one:   *)
(* each takes the place of the definition it is named for, to show that a  *)
(* property notices the difference.                                        *)

\* Only the participants who have consented count as holding their ordinal.
LowestUnconsented ==
  CHOOSE n \in 1..(Cardinality(Users) + 1) :
    \A u \in Users : isActiveParticipant(user[u]) => user[u].participantCode # n

\* Records the topics that were complete instead of those that were not.
RecordsCompleted(completed) == completed

\* Consent given again moves its date.
ConsentAgain(row) == row.participantCode # 0

\* Counts the participants instead of looking for a gap, and from zero.
ParticipantsSoFar == Cardinality({u \in Users : user[u].participantCode # 0})

----------------------------------------------------------------------------
(* The rules                                                               *)

classicTopicFor(ordinal) ==
  STUDY_TOPICS[((ordinal - 1) % Len(STUDY_TOPICS)) + 1]

conditionFor(topic, classic) ==
  IF classic # None /\ topic = classic THEN "CLASSIC" ELSE "TUTOR"

\* The server decides the condition, not the browser.
recordedSessionMode(requested, topic, row) ==
  IF isActiveParticipant(row) /\ conditionFor(topic, row.classicTopicSlug) = "CLASSIC"
  THEN "CLASSIC" ELSE "PRACTICE"

isTopicComplete(session) ==
  session.reachedFinalStep /\ (session.mode = "CLASSIC" \/ session.answered)

completedStudyTopics(u, consentAt) ==
  {sessions[i].topic : i \in {j \in DOMAIN sessions :
     /\ j > consentAt
     /\ sessions[j].owner = u
     /\ isTopicComplete(sessions[j])}}

incompleteTopics(completed) == TopicSet \ completed

\* getStudyStatus, of a row and topics read before.
posttestAvailable(row, completed) ==
  Cardinality(completed) >= Len(STUDY_TOPICS) \/ row.posttestOverrideAt # Never

\* The lowest ordinal no participant holds.
nextParticipantOrdinal ==
  CHOOSE n \in 1..(Cardinality(Users) + 1) :
    /\ \A u \in Users : user[u].participantCode # n
    /\ \A m \in 1..(n - 1) : \E u \in Users : user[u].participantCode = m

mayEnrol(row, u) == u \notin isDemo /\ row.participantCode = 0
mayConsent(row) == row.participantCode # 0 /\ row.consentAt = Never
mayWithdraw(row) == row.participantCode # 0 /\ row.withdrawnAt = Never
mayOverride(row) == isActiveParticipant(row) /\ row.posttestOverrideAt = Never
mayStart(row) == row.participantCode # 0 /\ row.consentAt # Never
open(row) == row.exists /\ ~row.completed
maySubmitSus(row) == row.participantCode # 0 /\ row.susSubmittedAt = Never

----------------------------------------------------------------------------
(* The handlers                                                            *)

Init ==
  /\ user = [u \in Users |-> NewUser]
  /\ sessions = <<>>
  /\ attempt = [u \in Users |-> [p \in Phases |-> NoAttempt]]
  /\ req = [r \in Requests |-> Idle]
  /\ calls \in Budgets
  /\ overlapped = {}
  /\ claims = 0

Now == Len(sessions)

InProgress(u) == \E r \in Requests : req[r].user = u

Call(u) ==
  /\ user[u].exists
  /\ calls[u] > 0
  /\ calls' = [calls EXCEPT ![u] = @ - 1]

\* A call of a user who is signed in takes a request that is not in progress.
Arrive(r, u) ==
  /\ req[r].step = "idle"
  /\ Call(u)
  /\ InProgress(u) => u \in mayOverlap
  /\ overlapped' = IF InProgress(u) THEN overlapped \cup {u} ELSE overlapped

At(r, step) == req[r].step = step /\ UNCHANGED <<calls, overlapped>>

Local(r, record) == req' = [req EXCEPT ![r] = record]
Finish(r) == Local(r, Idle)

rows == <<user, sessions, attempt, claims>>

\* The handler reads the rows and goes on to the step in next if they allow
\* it; if not it answers, with an error or with nothing to do, and as nothing
\* has changed the call is not counted.
ReadThen(r, u, allowed, next) ==
  /\ allowed
  /\ Arrive(r, u)
  /\ Local(r, next)
  /\ UNCHANGED rows

\* What a handler that has read the row of u keeps of it.
Holding(u, step) ==
  [Idle EXCEPT !.step = step, !.user = u, !.seen = user[u], !.since = claims]

\* The update that ends a handler; it fails if the account is gone.
Write(r, row) ==
  /\ user' = IF user[req[r].user].exists
             THEN [user EXCEPT ![req[r].user] = row] ELSE user
  /\ Finish(r)
  /\ UNCHANGED <<sessions, attempt>>

EnrolRead(r, u) ==
  ReadThen(r, u, mayEnrol(user[u], u), Holding(u, "ordinal"))

EnrolOrdinal(r) ==
  /\ At(r, "ordinal")
  /\ Local(r, [req[r] EXCEPT !.step = "claim",
                             !.ordinal = nextParticipantOrdinal])
  /\ UNCHANGED rows

\* The unique index refuses a code that another account holds.
CodeTaken(r) ==
  /\ user[req[r].user].exists
  /\ \E v \in Users \ {req[r].user} : user[v].participantCode = req[r].ordinal

\* A lost race is another try; after ENROL_ATTEMPTS of them, an error.
EnrolLost(r) ==
  /\ At(r, "claim")
  /\ CodeTaken(r)
  /\ IF req[r].tries + 1 >= ENROL_ATTEMPTS THEN Finish(r)
     ELSE Local(r, [req[r] EXCEPT !.step = "ordinal", !.tries = @ + 1])
  /\ UNCHANGED rows

EnrolClaim(r) ==
  /\ At(r, "claim")
  /\ ~CodeTaken(r)
  /\ Write(r, [user[req[r].user] EXCEPT
                 !.participantCode = req[r].ordinal,
                 !.classicTopicSlug = classicTopicFor(req[r].ordinal)])
  /\ claims' = IF user[req[r].user].exists THEN claims + 1 ELSE claims

ConsentRead(r, u) == ReadThen(r, u, mayConsent(user[u]), Holding(u, "consent"))

ConsentWrite(r) ==
  /\ At(r, "consent")
  /\ Write(r, [user[req[r].user] EXCEPT !.consentAt = Now])
  /\ UNCHANGED claims

WithdrawRead(r, u) ==
  ReadThen(r, u, mayWithdraw(user[u]), Holding(u, "withdraw"))

WithdrawWrite(r) ==
  /\ At(r, "withdraw")
  /\ Write(r, [user[req[r].user] EXCEPT !.withdrawnAt = Now])
  /\ UNCHANGED claims

\* overridePosttest, with the researcher's PIN: it reads the row, then the
\* completed topics, counted from the consent it read, then records both.
OverrideRead(r, u) == ReadThen(r, u, mayOverride(user[u]), Holding(u, "topics"))

OverrideTopics(r) ==
  /\ At(r, "topics")
  /\ Local(r, [req[r] EXCEPT !.step = "override",
       !.topics = completedStudyTopics(req[r].user, req[r].seen.consentAt)])
  /\ UNCHANGED rows

OverrideWrite(r) ==
  /\ At(r, "override")
  /\ Write(r, [user[req[r].user] EXCEPT
                 !.posttestOverrideAt = Now,
                 !.posttestOverrideIncompleteTopics =
                    incompleteTopics(req[r].topics)])
  /\ UNCHANGED claims

SusRead(r, u) == ReadThen(r, u, maySubmitSus(user[u]), Holding(u, "sus"))

SusWrite(r) ==
  /\ At(r, "sus")
  /\ Write(r, [user[req[r].user] EXCEPT !.susSubmittedAt = Now])
  /\ UNCHANGED claims

\* createSession reads the row and fixes the mode from it ...
SessionRead(r, u, topic, requested) ==
  ReadThen(r, u, TRUE,
    [Idle EXCEPT !.step = "session", !.user = u, !.topic = topic,
                 !.mode = recordedSessionMode(requested, topic, user[u])])

\* ... then writes the session (which a deleted account cannot own).
SessionCreate(r) ==
  /\ At(r, "session")
  /\ sessions' = IF user[req[r].user].exists
                 THEN Append(sessions,
                        [owner |-> req[r].user, topic |-> req[r].topic,
                         mode |-> req[r].mode,
                         reachedFinalStep |-> FALSE, answered |-> FALSE])
                 ELSE sessions
  /\ Finish(r)
  /\ UNCHANGED <<user, attempt, claims>>

\* A session is worked in: its run reaches the last step (updateSession), or
\* a conceptual junction is answered (logInteraction). One write each.
Work(i, field) ==
  /\ sessions[i].owner # None
  /\ Call(sessions[i].owner)
  /\ ~sessions[i][field]
  /\ sessions' = [sessions EXCEPT ![i][field] = TRUE]
  /\ UNCHANGED <<user, attempt, req, overlapped, claims>>

----------------------------------------------------------------------------
(* The assessments                                                         *)

totalOf(responses) == Cardinality({i \in Items : responses[i] = TRUE})

\* startAttempt: getStudyStatus reads the row ...
StartRead(r, u, phase) ==
  ReadThen(r, u, mayStart(user[u]), [Holding(u, "status") EXCEPT !.phase = phase])

\* ... and the completed topics, which decide the post-test; ...
StartTopics(r) ==
  /\ At(r, "status")
  /\ LET completed ==
           completedStudyTopics(req[r].user, req[r].seen.consentAt)
     IN IF req[r].phase = "POST" /\ ~posttestAvailable(req[r].seen, completed)
        THEN Finish(r)
        ELSE Local(r, [req[r] EXCEPT !.step = "find"])
  /\ UNCHANGED rows

\* ... an attempt that exists is handed back as it is ...
StartFind(r) ==
  /\ At(r, "find")
  /\ IF attempt[req[r].user][req[r].phase].exists THEN Finish(r)
     ELSE Local(r, [req[r] EXCEPT !.step = "create"])
  /\ UNCHANGED rows

\* ... and one that another call created in the meantime likewise.
StartCreate(r) ==
  /\ At(r, "create")
  /\ attempt' = IF user[req[r].user].exists
                   /\ ~attempt[req[r].user][req[r].phase].exists
                THEN [attempt EXCEPT ![req[r].user][req[r].phase] =
                        [NoAttempt EXCEPT !.exists = TRUE]]
                ELSE attempt
  /\ Finish(r)
  /\ UNCHANGED <<user, sessions, claims>>

\* submitResponse scores the answer and replaces the item's earlier one.
SubmitRead(r, u, phase, item, correct) ==
  ReadThen(r, u, open(attempt[u][phase]),
    [Idle EXCEPT !.step = "respond", !.user = u, !.phase = phase,
                 !.item = item, !.correct = correct])

SubmitWrite(r) ==
  /\ At(r, "respond")
  /\ attempt' = IF user[req[r].user].exists
                THEN [attempt EXCEPT ![req[r].user][req[r].phase]
                        .responses[req[r].item] = req[r].correct]
                ELSE attempt
  /\ Finish(r)
  /\ UNCHANGED <<user, sessions, claims>>

\* completeAttempt adds up the responses it read.
CompleteRead(r, u, phase) ==
  ReadThen(r, u, open(attempt[u][phase]),
    [Idle EXCEPT !.step = "complete", !.user = u, !.phase = phase,
                 !.total = totalOf(attempt[u][phase].responses)])

CompleteWrite(r) ==
  /\ At(r, "complete")
  /\ attempt' = IF user[req[r].user].exists
                THEN [attempt EXCEPT
                        ![req[r].user][req[r].phase].completed = TRUE,
                        ![req[r].user][req[r].phase].totalScore = req[r].total]
                ELSE attempt
  /\ Finish(r)
  /\ UNCHANGED <<user, sessions, claims>>

----------------------------------------------------------------------------

\* deleteAccount removes the row and everything recorded for it in one
\* transaction; what it reads before never changes.
DeleteAccount(u) ==
  /\ Call(u)
  /\ u \notin isDemo
  /\ user' = [user EXCEPT ![u] = NoUser]
  /\ sessions' = [i \in DOMAIN sessions |->
       IF sessions[i].owner = u THEN [sessions[i] EXCEPT !.owner = None]
       ELSE sessions[i]]
  /\ attempt' = [attempt EXCEPT ![u] = [p \in Phases |-> NoAttempt]]
  /\ UNCHANGED <<req, overlapped, claims>>

\* A database call may fail: the handler throws and the rest is not done.
Fail(r) ==
  /\ req[r].step # "idle"
  /\ Finish(r)
  /\ UNCHANGED <<user, sessions, attempt, calls, overlapped, claims>>

Begin(r, u) ==
  \/ EnrolRead(r, u)
  \/ ConsentRead(r, u)
  \/ WithdrawRead(r, u)
  \/ OverrideRead(r, u)
  \/ SusRead(r, u)
  \/ \E topic \in TopicSet, requested \in {"PRACTICE", "CLASSIC"} :
       SessionRead(r, u, topic, requested)
  \/ \E phase \in Phases :
       \/ StartRead(r, u, phase)
       \/ \E item \in Items, correct \in BOOLEAN :
            SubmitRead(r, u, phase, item, correct)
       \/ CompleteRead(r, u, phase)

Continue(r) ==
  \/ EnrolOrdinal(r)
  \/ EnrolLost(r)
  \/ EnrolClaim(r)
  \/ ConsentWrite(r)
  \/ WithdrawWrite(r)
  \/ OverrideTopics(r)
  \/ OverrideWrite(r)
  \/ SusWrite(r)
  \/ SessionCreate(r)
  \/ StartTopics(r)
  \/ StartFind(r)
  \/ StartCreate(r)
  \/ SubmitWrite(r)
  \/ CompleteWrite(r)

Next ==
  \/ \E r \in Requests :
       (\E u \in Users : Begin(r, u)) \/ Continue(r) \/ Fail(r)
  \/ \E i \in DOMAIN sessions, field \in {"reachedFinalStep", "answered"} :
       Work(i, field)
  \/ \E u \in Users : DeleteAccount(u)

Spec == Init /\ [][Next]_vars

----------------------------------------------------------------------------
(* Properties                                                              *)

(* Every variable has the shape the schema and the handlers give it; a     *)
(* request in progress has an owner, and whoever awaits a claim an ordinal.*)
TypeOK ==
  /\ user \in [Users -> User]
  /\ sessions \in Seq(Session)
  /\ attempt \in [Users -> [Phases -> Attempt]]
  /\ req \in [Requests -> Request]
  /\ calls \in [Users -> Nat]
  /\ overlapped \subseteq Users
  /\ claims \in Nat
  /\ \A r \in Requests :
       /\ req[r].step = "idle" <=> req[r].user = None
       /\ req[r].step = "claim" => req[r].ordinal # 0

(* The two holders of one code would share a Classic topic and a row of    *)
(* every export: no code has two holders, however enrolments interleave.   *)
CodesUnique ==
  \A u, v \in Users :
    user[u].participantCode = user[v].participantCode /\ u # v
      => user[u].participantCode = 0

(* ENROLMENT_RACE needs real competition: an enrolment that lost n tries   *)
(* saw n codes claimed by others while it ran, and one that is about to    *)
(* lose another saw one more. Retrying with the lowest free ordinal never  *)
(* spends two of the ENROL_ATTEMPTS on the same competitor's claim.        *)
RaceIsDeserved ==
  \A r \in Requests :
    /\ req[r].step = "ordinal" => req[r].tries <= claims - req[r].since
    /\ req[r].step = "claim" =>
         req[r].tries + (IF CodeTaken(r) THEN 1 ELSE 0) <= claims - req[r].since

holders == {u \in Users : user[u].participantCode # 0}

(* The rotation keeps the within-subject control balanced: while no        *)
(* account is deleted and nobody enrols twice at once, the codes in use    *)
(* are 1 to the number of participants and no topic is Classic for two     *)
(* participants more than another, failed and lost enrolments included.    *)
RotationBalanced ==
  overlapped = {} /\ (\A u \in Users : user[u].exists) =>
    /\ {user[u].participantCode : u \in holders} = 1..Cardinality(holders)
    /\ \A s, t \in TopicSet :
         Cardinality({u \in holders : user[u].classicTopicSlug = s})
           <= Cardinality({u \in holders : user[u].classicTopicSlug = t}) + 1

careful == {u \in Users \ overlapped : user[u].exists}

(* For a participant whose calls never overlap, what the study records     *)
(* once stays as it was recorded: the code and the Classic topic, the      *)
(* dates of consent, withdrawal and override with the topics it excused,   *)
(* the SUS submission, and an assessment attempt that is complete.         *)
RecordedOnce ==
  [][\A u \in careful \cap careful' :
      /\ user[u].participantCode # 0 =>
           user'[u].participantCode = user[u].participantCode
      /\ user[u].classicTopicSlug # None =>
           user'[u].classicTopicSlug = user[u].classicTopicSlug
      /\ \A field \in {"consentAt", "withdrawnAt", "posttestOverrideAt",
                       "susSubmittedAt"} :
           user[u][field] # Never => user'[u][field] = user[u][field]
      /\ user[u].posttestOverrideAt # Never =>
           user'[u].posttestOverrideIncompleteTopics =
             user[u].posttestOverrideIncompleteTopics
      /\ \A p \in Phases :
           attempt[u][p].completed => attempt'[u][p] = attempt[u][p]]_vars

(* A topic completed as the study defines it: a session started after      *)
(* consent ran to its end, and it was a Classic one or a conceptual        *)
(* junction was answered in it.                                            *)
Engaged(u, topic) ==
  \E i \in DOMAIN sessions :
    /\ sessions[i].owner = u /\ sessions[i].topic = topic
    /\ i > user[u].consentAt
    /\ sessions[i].reachedFinalStep
    /\ sessions[i].answered \/ sessions[i].mode = "CLASSIC"

(* The record of an override names every topic that is still incomplete:   *)
(* the write-up can trust that an excused topic is never missing from it,  *)
(* though one completed while the override was being recorded may be in it.*)
OverrideHonest ==
  \A u \in careful : user[u].posttestOverrideAt # Never =>
    {topic \in TopicSet : ~Engaged(u, topic)}
      \subseteq user[u].posttestOverrideIncompleteTopics

(* A session's mode is its condition: of a participant's sessions, those   *)
(* started between consent and withdrawal are Classic exactly on the       *)
(* Classic topic, and no other session is Classic at all.                  *)
ConditionLabel ==
  \A i \in DOMAIN sessions : sessions[i].owner \in careful =>
    LET row == user[sessions[i].owner]
        during == /\ row.consentAt # Never /\ i > row.consentAt
                  /\ row.withdrawnAt = Never \/ i <= row.withdrawnAt
    IN sessions[i].mode = "CLASSIC"
         <=> during /\ sessions[i].topic = row.classicTopicSlug

(* Nobody begins the post-test who has not engaged with every study topic  *)
(* since consenting, unless a researcher's override is on record; nor any  *)
(* assessment before consenting.                                           *)
PosttestEarned ==
  \A u \in careful :
    /\ \A p \in Phases : attempt[u][p].exists => user[u].consentAt # Never
    /\ attempt[u]["POST"].exists /\ user[u].posttestOverrideAt = Never =>
         \A topic \in TopicSet : Engaged(u, topic)

(* The stored total of a completed attempt is the total of its responses.  *)
TotalIsSum ==
  \A u \in careful, p \in Phases : attempt[u][p].completed =>
    attempt[u][p].totalScore = totalOf(attempt[u][p].responses)

\* Participant codes and what is drawn with them: no two participants share a
\* code, an enrolment gives up only when it lost as many races as it had
\* attempts, and the Classic topic rotates evenly.
CodesAreSound == TypeOK /\ CodesUnique /\ RaceIsDeserved /\ RotationBalanced

\* What the analysis will take from the rows is what happened: who overrode and
\* with which topics open, under which condition a session ran, that a post-test
\* was earned, and what it scored.
RecordsAreHonest == OverrideHonest /\ ConditionLabel /\ PosttestEarned /\ TotalIsSum

============================================================================
