------------------------------ MODULE Progress ------------------------------
(***************************************************************************)
(* What the API keeps of one student's progress: XP, the mastery of one    *)
(* topic, badges and the streak (services/interaction.service.ts,          *)
(* mastery.service.ts, badge.service.ts, updateStreak of auth.service.ts   *)
(* and updateSession of session.service.ts). All of it is derived from the *)
(* Interaction rows and the calls of the student, a few database calls     *)
(* after the row that causes it, and requests may be in progress at the    *)
(* same time.                                                              *)
(*                                                                         *)
(* Every database call is one atomic step. The time a topic was mastered   *)
(* is the number of rows written by then.                                  *)
(***************************************************************************)
EXTENDS Integers, Sequences, FiniteSets

CONSTANTS
  Answers,              \* the interactions the client may log
  Applicable,           \* the criteria that apply to the topic
  accuracyThreshold, accuracyWindow, accuracyMinAttempts,
  breadthThreshold, feynmanThreshold, challengeThreshold,
  Badges,               \* badges there are
  Requests,             \* requests that may be in progress at the same time
  None,                 \* null
  Budgets               \* bound: how often what happens in a behaviour

\* attempt: which attempt at its junction a scored row was. A row without an
\* input or a score carries None.
Answer == [type: {"PREDICTION", "COMPLEXITY_PREDICTION", "FEYNMAN",
                  "CHALLENGE_ATTEMPT", "CHALLENGE_RESULT", "VIEW_STEP"},
           correct: BOOLEAN, attempt: Nat \ {0}, input: Nat \cup {None},
           score: Nat \cup {None}]

\* Interactions logged, badges asked for, sessions begun and ended, midnights.
Budget == [rows: Nat, awards: Nat, starts: Nat, ends: Nat, nights: Nat]

CriterionId == {"ACCURACY", "BREADTH", "FEYNMAN", "CHALLENGE"}

ASSUME ProgressAssumption ==
  /\ Answers \subseteq Answer
  /\ {"ACCURACY", "BREADTH"} \subseteq Applicable
  /\ Applicable \subseteq CriterionId
  /\ \A n \in {accuracyThreshold, accuracyWindow, accuracyMinAttempts,
               breadthThreshold, feynmanThreshold, challengeThreshold} :
       n \in Nat \ {0}
  /\ Budgets \subseteq Budget

VARIABLES
  rows,      \* the Interaction rows, oldest first
  xpTotal,
  mastery,   \* the TopicMastery row
  badges,    \* the UserBadge rows
  streak,    \* streakCount and lastActiveDate
  day,       \* today
  left,      \* what is left of the budget
  req,       \* what each request in progress has read and has still to do
  history    \* what properties are about; no action reads it

vars == <<rows, xpTotal, mastery, badges, streak, day, left, req, history>>

----------------------------------------------------------------------------
(* Rows and requests                                                       *)

Never == -1

\* score stands for the five figures of the last session, or those the first
\* refresh takes from the rows.
Mastery == [exists: BOOLEAN, criteriaMet: SUBSET CriterionId,
            masteredAt: Nat \cup {Never}, score: Nat]

NoMastery == [exists |-> FALSE, criteriaMet |-> {}, masteredAt |-> Never,
              score |-> 0]

\* rows and existing are what the refresh has read, Never if not yet; badge
\* is the badge to be awarded; consecutive what the streak's read decided.
Request == [step: {"idle", "xp", "read", "award", "streak"},
            answer: Answers \cup {None}, rows: Nat \cup {Never},
            existing: Nat \cup {Never, None}, badge: Badges \cup {None},
            consecutive: BOOLEAN]

Idle == [step |-> "idle", answer |-> None, rows |-> Never, existing |-> None,
         badge |-> None, consecutive |-> FALSE]

----------------------------------------------------------------------------
(* Deliberately wrong variants of definitions below. No action uses one:   *)
(* each takes the place of the definition it is named for, to show that a  *)
(* property notices the difference.                                        *)

\* One applicable criterion is enough.
AnyCriterion(met) == met \cap Applicable # {}

\* A score is not divided by the number of answers.
PercentOfOne(correct, total) == 100 * correct

\* The date is that of the last refresh, not of the first one to see it.
DateOfLastRefresh(existing, met, now) == IF met THEN now ELSE Never

\* Every session counts its day.
CountEverySession(last, today) == FALSE

----------------------------------------------------------------------------
(* The rubric and XP, from the rows alone                                  *)

Scored == {"PREDICTION", "COMPLEXITY_PREDICTION"}
feedsMastery(answer) == answer.type \in Scored \cup {"FEYNMAN", "CHALLENGE_RESULT"}

isScored(row) == row.type \in Scored
isFirstAttempt(row) == isScored(row) /\ row.attempt = 1

\* The rows of s among those wanted, in their order.
filter(s, wanted) ==
  LET kept[n \in 0..Len(s)] ==
        IF n = 0 THEN <<>>
        ELSE IF s[n] \in wanted THEN Append(kept[n - 1], s[n]) ELSE kept[n - 1]
  IN kept[Len(s)]

lastOf(s, n) == SubSeq(s, IF Len(s) > n THEN Len(s) - n + 1 ELSE 1, Len(s))

firstAttempts(s) ==
  lastOf(filter(s, {row \in Answers : isFirstAttempt(row)}), accuracyWindow)

CountIn(s, P(_)) == Cardinality({i \in DOMAIN s : P(s[i])})

\* Math.round: halves go up.
percent(correct, total) ==
  IF total = 0 THEN 0 ELSE (200 * correct + total) \div (2 * total)

accuracyMet(s) ==
  LET first == firstAttempts(s)
  IN /\ Len(first) >= accuracyMinAttempts
     /\ percent(CountIn(first, LAMBDA row : row.correct), Len(first))
          >= accuracyThreshold

breadthMet(s) ==
  Cardinality({s[i].input : i \in {j \in DOMAIN s : isScored(s[j])}} \ {None})
    >= breadthThreshold

feynmanMet(s) ==
  \E i \in DOMAIN s : /\ s[i].type = "FEYNMAN" /\ s[i].score # None
                      /\ s[i].score >= feynmanThreshold

challengeMet(s) ==
  CountIn(s, LAMBDA row : row.type = "CHALLENGE_RESULT" /\ row.correct)
    >= challengeThreshold

computeMastery(s) ==
  {c \in CriterionId :
     \/ c = "ACCURACY" /\ accuracyMet(s)
     \/ c = "BREADTH" /\ breadthMet(s)
     \/ c = "FEYNMAN" /\ feynmanMet(s)
     \/ c = "CHALLENGE" /\ challengeMet(s)}

meetsEveryCriterion(met) == Applicable \subseteq met

\* The date is that of the first refresh that saw every criterion met.
masteredDate(existing, met, now) ==
  IF existing # Never THEN existing ELSE IF met THEN now ELSE Never

scoreOf(s) ==
  LET scored == filter(s, {row \in Answers : isScored(row)})
  IN percent(CountIn(scored, LAMBDA row : row.correct), Len(scored))

xpForInteraction(answer) ==
  CASE answer.type \in Scored         -> IF answer.correct THEN 10 ELSE 0
    [] answer.type = "FEYNMAN"        -> IF answer.correct THEN 50 ELSE 30
    [] answer.type = "CHALLENGE_ATTEMPT" -> 10
    [] OTHER                          -> 0

BADGE_XP == 50

----------------------------------------------------------------------------
(* The handlers                                                            *)

Init ==
  /\ rows = <<>>
  /\ xpTotal = 0
  /\ mastery = NoMastery
  /\ badges = {}
  /\ streak = [count |-> 0, lastActive |-> Never]
  /\ day = 1
  /\ left \in Budgets
  /\ req = [r \in Requests |-> Idle]
  /\ history = [overlapped |-> FALSE, failed |-> FALSE, crossed |-> FALSE,
                stale |-> FALSE, lostXp |-> 0, activeDays |-> {}]

InProgress == \E r \in Requests : req[r].step # "idle"

Arriving(h) == [h EXCEPT !.overlapped = @ \/ InProgress]

Spend(kind) == left[kind] > 0 /\ left' = [left EXCEPT ![kind] = @ - 1]

Local(r, record) == req' = [req EXCEPT ![r] = record]
Finish(r) == Local(r, Idle)

\* What logInteraction goes on to after the row, and after its XP.
afterXp(answer) ==
  IF feedsMastery(answer)
  THEN [Idle EXCEPT !.step = "read", !.answer = answer] ELSE Idle

afterRow(answer) ==
  IF xpForInteraction(answer) > 0
  THEN [Idle EXCEPT !.step = "xp", !.answer = answer] ELSE afterXp(answer)

LogRow(r, answer) ==
  /\ req[r].step = "idle"
  /\ Spend("rows")
  /\ rows' = Append(rows, answer)
  /\ Local(r, afterRow(answer))
  /\ history' = [Arriving(history) EXCEPT !.stale = @ \/ feedsMastery(answer)]
  /\ UNCHANGED <<xpTotal, mastery, badges, streak, day>>

LogXp(r) ==
  /\ req[r].step = "xp"
  /\ xpTotal' = xpTotal + xpForInteraction(req[r].answer)
  /\ Local(r, afterXp(req[r].answer))
  /\ UNCHANGED <<rows, mastery, badges, streak, day, history, left>>

\* refreshTopicMastery reads the rows and the stored date side by side: the
\* two reads take effect in either order.
RefreshReadRows(r) ==
  /\ req[r].step = "read" /\ req[r].rows = Never
  /\ Local(r, [req[r] EXCEPT !.rows = Len(rows)])
  /\ UNCHANGED <<rows, xpTotal, mastery, badges, streak, day, history, left>>

RefreshReadDate(r) ==
  /\ req[r].step = "read" /\ req[r].existing = None
  /\ Local(r, [req[r] EXCEPT !.existing = mastery.masteredAt])
  /\ UNCHANGED <<rows, xpTotal, mastery, badges, streak, day, history, left>>

\* Rows are never deleted: what was read is a prefix of what there is.
RefreshWrite(r) ==
  /\ req[r].step = "read" /\ req[r].rows # Never /\ req[r].existing # None
  /\ LET seen == SubSeq(rows, 1, req[r].rows)
         met == computeMastery(seen)
     IN mastery' = [exists |-> TRUE, criteriaMet |-> met,
                    masteredAt |-> masteredDate(req[r].existing,
                                     meetsEveryCriterion(met), Len(rows)),
                    score |-> IF mastery.exists THEN mastery.score
                              ELSE scoreOf(seen)]
  /\ history' = [history EXCEPT !.stale = FALSE]
  /\ Finish(r)
  /\ UNCHANGED <<rows, xpTotal, badges, streak, day, left>>

\* updateSession at a session's end writes the client's own assessment.
SessionEnd(score) ==
  /\ Spend("ends")
  /\ mastery' = [mastery EXCEPT !.exists = TRUE, !.score = score]
  /\ UNCHANGED <<rows, xpTotal, badges, streak, day, req, history>>

AwardRead(r, badge) ==
  /\ req[r].step = "idle"
  /\ badge \notin badges
  /\ Spend("awards")
  /\ Local(r, [Idle EXCEPT !.step = "award", !.badge = badge])
  /\ history' = Arriving(history)
  /\ UNCHANGED <<rows, xpTotal, mastery, badges, streak, day>>

holdsBadge(badge) == badge \in badges

\* One transaction: the unique index refuses a second row, and its XP.
AwardWrite(r) ==
  /\ req[r].step = "award"
  /\ IF holdsBadge(req[r].badge) THEN UNCHANGED <<badges, xpTotal>>
     ELSE /\ badges' = badges \cup {req[r].badge}
          /\ xpTotal' = xpTotal + BADGE_XP
  /\ Finish(r)
  /\ UNCHANGED <<rows, mastery, streak, day, history, left>>

countedToday(last, today) == last = today

\* Creating a session counts the day, before the session is created.
StreakRead(r) ==
  /\ req[r].step = "idle"
  /\ Spend("starts")
  /\ IF countedToday(streak.lastActive, day) THEN Finish(r)
     ELSE Local(r, [Idle EXCEPT !.step = "streak",
                      !.consecutive = streak.lastActive = day - 1])
  /\ history' = [Arriving(history) EXCEPT !.activeDays = @ \cup {day}]
  /\ UNCHANGED <<rows, xpTotal, mastery, badges, streak, day>>

StreakWrite(r) ==
  /\ req[r].step = "streak"
  /\ streak' = [count |-> IF req[r].consecutive THEN streak.count + 1 ELSE 1,
                lastActive |-> day]
  /\ Finish(r)
  /\ UNCHANGED <<rows, xpTotal, mastery, badges, day, history, left>>

\* A database call fails: the rest of the request is not done. A failure of
\* the refresh is logged and swallowed, any other answers 500.
Fail(r) ==
  /\ req[r].step # "idle"
  /\ history' = [history EXCEPT !.failed = TRUE,
       !.lostXp = @ + IF req[r].step = "xp"
                      THEN xpForInteraction(req[r].answer) ELSE 0]
  /\ Finish(r)
  /\ UNCHANGED <<rows, xpTotal, mastery, badges, streak, day, left>>

NextDay ==
  /\ Spend("nights")
  /\ day' = day + 1
  /\ history' = [history EXCEPT !.crossed =
                   @ \/ \E r \in Requests : req[r].step = "streak"]
  /\ UNCHANGED <<rows, xpTotal, mastery, badges, streak, req>>

Next ==
  \/ \E r \in Requests :
       \/ \E answer \in Answers : LogRow(r, answer)
       \/ LogXp(r)
       \/ RefreshReadRows(r)
       \/ RefreshReadDate(r)
       \/ RefreshWrite(r)
       \/ \E badge \in Badges : AwardRead(r, badge)
       \/ AwardWrite(r)
       \/ StreakRead(r)
       \/ StreakWrite(r)
       \/ Fail(r)
  \/ \E score \in {0, 100} : SessionEnd(score)
  \/ NextDay

Spec == Init /\ [][Next]_vars

----------------------------------------------------------------------------
(* Properties                                                              *)

(* Every variable has the shape the schema gives it; a score is a percent. *)
TypeOK ==
  /\ rows \in Seq(Answers)
  /\ xpTotal \in Nat
  /\ mastery \in Mastery /\ mastery.score <= 100
  /\ badges \subseteq Badges
  /\ streak \in [count: Nat, lastActive: (1..day) \cup {Never}]
  /\ day \in Nat \ {0}
  /\ left \in Budget
  /\ req \in [Requests -> Request]

idle == ~InProgress

\* The XP the rows of s are worth.
earned(s) ==
  LET sum[n \in 0..Len(s)] ==
        IF n = 0 THEN 0 ELSE sum[n - 1] + xpForInteraction(s[n])
  IN sum[Len(s)]

pendingXp == {r \in Requests : req[r].step = "xp"}

\* The XP the requests of P still have to add, q being what is left of each.
owed(P, q) ==
  LET sum[R \in SUBSET P] ==
        IF R = {} THEN 0
        ELSE LET r == CHOOSE x \in R : TRUE
             IN xpForInteraction(q[r].answer) + sum[R \ {r}]
  IN sum[P]

(* XP is earned once: however awards and answers interleave and whatever   *)
(* fails, the total is what the rows and the badges are worth, less what   *)
(* requests still have to add and what failed before it was added.         *)
XpAccounted ==
  xpTotal + owed(pendingXp, req) + history.lostXp
    = earned(rows) + BADGE_XP * Cardinality(badges)

\* The rubric as config/mastery.ts states it, of the rows s: the share of
\* right answers among the last accuracyWindow first attempts rounds to the
\* threshold or more, on enough attempts; enough inputs; and so on.
Recent(s) ==
  LET first == {i \in 1..Len(s) : isFirstAttempt(s[i])}
  IN {i \in first : Cardinality({j \in first : j > i}) < accuracyWindow}

Meets(s, c) ==
  CASE c = "ACCURACY" ->
         /\ Cardinality(Recent(s)) >= accuracyMinAttempts
         /\ 200 * Cardinality({i \in Recent(s) : s[i].correct})
              >= (2 * accuracyThreshold - 1) * Cardinality(Recent(s))
    [] c = "BREADTH" ->
         \E S \in SUBSET {i \in 1..Len(s) : isScored(s[i])} :
           /\ Cardinality(S) = breadthThreshold
           /\ \A i, j \in S : s[i].input # None
                            /\ (i # j => s[i].input # s[j].input)
    [] c = "FEYNMAN" ->
         \E i \in 1..Len(s) : /\ s[i].type = "FEYNMAN" /\ s[i].score # None
                              /\ s[i].score >= feynmanThreshold
    [] c = "CHALLENGE" ->
         Cardinality({i \in 1..Len(s) : s[i].type = "CHALLENGE_RESULT"
                                       /\ s[i].correct}) >= challengeThreshold

EverMet(n) == \E k \in 0..n : \A c \in Applicable : Meets(SubSeq(rows, 1, k), c)

(* A topic is mastered only if the student did meet every criterion that   *)
(* applies at one time, no later than the date that is stored: a refresh   *)
(* that was overtaken by later rows never invents it.                      *)
MasteredEarned ==
  mastery.masteredAt # Never => EverMet(mastery.masteredAt)

(* With one request at a time the stored rubric is the rubric of the rows  *)
(* as soon as a refresh has succeeded, whatever failed before it; and if   *)
(* none failed, a topic whose criteria were ever all met is mastered.      *)
RubricCurrent ==
  idle /\ ~history.overlapped /\ ~history.stale =>
    /\ mastery.criteriaMet = {c \in CriterionId : Meets(rows, c)}
    /\ ~history.failed /\ EverMet(Len(rows)) => mastery.masteredAt # Never

(* With one request at a time mastery is never taken back or re-dated,     *)
(* however the later answers turn out.                                     *)
MasteredOnce ==
  [][~history'.overlapped /\ mastery.masteredAt # Never =>
       mastery'.masteredAt = mastery.masteredAt]_vars

\* The run of consecutive days of activity that ends on day d.
RunTo(d) == Cardinality({k \in 1..d : k..d \subseteq history.activeDays})

(* With one request at a time the streak never claims more days than the   *)
(* student was active on; and if no write failed or fell after midnight,   *)
(* it is the run of consecutive active days that ends with the last one.   *)
StreakHonest ==
  ~history.overlapped =>
    /\ streak.count <= Cardinality(history.activeDays)
    /\ idle /\ ~history.failed /\ ~history.crossed
         /\ streak.lastActive # Never =>
           streak.count = RunTo(streak.lastActive)

\* XP, badges and mastery are what the stored rows earn, however requests
\* interleave and whichever of their calls fail, and the streak what the days
\* of activity earn.
RewardsAreEarned == TypeOK /\ XpAccounted /\ MasteredEarned /\ RubricCurrent /\ StreakHonest

============================================================================
