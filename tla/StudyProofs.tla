----------------------------- MODULE StudyProofs -----------------------------
(***************************************************************************)
(* Theorems about Study, for every set of accounts, topics, items and      *)
(* concurrent requests, every number of tries of an enrolment and every    *)
(* number of calls.                                                        *)
(***************************************************************************)
EXTENDS Study, FiniteSetTheorems, FunctionTheorems, WellFoundedInduction,
        SequenceTheorems, TLAPS

----------------------------------------------------------------------------
(* Arithmetic of the rotation: a number is a number of whole turns and a   *)
(* rest, a step within a turn changes the rest by as much and a whole turn *)
(* leaves it.                                                              *)

LEMMA RestOf ==
  ASSUME NEW L \in Nat \ {0}, NEW q \in Nat, NEW r \in 0..(L - 1)
  PROVE  (L * q + r) % L = r
BY Z3

LEMMA Turns ==
  ASSUME NEW L \in Nat \ {0}, NEW a \in Nat
  PROVE  /\ a % L \in 0..(L - 1)
         /\ a \div L \in Nat
         /\ a = L * (a \div L) + (a % L)
<1>1. a % L \in 0..(L - 1)
  BY Z3
<1>2. a \div L \in Nat
  BY Z3
<1>3. a = L * (a \div L) + (a % L)
  BY Z3
<1>. QED BY <1>1, <1>2, <1>3

LEMMA TurnForth ==
  ASSUME NEW L \in Nat \ {0}, NEW a \in Nat, NEW d \in Nat, (a % L) + d < L
  PROVE  (a + d) % L = (a % L) + d
<1> DEFINE q == a \div L
           r == a % L
<1>1. q \in Nat /\ r \in 0..(L - 1) /\ a = L * q + r
  BY Turns
<1> HIDE DEF q, r
<1>2. r + d \in 0..(L - 1)
  BY <1>1 DEF r
<1>3. a + d = L * q + (r + d)
  BY <1>1, Z3
<1>4. (L * q + (r + d)) % L = r + d
  BY <1>1, <1>2, RestOf
<1>. QED BY <1>3, <1>4 DEF r

LEMMA WholeTurn ==
  ASSUME NEW L \in Nat \ {0}, NEW a \in Nat, a >= L
  PROVE  a - L \in Nat /\ (a - L) % L = a % L
<1> DEFINE q == a \div L
           r == a % L
<1>1. q \in Nat /\ r \in 0..(L - 1) /\ a = L * q + r
  BY Turns
<1> HIDE DEF q, r
<1>2. q - 1 \in Nat
  BY <1>1, Z3
<1>3. a - L = L * (q - 1) + r
  BY <1>1, Z3
<1>4. (L * (q - 1) + r) % L = r
  BY <1>1, <1>2, RestOf
<1>. QED BY <1>3, <1>4 DEF r
LEMMA TurnBack ==
  ASSUME NEW L \in Nat \ {0}, NEW a \in Nat, NEW d \in Nat, d <= a % L
  PROVE  a - d \in Nat /\ (a - d) % L = (a % L) - d
<1>1. (a - d) % L = (a % L) - d
  BY Z3
<1>2. a % L <= a
  BY Z3
<1>. QED BY <1>1, <1>2, Turns

----------------------------------------------------------------------------
(* Enrolment                                                               *)

CodesInUse == {user[u].participantCode : u \in Users}

\* There is a lowest free ordinal: fewer codes are in use than there are
\* candidates, and of the free candidates one is the least.
LEMMA LowestFree ==
  ASSUME user \in [Users -> User]
  PROVE  LET n == nextParticipantOrdinal
         IN  /\ n \in 1..(Cardinality(Users) + 1)
             /\ \A u \in Users : user[u].participantCode # n
             /\ \A m \in 1..(n - 1) : \E u \in Users : user[u].participantCode = m
<1> DEFINE k == Cardinality(Users)
           code == [u \in Users |-> user[u].participantCode]
           Free == {n \in 1..(k + 1) : \A u \in Users : user[u].participantCode # n}
<1>1. IsFiniteSet(Users) /\ k \in Nat
  BY StudyAssumption, FS_CardinalityType
<1>2. Free # {}
  <2>1. IsFiniteSet(CodesInUse) /\ Cardinality(CodesInUse) <= k
    <3>1. code \in Surjection(Users, CodesInUse)
      BY Fun_IsSurj DEF CodesInUse
    <3>. QED BY <1>1, <3>1, FS_Surjection
  <2>2. IsFiniteSet(1..(k + 1)) /\ Cardinality(1..(k + 1)) = k + 1
    BY <1>1, FS_Interval
  <2>3. ~ (1..(k + 1) \subseteq CodesInUse)
    <3> SUFFICES ASSUME 1..(k + 1) \subseteq CodesInUse PROVE FALSE
      OBVIOUS
    <3>1. Cardinality(1..(k + 1)) <= Cardinality(CodesInUse)
      BY <2>1, FS_Subset
    <3>2. Cardinality(CodesInUse) \in Nat
      BY <2>1, FS_CardinalityType
    <3>. QED BY <1>1, <2>1, <2>2, <3>1, <3>2
  <2>. QED BY <2>3 DEF CodesInUse
<1>3. PICK n \in Free : \A m \in Free : ~ (<<m, n>> \in OpToRel(<, Nat))
  <2>1. Free \subseteq Nat
    BY <1>1
  <2>. QED BY <1>2, <2>1, NatLessThanWellFounded, WFMin
<1>4. \A m \in 1..(n - 1) : \E u \in Users : user[u].participantCode = m
  <2> SUFFICES ASSUME NEW m \in 1..(n - 1), \A u \in Users : user[u].participantCode # m
               PROVE  FALSE
    OBVIOUS
  <2>1. m \in Free /\ m < n /\ m \in Nat /\ n \in Nat
    BY <1>1
  <2>2. <<m, n>> \in OpToRel(<, Nat)
    BY <2>1 DEF OpToRel
  <2>. QED BY <1>3, <2>1, <2>2
<1>5. \E i \in 1..(k + 1) :
        /\ \A u \in Users : user[u].participantCode # i
        /\ \A m \in 1..(i - 1) : \E u \in Users : user[u].participantCode = m
  BY <1>4
<1>. QED BY <1>5 DEF nextParticipantOrdinal

----------------------------------------------------------------------------
(* Types                                                                   *)

(***************************************************************************)
(* A request that is well formed: besides its type, it has the fields its  *)
(* next step uses.                                                         *)
(***************************************************************************)
OfAttempt == {"status", "find", "create", "respond", "complete"}

WellFormed(q) ==
  /\ q \in Request
  /\ q.step = "idle" <=> q.user = None
  /\ q.step = "claim" => q.ordinal # 0
  /\ q.step \in OfAttempt => q.phase \in Phases
  /\ q.step = "respond" => q.item \in Items
  /\ q.step = "session" => q.topic \in TopicSet

Typed == TypeOK /\ \A r \in Requests : WellFormed(req[r])

LEMMA TopicOfOrdinal ==
  ASSUME NEW n \in Nat \ {0}
  PROVE  /\ ((n - 1) % Len(STUDY_TOPICS)) + 1 \in 1..Len(STUDY_TOPICS)
         /\ classicTopicFor(n) \in TopicSet
<1> DEFINE L == Len(STUDY_TOPICS)
<1>1. L \in Nat \ {0} /\ DOMAIN STUDY_TOPICS = 1..L
  BY StudyAssumption
<1>2. ((n - 1) % L) + 1 \in 1..L
  <2> HIDE DEF L
  <2>0. n - 1 \in Nat
    OBVIOUS
  <2>1. (n - 1) % L \in 0..(L - 1)
    BY ONLY <1>1, <2>0, Turns
  <2>. QED BY <1>1, <2>1
<1>. QED BY <1>1, <1>2 DEF classicTopicFor, TopicSet

LEMMA NullIsNoOwner == None \notin Users /\ None \notin TopicSet
BY StudyAssumption

LEMMA IdleWellFormed == Idle \in Request /\ WellFormed(Idle)
<1>1. NoUser \in User
  BY DEF NoUser, NewUser, User, Never
<1>2. Idle \in Request
  BY <1>1 DEF Idle, Request, Steps
<1>. QED BY <1>2 DEF WellFormed, Idle, OfAttempt

LEMMA HoldingWellFormed ==
  ASSUME TypeOK, NEW u \in Users,
         NEW step \in {"ordinal", "consent", "withdraw", "topics", "sus"}
  PROVE  WellFormed(Holding(u, step))
<1>1. user[u] \in User /\ claims \in Nat
  BY DEF TypeOK
<1>2. Holding(u, step) \in Request
  BY <1>1, IdleWellFormed DEF Holding, Request, Steps
<1>. QED BY <1>2, NullIsNoOwner DEF WellFormed, Holding, Idle, OfAttempt

LEMMA LocalTyped ==
  ASSUME Typed, NEW r \in Requests, NEW q, WellFormed(q), Local(r, q)
  PROVE  /\ req' \in [Requests -> Request]
         /\ \A s \in Requests : WellFormed(req[s])'
<1>1. req' = [req EXCEPT ![r] = q] /\ req \in [Requests -> Request] /\ q \in Request
  BY DEF Local, Typed, TypeOK, WellFormed
<1>2. ASSUME NEW s \in Requests PROVE WellFormed(req[s])'
  <2>1. CASE s = r
    BY <1>1, <2>1 DEF WellFormed
  <2>2. CASE s # r
    <3>1. req'[s] = req[s] /\ WellFormed(req[s])
      BY <1>1, <2>2 DEF Typed
    <3>. QED BY <3>1 DEF WellFormed
  <2>. QED BY <2>1, <2>2
<1>. QED BY <1>1, <1>2

LEMMA FinishTyped ==
  ASSUME Typed, NEW r \in Requests, Finish(r)
  PROVE  /\ req' \in [Requests -> Request]
         /\ \A s \in Requests : WellFormed(req[s])'
BY IdleWellFormed, LocalTyped DEF Finish

\* A call counts itself; what it leaves of the counters is of its type.
LEMMA ReadTyped ==
  ASSUME Typed, NEW r \in Requests, NEW u \in Users, NEW allowed, NEW q, WellFormed(q),
         ReadThen(r, u, allowed, q)
  PROVE  Typed'
<1>1. calls' \in [Users -> Nat]
  BY DEF ReadThen, Arrive, Call, Typed, TypeOK
<1>2. overlapped' \subseteq Users
  BY DEF ReadThen, Arrive, Typed, TypeOK
<1>3. /\ req' \in [Requests -> Request]
      /\ \A s \in Requests : WellFormed(req[s])'
  BY LocalTyped DEF ReadThen
<1>4. UNCHANGED <<user, sessions, attempt, claims>>
  BY DEF ReadThen, rows
<1>5. \A s \in Requests : (req[s].step = "idle" <=> req[s].user = None)' /\ (req[s].step = "claim" => req[s].ordinal # 0)'
  BY <1>3 DEF WellFormed
<1>. QED BY <1>1, <1>2, <1>3, <1>4, <1>5 DEF Typed, TypeOK

LEMMA TotalIsCount ==
  ASSUME NEW responses
  PROVE  totalOf(responses) \in Nat
<1>1. {i \in Items : responses[i] = TRUE} \in SUBSET Items
  OBVIOUS
<1>2. IsFiniteSet({i \in Items : responses[i] = TRUE})
  BY <1>1, StudyAssumption, FS_Subset
<1>. QED BY <1>2, FS_CardinalityType DEF totalOf

LEMMA BeginTyped ==
  ASSUME Typed, NEW r \in Requests, NEW u \in Users, Begin(r, u)
  PROVE  Typed'
<1> USE DEF Typed
<1>1. CASE EnrolRead(r, u) \/ ConsentRead(r, u) \/ WithdrawRead(r, u)
           \/ OverrideRead(r, u) \/ SusRead(r, u)
  <2>1. ASSUME NEW step \in {"ordinal", "consent", "withdraw", "topics", "sus"},
               NEW allowed, ReadThen(r, u, allowed, Holding(u, step))
        PROVE  Typed'
    <3>1. WellFormed(Holding(u, step))
      BY HoldingWellFormed
    <3>. QED BY ONLY Typed, r \in Requests, u \in Users, <2>1, <3>1, ReadTyped
  <2>. QED BY <1>1, <2>1 DEF EnrolRead, ConsentRead, WithdrawRead, OverrideRead, SusRead
<1>2. ASSUME NEW topic \in TopicSet, NEW requested, SessionRead(r, u, topic, requested)
      PROVE  Typed'
  <2> DEFINE q == [Idle EXCEPT !.step = "session", !.user = u, !.topic = topic,
                     !.mode = recordedSessionMode(requested, topic, user[u])]
  <2>1. recordedSessionMode(requested, topic, user[u]) \in {"PRACTICE", "CLASSIC"}
    BY DEF recordedSessionMode
  <2>2. q \in Request
    BY <2>1, IdleWellFormed DEF Request, Steps
  <2>3. WellFormed(q)
    BY <2>2, NullIsNoOwner DEF WellFormed, Idle, OfAttempt
  <2>. QED BY <1>2, <2>3, ReadTyped DEF SessionRead
<1>3. ASSUME NEW phase \in Phases, StartRead(r, u, phase)
      PROVE  Typed'
  <2> DEFINE q == [Holding(u, "status") EXCEPT !.phase = phase]
  <2>1. user[u] \in User /\ claims \in Nat
    BY DEF TypeOK
  <2>2. q \in Request
    BY <2>1, IdleWellFormed DEF Holding, Request, Steps
  <2>3. WellFormed(q)
    BY <2>2, NullIsNoOwner DEF WellFormed, Holding, Idle, OfAttempt
  <2>. QED BY <1>3, <2>3, ReadTyped DEF StartRead
<1>4. ASSUME NEW phase \in Phases, NEW item \in Items, NEW correct \in BOOLEAN,
             SubmitRead(r, u, phase, item, correct)
      PROVE  Typed'
  <2> DEFINE q == [Idle EXCEPT !.step = "respond", !.user = u, !.phase = phase,
                     !.item = item, !.correct = correct]
  <2>1. q \in Request
    BY IdleWellFormed DEF Request, Steps
  <2>2. WellFormed(q)
    BY <2>1, NullIsNoOwner DEF WellFormed, Idle, OfAttempt
  <2>. QED BY <1>4, <2>2, ReadTyped DEF SubmitRead
<1>5. ASSUME NEW phase \in Phases, CompleteRead(r, u, phase)
      PROVE  Typed'
  <2> DEFINE q == [Idle EXCEPT !.step = "complete", !.user = u, !.phase = phase,
                     !.total = totalOf(attempt[u][phase].responses)]
  <2>1. q \in Request
    BY IdleWellFormed, TotalIsCount DEF Request, Steps
  <2>2. WellFormed(q)
    BY <2>1, NullIsNoOwner DEF WellFormed, Idle, OfAttempt
  <2>. QED BY <1>5, <2>2, ReadTyped DEF CompleteRead
<1>. QED BY <1>1, <1>2, <1>3, <1>4, <1>5 DEF Begin

\* Whoever is in progress has an owner.
LEMMA OwnerInUsers ==
  ASSUME Typed, NEW r \in Requests, req[r].step # "idle"
  PROVE  req[r].user \in Users /\ req[r] \in Request /\ user[req[r].user] \in User
<1>1. WellFormed(req[r])
  BY DEF Typed
<1>2. req[r].user \in Users
  BY <1>1 DEF WellFormed, Request
<1>. QED BY <1>1, <1>2 DEF WellFormed, Typed, TypeOK

\* A step of a handler that ends it or goes on to a well-formed request, and
\* leaves every row of its type.
LEMMA StepTyped ==
  ASSUME Typed, NEW r \in Requests,
         Finish(r) \/ (\E q : WellFormed(q) /\ Local(r, q)),
         user' \in [Users -> User], sessions' \in Seq(Session),
         attempt' \in [Users -> [Phases -> Attempt]], claims' \in Nat,
         UNCHANGED <<calls, overlapped>>
  PROVE  Typed'
<1>1. /\ req' \in [Requests -> Request]
      /\ \A s \in Requests : WellFormed(req[s])'
  BY FinishTyped, LocalTyped
<1>2. \A s \in Requests : /\ (req[s].step = "idle" <=> req[s].user = None)'
                          /\ (req[s].step = "claim" => req[s].ordinal # 0)'
  BY <1>1 DEF WellFormed
<1>. QED BY <1>1, <1>2 DEF Typed, TypeOK

LEMMA WriteTyped ==
  ASSUME Typed, NEW r \in Requests, NEW row \in User, Write(r, row), claims' \in Nat,
         req[r].step # "idle", UNCHANGED <<calls, overlapped>>
  PROVE  Typed'
<1>1. req[r].user \in Users
  BY OwnerInUsers
<1>2. user' \in [Users -> User]
  BY <1>1 DEF Write, Typed, TypeOK
<1>3. sessions' \in Seq(Session) /\ attempt' \in [Users -> [Phases -> Attempt]] /\ Finish(r)
  BY DEF Write, Typed, TypeOK
<1>. QED BY <1>2, <1>3, StepTyped

LEMMA NowIsNat == Typed => Now \in Nat
BY LenProperties DEF Typed, TypeOK, Now

LEMMA EngagedTopics ==
  ASSUME Typed, NEW u \in Users, NEW consentAt
  PROVE  completedStudyTopics(u, consentAt) \subseteq TopicSet
<1>1. \A i \in DOMAIN sessions : sessions[i] \in Session
  BY ElementOfSeq, LenProperties DEF Typed, TypeOK
<1>2. \A i \in DOMAIN sessions : sessions[i].topic \in TopicSet
  BY <1>1 DEF Session
<1>. QED BY <1>2 DEF completedStudyTopics

LEMMA ContinueTyped ==
  ASSUME Typed, NEW r \in Requests, Continue(r)
  PROVE  Typed'
<1> DEFINE u == req[r].user
           p == req[r].phase
<1>0. Typed => /\ user \in [Users -> User] /\ sessions \in Seq(Session)
               /\ attempt \in [Users -> [Phases -> Attempt]] /\ claims \in Nat
               /\ Now \in Nat
  BY NowIsNat DEF Typed, TypeOK
<1>1. CASE EnrolOrdinal(r)
  <2> DEFINE n == nextParticipantOrdinal
             q == [req[r] EXCEPT !.step = "claim", !.ordinal = n]
  <2>1. n \in Nat /\ n # 0
    <3>1. Cardinality(Users) \in Nat
      BY StudyAssumption, FS_CardinalityType
    <3>. QED BY <1>0, <3>1, LowestFree
  <2>2. u \in Users /\ req[r] \in Request
    BY <1>1, OwnerInUsers DEF EnrolOrdinal, At
  <2>3. WellFormed(q)
    <3> HIDE DEF n
    <3>1. q \in Request
      BY <2>1, <2>2 DEF Request, Steps
    <3>. QED BY <2>1, <2>2, <3>1, NullIsNoOwner DEF WellFormed, OfAttempt, Request
  <2>4. Local(r, q) /\ UNCHANGED <<user, sessions, attempt, claims, calls, overlapped>>
    BY <1>1 DEF EnrolOrdinal, At, rows
  <2>. QED BY <1>0, <2>3, <2>4, StepTyped
<1>2. CASE EnrolLost(r)
  <2> DEFINE q == [req[r] EXCEPT !.step = "ordinal", !.tries = @ + 1]
  <2>2. u \in Users /\ req[r] \in Request
    BY <1>2, OwnerInUsers DEF EnrolLost, At
  <2>3. WellFormed(q)
    <3>0. req[r].tries + 1 \in Nat
      BY <2>2 DEF Request
    <3>1. q \in Request
      BY <2>2, <3>0 DEF Request, Steps
    <3>. QED BY <2>2, <3>1, NullIsNoOwner DEF WellFormed, OfAttempt, Request
  <2>4. Finish(r) \/ Local(r, q)
    BY <1>2 DEF EnrolLost
  <2>5. UNCHANGED <<user, sessions, attempt, claims, calls, overlapped>>
    BY <1>2 DEF EnrolLost, At, rows
  <2>. QED BY <1>0, <2>3, <2>4, <2>5, StepTyped
<1>3. CASE EnrolClaim(r)
  <2> DEFINE n == req[r].ordinal
  <2>1. u \in Users /\ req[r] \in Request /\ user[u] \in User /\ WellFormed(req[r])
    BY <1>3, OwnerInUsers DEF EnrolClaim, At, Typed
  <2>2. n \in Nat \ {0}
    BY <1>3, <2>1 DEF EnrolClaim, At, WellFormed, Request
  <2>3. classicTopicFor(n) \in TopicSet
    BY <2>2, TopicOfOrdinal
  <2>4. [user[u] EXCEPT !.participantCode = n, !.classicTopicSlug = classicTopicFor(n)] \in User
    BY <2>1, <2>2, <2>3 DEF User
  <2>5. claims' \in Nat /\ UNCHANGED <<calls, overlapped>> /\ req[r].step # "idle"
    BY <1>0, <1>3 DEF EnrolClaim, At
  <2>. QED BY <1>3, <2>4, <2>5, WriteTyped DEF EnrolClaim
<1>4. CASE ConsentWrite(r) \/ WithdrawWrite(r) \/ SusWrite(r)
  <2>1. u \in Users /\ user[u] \in User
    BY <1>4, OwnerInUsers DEF ConsentWrite, WithdrawWrite, SusWrite, At
  <2>2. /\ [user[u] EXCEPT !.consentAt = Now] \in User
        /\ [user[u] EXCEPT !.withdrawnAt = Now] \in User
        /\ [user[u] EXCEPT !.susSubmittedAt = Now] \in User
    BY <1>0, <2>1 DEF User
  <2>3. claims' \in Nat /\ UNCHANGED <<calls, overlapped>> /\ req[r].step # "idle"
    BY <1>0, <1>4 DEF ConsentWrite, WithdrawWrite, SusWrite, At
  <2>. QED BY <1>4, <2>2, <2>3, WriteTyped DEF ConsentWrite, WithdrawWrite, SusWrite
<1>5. CASE OverrideTopics(r)
  <2> DEFINE T == completedStudyTopics(u, req[r].seen.consentAt)
             q == [req[r] EXCEPT !.step = "override", !.topics = T]
  <2>1. u \in Users /\ req[r] \in Request
    BY <1>5, OwnerInUsers DEF OverrideTopics, At
  <2>2. T \subseteq TopicSet
    BY <2>1, EngagedTopics
  <2>3. WellFormed(q)
    <3> HIDE DEF T
    <3>1. q \in Request
      BY <2>1, <2>2 DEF Request, Steps
    <3>. QED BY <2>1, <3>1, NullIsNoOwner DEF WellFormed, OfAttempt, Request
  <2>4. Local(r, q) /\ UNCHANGED <<user, sessions, attempt, claims, calls, overlapped>>
    BY <1>5 DEF OverrideTopics, At, rows
  <2>. QED BY <1>0, <2>3, <2>4, StepTyped
<1>6. CASE OverrideWrite(r)
  <2>1. u \in Users /\ user[u] \in User
    BY <1>6, OwnerInUsers DEF OverrideWrite, At
  <2>2. incompleteTopics(req[r].topics) \subseteq TopicSet
    BY DEF incompleteTopics
  <2>3. [user[u] EXCEPT !.posttestOverrideAt = Now,
           !.posttestOverrideIncompleteTopics = incompleteTopics(req[r].topics)] \in User
    BY <1>0, <2>1, <2>2 DEF User
  <2>4. claims' \in Nat /\ UNCHANGED <<calls, overlapped>> /\ req[r].step # "idle"
    BY <1>0, <1>6 DEF OverrideWrite, At
  <2>. QED BY <1>6, <2>3, <2>4, WriteTyped DEF OverrideWrite
<1>7. CASE SessionCreate(r)
  <2> DEFINE s == [owner |-> u, topic |-> req[r].topic, mode |-> req[r].mode,
                   reachedFinalStep |-> FALSE, answered |-> FALSE]
  <2>1. u \in Users /\ req[r] \in Request /\ WellFormed(req[r])
    BY <1>7, OwnerInUsers DEF SessionCreate, At, Typed
  <2>2. s \in Session
    BY <1>7, <2>1 DEF SessionCreate, At, WellFormed, Request, Session
  <2>3. Append(sessions, s) \in Seq(Session)
    BY <1>0, <2>2, AppendProperties
  <2>4. sessions' \in Seq(Session)
    BY <1>0, <1>7, <2>3 DEF SessionCreate
  <2>. QED BY <1>0, <1>7, <2>4, StepTyped DEF SessionCreate, At
<1>8. CASE StartTopics(r) \/ StartFind(r)
  <2> DEFINE Q == {[req[r] EXCEPT !.step = "find"], [req[r] EXCEPT !.step = "create"]}
  <2>1. u \in Users /\ req[r] \in Request /\ WellFormed(req[r]) /\ p \in Phases
    BY <1>8, OwnerInUsers DEF StartTopics, StartFind, At, Typed, WellFormed, OfAttempt
  <2>2. \A q \in Q : WellFormed(q)
    <3>1. \A q \in Q : q \in Request
      BY <2>1 DEF Request, Steps
    <3>. QED BY <2>1, <3>1, NullIsNoOwner DEF WellFormed, OfAttempt, Request
  <2>3. Finish(r) \/ (\E q \in Q : Local(r, q))
    BY <1>8 DEF StartTopics, StartFind
  <2>4. UNCHANGED <<user, sessions, attempt, claims, calls, overlapped>>
    BY <1>8 DEF StartTopics, StartFind, At, rows
  <2>. QED BY <1>0, <2>2, <2>3, <2>4, StepTyped
<1>9. CASE StartCreate(r)
  <2>1. u \in Users /\ p \in Phases
    BY <1>9, OwnerInUsers DEF StartCreate, At, Typed, WellFormed, OfAttempt
  <2>2. [NoAttempt EXCEPT !.exists = TRUE] \in Attempt
    BY DEF NoAttempt, Attempt, Response
  <2>3. attempt' \in [Users -> [Phases -> Attempt]]
    BY <1>0, <1>9, <2>1, <2>2 DEF StartCreate
  <2>. QED BY <1>0, <1>9, <2>3, StepTyped DEF StartCreate, At
<1>10. CASE SubmitWrite(r)
  <2>1. u \in Users /\ p \in Phases /\ req[r].item \in Items /\ req[r].correct \in BOOLEAN
    BY <1>10, OwnerInUsers DEF SubmitWrite, At, Typed, WellFormed, OfAttempt, Request
  <2>2. attempt[u][p] \in Attempt
    BY <1>0, <2>1
  <2> DEFINE old == attempt[u][p]
             answers == [old.responses EXCEPT ![req[r].item] = req[r].correct]
  <2>a. old.responses \in [Items -> Response]
    BY <2>2 DEF Attempt
  <2>b. answers \in [Items -> Response]
    BY <2>1, <2>a DEF Response
  <2>c. [attempt[u][p] EXCEPT !.responses[req[r].item] = req[r].correct]
          = [old EXCEPT !.responses = answers]
    BY <2>2 DEF Attempt
  <2> HIDE DEF answers
  <2>3. [attempt[u][p] EXCEPT !.responses[req[r].item] = req[r].correct] \in Attempt
    BY <2>2, <2>b, <2>c DEF Attempt
  <2>4. attempt' \in [Users -> [Phases -> Attempt]]
    BY <1>0, <1>10, <2>1, <2>3 DEF SubmitWrite
  <2>. QED BY <1>0, <1>10, <2>4, StepTyped DEF SubmitWrite, At
<1>11. CASE CompleteWrite(r)
  <2>1. u \in Users /\ p \in Phases /\ req[r].total \in Nat
    BY <1>11, OwnerInUsers DEF CompleteWrite, At, Typed, WellFormed, OfAttempt, Request
  <2>2. attempt[u][p] \in Attempt
    BY <1>0, <2>1
  <2> DEFINE new == [attempt[u][p] EXCEPT !.completed = TRUE, !.totalScore = req[r].total]
  <2>3. new \in Attempt
    BY <2>1, <2>2 DEF Attempt
  <2>a. attempt' = attempt \/ attempt' = [attempt EXCEPT ![u][p] = new]
    BY <1>0, <1>11, <2>1 DEF CompleteWrite
  <2> HIDE DEF new, u, p
  <2>4. attempt' \in [Users -> [Phases -> Attempt]]
    <3>1. /\ attempt \in [Users -> [Phases -> Attempt]] /\ u \in Users /\ p \in Phases
      BY <1>0, <2>1
    <3> DEFINE own == [attempt[u] EXCEPT ![p] = new]
    <3>2. own \in [Phases -> Attempt]
      BY ONLY <2>3, <3>1
    <3>3. [attempt EXCEPT ![u][p] = new] = [attempt EXCEPT ![u] = own]
      BY ONLY <3>1
    <3> HIDE DEF own
    <3>. QED BY ONLY <2>a, <3>1, <3>2, <3>3
  <2> USE DEF u, p
  <2>. QED BY <1>0, <1>11, <2>4, StepTyped DEF CompleteWrite, At
<1>. QED BY <1>1, <1>2, <1>3, <1>4, <1>5, <1>6, <1>7, <1>8, <1>9, <1>10, <1>11 DEF Continue

LEMMA SessionAt ==
  ASSUME Typed, NEW i \in DOMAIN sessions
  PROVE  i \in Nat /\ i <= Len(sessions) /\ i >= 1 /\ sessions[i] \in Session
BY ElementOfSeq, LenProperties DEF Typed, TypeOK

LEMMA TypedStep == Typed /\ [Next]_vars => Typed'
<1> SUFFICES ASSUME Typed, [Next]_vars PROVE Typed'
  OBVIOUS
<1>1. ASSUME NEW r \in Requests, NEW u \in Users, Begin(r, u) PROVE Typed'
  BY <1>1, BeginTyped
<1>2. ASSUME NEW r \in Requests, Continue(r) PROVE Typed'
  BY <1>2, ContinueTyped
<1>3. ASSUME NEW r \in Requests, Fail(r) PROVE Typed'
  BY <1>3, StepTyped DEF Fail, Typed, TypeOK
<1>4. ASSUME NEW i \in DOMAIN sessions, NEW field \in {"reachedFinalStep", "answered"},
             Work(i, field)
      PROVE  Typed'
  <2>1. [sessions[i] EXCEPT ![field] = TRUE] \in Session
    BY SessionAt DEF Session
  <2>2. sessions' \in Seq(Session)
    BY <1>4, <2>1, SessionAt, ExceptSeq DEF Work, Typed, TypeOK
  <2>3. calls' \in [Users -> Nat]
    <3>1. sessions[i].owner \in Users
      BY <1>4, SessionAt DEF Work, Session
    <3>. QED BY <1>4, <3>1 DEF Work, Call, Typed, TypeOK
  <2>4. \A r \in Requests : WellFormed(req[r])'
    BY <1>4 DEF Work, Typed, WellFormed
  <2>. QED BY <1>4, <2>2, <2>3, <2>4 DEF Work, Typed, TypeOK
<1>5. ASSUME NEW u \in Users, DeleteAccount(u) PROVE Typed'
  <2>1. NoUser \in User /\ NoAttempt \in Attempt
    BY DEF NoUser, NewUser, User, Never, NoAttempt, Attempt, Response
  <2>2. user' \in [Users -> User] /\ attempt' \in [Users -> [Phases -> Attempt]]
    BY <1>5, <2>1 DEF DeleteAccount, Typed, TypeOK
  <2>3. \A i \in DOMAIN sessions : [sessions[i] EXCEPT !.owner = None] \in Session
    BY SessionAt DEF Session
  <2>4. sessions' \in [1..Len(sessions) -> Session]
    BY <1>5, <2>3, SessionAt, LenProperties DEF DeleteAccount, Typed, TypeOK
  <2>5. sessions' \in Seq(Session)
    BY <2>4, SeqDef, NowIsNat DEF Now
  <2>6. calls' \in [Users -> Nat]
    BY <1>5 DEF DeleteAccount, Call, Typed, TypeOK
  <2>7. \A r \in Requests : WellFormed(req[r])'
    BY <1>5 DEF DeleteAccount, Typed, WellFormed
  <2>. QED BY <1>5, <2>2, <2>5, <2>6, <2>7 DEF DeleteAccount, Typed, TypeOK
<1>6. CASE UNCHANGED vars
  BY <1>6 DEF vars, Typed, TypeOK, WellFormed
<1>. QED BY <1>1, <1>2, <1>3, <1>4, <1>5, <1>6 DEF Next

LEMMA TypedInit == Init => Typed
<1> SUFFICES ASSUME Init PROVE Typed
  OBVIOUS
<1>1. NewUser \in User /\ NoAttempt \in Attempt
  BY DEF NewUser, User, Never, NoAttempt, Attempt, Response
<1>2. calls \in [Users -> Nat]
  BY StudyAssumption DEF Init
<1>3. \A r \in Requests : WellFormed(req[r]) /\ req[r] = Idle
  BY IdleWellFormed DEF Init
<1>4. req \in [Requests -> Request]
  BY IdleWellFormed DEF Init
<1>5. /\ user \in [Users -> User]
      /\ attempt \in [Users -> [Phases -> Attempt]]
      /\ sessions \in Seq(Session)
  BY <1>1, EmptySeq DEF Init
<1>6. \A r \in Requests : /\ req[r].step = "idle" <=> req[r].user = None
                          /\ req[r].step = "claim" => req[r].ordinal # 0
  BY <1>3 DEF WellFormed
<1>. QED BY <1>2, <1>3, <1>4, <1>5, <1>6 DEF Init, Typed, TypeOK

----------------------------------------------------------------------------
(* Codes                                                                   *)

\* The Classic topic a participant was given is the one of their code.
TopicFollowsCode ==
  \A u \in Users : user[u].participantCode # 0 =>
    user[u].classicTopicSlug = classicTopicFor(user[u].participantCode)

\* A handler's step touches no request but its own.
LEMMA MoverIsLocal ==
  ASSUME NEW r \in Requests,
         (\E u \in Users : Begin(r, u)) \/ Continue(r) \/ Fail(r)
  PROVE  \E q : Local(r, q)
<1>1. ASSUME NEW u \in Users, Begin(r, u) PROVE \E q : Local(r, q)
  BY <1>1 DEF Begin, EnrolRead, ConsentRead, WithdrawRead, OverrideRead, SusRead,
              SessionRead, StartRead, SubmitRead, CompleteRead, ReadThen
<1>2. CASE Continue(r)
  BY <1>2 DEF Continue, EnrolOrdinal, EnrolLost, EnrolClaim, ConsentWrite, WithdrawWrite,
              OverrideTopics, OverrideWrite, SusWrite, SessionCreate, StartTopics,
              StartFind, StartCreate, SubmitWrite, CompleteWrite, Write, Finish
<1>3. CASE Fail(r)
  BY <1>3 DEF Fail, Finish
<1>. QED BY <1>1, <1>2, <1>3

LEMMA RequestMoves ==
  ASSUME Typed, [Next]_vars, NEW r \in Requests, req'[r] # req[r]
  PROVE  (\E u \in Users : Begin(r, u)) \/ Continue(r) \/ Fail(r)
<1>1. ASSUME NEW s \in Requests, (\E u \in Users : Begin(s, u)) \/ Continue(s) \/ Fail(s)
      PROVE  s = r
  <2>1. PICK q : Local(s, q)
    BY <1>1, MoverIsLocal
  <2>. QED BY <2>1 DEF Local, Typed, TypeOK
<1>2. ASSUME NEW i \in DOMAIN sessions, NEW field \in {"reachedFinalStep", "answered"},
             Work(i, field)
      PROVE  FALSE
  BY <1>2 DEF Work
<1>3. ASSUME NEW u \in Users, DeleteAccount(u) PROVE FALSE
  BY <1>3 DEF DeleteAccount
<1>4. ~ UNCHANGED vars
  BY DEF vars
<1>. QED BY <1>1, <1>2, <1>3, <1>4 DEF Next

\* What a step of another kind than a claim leaves of the codes.
CodesKept ==
  /\ claims' = claims
  /\ \A v \in Users :
       \/ user'[v] = NoUser
       \/ /\ user'[v].participantCode = user[v].participantCode
          /\ user'[v].classicTopicSlug = user[v].classicTopicSlug
          /\ user'[v].exists = user[v].exists

LEMMA WriteKeepsCodes ==
  ASSUME Typed, NEW r \in Requests, req[r].step # "idle", NEW row, Write(r, row),
         claims' = claims,
         /\ row.participantCode = user[req[r].user].participantCode
         /\ row.classicTopicSlug = user[req[r].user].classicTopicSlug
         /\ row.exists = user[req[r].user].exists
  PROVE  CodesKept
<1>1. req[r].user \in Users /\ user \in [Users -> User]
  BY OwnerInUsers DEF Typed, TypeOK
<1>. QED BY <1>1 DEF Write, CodesKept

LEMMA CodeStep ==
  ASSUME Typed, [Next]_vars
  PROVE  CodesKept \/ \E r \in Requests : EnrolClaim(r) /\ user[req[r].user].exists
<1>1. ASSUME UNCHANGED <<user, claims>> PROVE CodesKept
  BY <1>1 DEF CodesKept
<1>2. ASSUME NEW r \in Requests, NEW u \in Users, Begin(r, u) PROVE CodesKept
  BY <1>1, <1>2 DEF Begin, EnrolRead, ConsentRead, WithdrawRead, OverrideRead, SusRead,
              SessionRead, StartRead, SubmitRead, CompleteRead, ReadThen, rows
<1>3. ASSUME NEW r \in Requests, Continue(r)
      PROVE  CodesKept \/ (EnrolClaim(r) /\ user[req[r].user].exists)
  <2>1. CASE EnrolClaim(r) /\ ~user[req[r].user].exists
    BY <1>1, <2>1 DEF EnrolClaim, Write
  <2>2. CASE ConsentWrite(r) \/ WithdrawWrite(r) \/ OverrideWrite(r) \/ SusWrite(r)
    <3>1. user[req[r].user] \in User /\ req[r].step # "idle" /\ claims' = claims
      BY <2>2, OwnerInUsers DEF ConsentWrite, WithdrawWrite, OverrideWrite, SusWrite, At
    <3> DEFINE SameCode(row) ==
                 /\ row.participantCode = user[req[r].user].participantCode
                 /\ row.classicTopicSlug = user[req[r].user].classicTopicSlug
                 /\ row.exists = user[req[r].user].exists
    <3>2. ASSUME NEW a, NEW b
          PROVE  /\ SameCode([user[req[r].user] EXCEPT !.consentAt = a])
                 /\ SameCode([user[req[r].user] EXCEPT !.withdrawnAt = a])
                 /\ SameCode([user[req[r].user] EXCEPT !.susSubmittedAt = a])
                 /\ SameCode([user[req[r].user] EXCEPT !.posttestOverrideAt = a,
                                !.posttestOverrideIncompleteTopics = b])
      BY <3>1 DEF User
    <3>3. ASSUME NEW row, Write(r, row), SameCode(row) PROVE CodesKept
      BY <3>1, <3>3, WriteKeepsCodes
    <3> HIDE DEF SameCode
    <3>4. CASE ConsentWrite(r)
      BY <3>2, <3>3, <3>4 DEF ConsentWrite
    <3>5. CASE WithdrawWrite(r)
      BY <3>2, <3>3, <3>5 DEF WithdrawWrite
    <3>6. CASE OverrideWrite(r)
      BY <3>2, <3>3, <3>6 DEF OverrideWrite
    <3>7. CASE SusWrite(r)
      BY <3>2, <3>3, <3>7 DEF SusWrite
    <3>. QED BY <2>2, <3>4, <3>5, <3>6, <3>7
  <2>3. CASE EnrolOrdinal(r) \/ EnrolLost(r) \/ OverrideTopics(r) \/ SessionCreate(r)
             \/ StartTopics(r) \/ StartFind(r) \/ StartCreate(r) \/ SubmitWrite(r)
             \/ CompleteWrite(r)
    BY <1>1, <2>3 DEF EnrolOrdinal, EnrolLost, OverrideTopics, SessionCreate, StartTopics,
                      StartFind, StartCreate, SubmitWrite, CompleteWrite, rows
  <2>. QED BY <1>3, <2>1, <2>2, <2>3 DEF Continue
<1>4. ASSUME NEW r \in Requests, Fail(r) PROVE CodesKept
  BY <1>1, <1>4 DEF Fail
<1>5. ASSUME NEW i \in DOMAIN sessions, NEW field \in {"reachedFinalStep", "answered"},
             Work(i, field)
      PROVE  CodesKept
  BY <1>1, <1>5 DEF Work
<1>6. ASSUME NEW u \in Users, DeleteAccount(u) PROVE CodesKept
  BY <1>6 DEF DeleteAccount, CodesKept, Typed, TypeOK
<1>7. CASE UNCHANGED vars
  BY <1>1, <1>7 DEF vars
<1>. QED BY <1>2, <1>3, <1>4, <1>5, <1>6, <1>7 DEF Next

\* A claim that succeeds takes a code nobody holds, and its topic with it.
LEMMA ClaimStep ==
  ASSUME Typed, NEW r \in Requests, EnrolClaim(r), user[req[r].user].exists
  PROVE  LET u == req[r].user
             n == req[r].ordinal
         IN  /\ u \in Users /\ n \in Nat \ {0}
             /\ \A v \in Users \ {u} : user[v].participantCode # n /\ user'[v] = user[v]
             /\ user'[u] = [user[u] EXCEPT !.participantCode = n,
                                           !.classicTopicSlug = classicTopicFor(n)]
             /\ user'[u].participantCode = n
             /\ user'[u].classicTopicSlug = classicTopicFor(n)
             /\ user'[u].exists
             /\ claims' = claims + 1
             /\ Finish(r)
             /\ UNCHANGED <<sessions, attempt, overlapped>>
<1> DEFINE u == req[r].user
           n == req[r].ordinal
<1>1. /\ u \in Users /\ req[r] \in Request /\ user[u] \in User /\ WellFormed(req[r])
      /\ user \in [Users -> User]
  BY OwnerInUsers DEF EnrolClaim, At, Typed, TypeOK
<1>2. n \in Nat \ {0}
  BY <1>1 DEF EnrolClaim, At, WellFormed, Request
<1>3. user' = [user EXCEPT ![u] = [user[u] EXCEPT !.participantCode = n,
                                     !.classicTopicSlug = classicTopicFor(n)]]
  BY DEF EnrolClaim, Write
<1>4. \A v \in Users \ {u} : user[v].participantCode # n
  BY DEF EnrolClaim, CodeTaken
<1>5. claims' = claims + 1 /\ Finish(r) /\ UNCHANGED <<sessions, attempt, overlapped>>
  BY DEF EnrolClaim, Write, At
<1>6. /\ user'[u].participantCode = n
      /\ user'[u].classicTopicSlug = classicTopicFor(n)
      /\ user'[u].exists
  BY <1>1, <1>3 DEF User
<1>. QED BY <1>1, <1>2, <1>3, <1>4, <1>5, <1>6

LEMMA UniqueStep ==
  ASSUME Typed, CodesUnique, TopicFollowsCode, [Next]_vars
  PROVE  CodesUnique' /\ TopicFollowsCode'
<1>1. CASE CodesKept
  BY <1>1 DEF CodesKept, CodesUnique, TopicFollowsCode, NoUser, NewUser
<1>2. CASE \E r \in Requests : EnrolClaim(r) /\ user[req[r].user].exists
  <2>1. PICK r \in Requests : EnrolClaim(r) /\ user[req[r].user].exists
    BY <1>2
  <2> DEFINE u == req[r].user
             n == req[r].ordinal
  <2>2. /\ u \in Users /\ n \in Nat \ {0}
        /\ \A v \in Users \ {u} : user[v].participantCode # n /\ user'[v] = user[v]
        /\ user'[u].participantCode = n
        /\ user'[u].classicTopicSlug = classicTopicFor(n)
    BY <2>1, ClaimStep
  <2> HIDE DEF u, n
  <2>. QED BY <2>2 DEF CodesUnique, TopicFollowsCode
<1>. QED BY <1>1, <1>2, CodeStep

(***************************************************************************)
(* What a call's first step keeps, by the step it goes on to: the row as   *)
(* it is and the condition it found to hold.                               *)
(***************************************************************************)
BeganAs(q, u) ==
  /\ q.user = u
  /\ \/ /\ q.step = "ordinal" /\ q.seen = user[u] /\ mayEnrol(user[u], u)
        /\ q.tries = 0 /\ q.since = claims
     \/ q.step = "consent" /\ q.seen = user[u] /\ mayConsent(user[u])
     \/ q.step = "withdraw" /\ q.seen = user[u] /\ mayWithdraw(user[u])
     \/ q.step = "topics" /\ q.seen = user[u] /\ mayOverride(user[u])
     \/ q.step = "sus" /\ q.seen = user[u] /\ maySubmitSus(user[u])
     \/ q.step = "status" /\ q.seen = user[u] /\ mayStart(user[u])
     \/ /\ q.step = "session"
        /\ q.mode = recordedSessionMode("PRACTICE", q.topic, user[u])
     \/ q.step = "respond" /\ open(attempt[u][q.phase])
     \/ /\ q.step = "complete" /\ open(attempt[u][q.phase])
        /\ q.total = totalOf(attempt[u][q.phase].responses)

LEMMA Begins ==
  ASSUME Typed, NEW r \in Requests, NEW u \in Users, Begin(r, u)
  PROVE  /\ BeganAs(req'[r], u)
         /\ Arrive(r, u) /\ UNCHANGED rows
         /\ req' = [req EXCEPT ![r] = req'[r]]
<1>1. req \in [Requests -> Request] /\ claims \in Nat
  BY DEF Typed, TypeOK
<1>2. ASSUME NEW allowed, NEW q, ReadThen(r, u, allowed, q), BeganAs(q, u)
      PROVE  /\ BeganAs(req'[r], u)
             /\ Arrive(r, u) /\ UNCHANGED rows
             /\ req' = [req EXCEPT ![r] = req'[r]]
  <2>1. req' = [req EXCEPT ![r] = q] /\ req'[r] = q
    BY <1>1, <1>2 DEF ReadThen, Local
  <2>. QED BY <1>2, <2>1 DEF ReadThen
<1>3. CASE EnrolRead(r, u) \/ ConsentRead(r, u) \/ WithdrawRead(r, u)
           \/ OverrideRead(r, u) \/ SusRead(r, u)
  <2>1. ASSUME NEW step
        PROVE  /\ Holding(u, step).step = step /\ Holding(u, step).user = u
               /\ Holding(u, step).seen = user[u] /\ Holding(u, step).tries = 0
               /\ Holding(u, step).since = claims
    BY DEF Holding, Idle
  <2>2. CASE EnrolRead(r, u)
    <3>1. ReadThen(r, u, mayEnrol(user[u], u), Holding(u, "ordinal")) /\ mayEnrol(user[u], u)
      BY <2>2 DEF EnrolRead, ReadThen
    <3>. QED BY <1>2, <2>1, <3>1 DEF BeganAs
  <2>3. CASE ConsentRead(r, u)
    <3>1. ReadThen(r, u, mayConsent(user[u]), Holding(u, "consent")) /\ mayConsent(user[u])
      BY <2>3 DEF ConsentRead, ReadThen
    <3>. QED BY <1>2, <2>1, <3>1 DEF BeganAs
  <2>4. CASE WithdrawRead(r, u)
    <3>1. ReadThen(r, u, mayWithdraw(user[u]), Holding(u, "withdraw")) /\ mayWithdraw(user[u])
      BY <2>4 DEF WithdrawRead, ReadThen
    <3>. QED BY <1>2, <2>1, <3>1 DEF BeganAs
  <2>5. CASE OverrideRead(r, u)
    <3>1. ReadThen(r, u, mayOverride(user[u]), Holding(u, "topics")) /\ mayOverride(user[u])
      BY <2>5 DEF OverrideRead, ReadThen
    <3>. QED BY <1>2, <2>1, <3>1 DEF BeganAs
  <2>6. CASE SusRead(r, u)
    <3>1. ReadThen(r, u, maySubmitSus(user[u]), Holding(u, "sus")) /\ maySubmitSus(user[u])
      BY <2>6 DEF SusRead, ReadThen
    <3>. QED BY <1>2, <2>1, <3>1 DEF BeganAs
  <2>. QED BY <1>3, <2>2, <2>3, <2>4, <2>5, <2>6
<1>4. ASSUME NEW topic \in TopicSet, NEW requested, SessionRead(r, u, topic, requested)
      PROVE  /\ BeganAs(req'[r], u)
             /\ Arrive(r, u) /\ UNCHANGED rows
             /\ req' = [req EXCEPT ![r] = req'[r]]
  <2> DEFINE q == [Idle EXCEPT !.step = "session", !.user = u, !.topic = topic,
                     !.mode = recordedSessionMode(requested, topic, user[u])]
  <2>1. BeganAs(q, u)
    BY DEF BeganAs, Idle, recordedSessionMode
  <2>. QED BY <1>2, <1>4, <2>1 DEF SessionRead
<1>5. ASSUME NEW phase \in Phases, StartRead(r, u, phase)
      PROVE  /\ BeganAs(req'[r], u)
             /\ Arrive(r, u) /\ UNCHANGED rows
             /\ req' = [req EXCEPT ![r] = req'[r]]
  <2> DEFINE q == [Holding(u, "status") EXCEPT !.phase = phase]
  <2>1. mayStart(user[u]) /\ ReadThen(r, u, mayStart(user[u]), q)
    BY <1>5 DEF StartRead, ReadThen
  <2>2. q.step = "status" /\ q.user = u /\ q.seen = user[u]
    BY DEF Holding, Idle
  <2>3. BeganAs(q, u)
    BY <2>1, <2>2 DEF BeganAs
  <2>. QED BY <1>2, <2>1, <2>3
<1>6. ASSUME NEW phase \in Phases, NEW item, NEW correct,
             SubmitRead(r, u, phase, item, correct)
      PROVE  /\ BeganAs(req'[r], u)
             /\ Arrive(r, u) /\ UNCHANGED rows
             /\ req' = [req EXCEPT ![r] = req'[r]]
  <2> DEFINE q == [Idle EXCEPT !.step = "respond", !.user = u, !.phase = phase,
                     !.item = item, !.correct = correct]
  <2>1. open(attempt[u][phase]) /\ ReadThen(r, u, open(attempt[u][phase]), q)
    BY <1>6 DEF SubmitRead, ReadThen
  <2>2. q.step = "respond" /\ q.user = u /\ q.phase = phase
    BY DEF Idle
  <2>3. BeganAs(q, u)
    BY <2>1, <2>2 DEF BeganAs
  <2>. QED BY <1>2, <2>1, <2>3
<1>7. ASSUME NEW phase \in Phases, CompleteRead(r, u, phase)
      PROVE  /\ BeganAs(req'[r], u)
             /\ Arrive(r, u) /\ UNCHANGED rows
             /\ req' = [req EXCEPT ![r] = req'[r]]
  <2> DEFINE q == [Idle EXCEPT !.step = "complete", !.user = u, !.phase = phase,
                     !.total = totalOf(attempt[u][phase].responses)]
  <2>1. open(attempt[u][phase]) /\ ReadThen(r, u, open(attempt[u][phase]), q)
    BY <1>7 DEF CompleteRead, ReadThen
  <2>2. /\ q.step = "complete" /\ q.user = u /\ q.phase = phase
        /\ q.total = totalOf(attempt[u][phase].responses)
    BY DEF Idle
  <2>3. BeganAs(q, u)
    BY <2>1, <2>2 DEF BeganAs
  <2>. QED BY <1>2, <2>1, <2>3
<1>. QED BY <1>3, <1>4, <1>5, <1>6, <1>7 DEF Begin

\* What RaceIsDeserved says of one request.
RaceHolds(r) ==
  /\ req[r].step = "ordinal" => req[r].tries <= claims - req[r].since
  /\ req[r].step = "claim" =>
       req[r].tries + (IF CodeTaken(r) THEN 1 ELSE 0) <= claims - req[r].since

LEMMA RaceBegins ==
  ASSUME Typed, NEW r \in Requests, NEW u \in Users, Begin(r, u)
  PROVE  RaceHolds(r)'
<1>1. req \in [Requests -> Request] /\ claims \in Nat
  BY DEF Typed, TypeOK
<1>2. BeganAs(req'[r], u) /\ claims' = claims
  BY Begins DEF rows
<1>. QED BY <1>1, <1>2 DEF BeganAs, RaceHolds

LEMMA RaceContinues ==
  ASSUME Typed, NEW r \in Requests, RaceHolds(r), Continue(r) \/ Fail(r)
  PROVE  RaceHolds(r)'
<1>1. req \in [Requests -> Request] /\ claims \in Nat /\ user \in [Users -> User]
  BY DEF Typed, TypeOK
<1>2. req[r].tries \in Nat /\ req[r].since \in Nat /\ req[r].user \in Users \cup {None}
  BY <1>1 DEF Request
<1>3. ASSUME Finish(r) PROVE RaceHolds(r)'
  BY <1>1, <1>3 DEF Finish, Local, Idle, RaceHolds
<1>4. CASE EnrolOrdinal(r)
  <2> DEFINE n == nextParticipantOrdinal
  <2>1. \A v \in Users : user[v].participantCode # n
    BY <1>1, LowestFree
  <2> HIDE DEF n
  <2>2. /\ req'[r] = [req[r] EXCEPT !.step = "claim", !.ordinal = n]
        /\ claims' = claims /\ user' = user
    BY <1>1, <1>4 DEF EnrolOrdinal, Local, rows, n
  <2>3. /\ req'[r].step = "claim" /\ req'[r].ordinal = n
        /\ req'[r].tries = req[r].tries /\ req'[r].since = req[r].since
    BY <1>1, <2>2 DEF Request
  <2>4. ~CodeTaken(r)'
    BY <2>1, <2>2, <2>3 DEF CodeTaken
  <2>. QED BY <1>2, <1>4, <2>2, <2>3, <2>4 DEF RaceHolds, EnrolOrdinal, At
<1>5. CASE EnrolLost(r)
  <2>1. CASE Local(r, [req[r] EXCEPT !.step = "ordinal", !.tries = @ + 1])
    <3>1. /\ req'[r].step = "ordinal" /\ req'[r].tries = req[r].tries + 1
          /\ req'[r].since = req[r].since /\ claims' = claims
      BY <1>1, <1>5, <2>1 DEF Local, Request, EnrolLost, rows
    <3>. QED BY <1>2, <1>5, <3>1 DEF RaceHolds, EnrolLost, At
  <2>. QED BY <1>3, <1>5, <2>1 DEF EnrolLost
<1>6. CASE OverrideTopics(r) \/ StartTopics(r) \/ StartFind(r)
  <2>1. Finish(r) \/ \E step \in {"override", "find", "create"} :
                       \E q : Local(r, q) /\ q.step = step
    <3>1. ASSUME NEW a PROVE /\ [req[r] EXCEPT !.step = "override", !.topics = a].step = "override"
                             /\ [req[r] EXCEPT !.step = "find"].step = "find"
                             /\ [req[r] EXCEPT !.step = "create"].step = "create"
      BY <1>1 DEF Request
    <3>2. CASE OverrideTopics(r)
      BY <3>1, <3>2 DEF OverrideTopics
    <3>3. CASE StartTopics(r)
      BY <3>1, <3>3 DEF StartTopics
    <3>4. CASE StartFind(r)
      BY <3>1, <3>4 DEF StartFind
    <3>. QED BY <1>6, <3>2, <3>3, <3>4
  <2>2. ASSUME NEW q, Local(r, q), q.step \notin {"ordinal", "claim"} PROVE RaceHolds(r)'
    BY <1>1, <2>2 DEF Local, RaceHolds
  <2>. QED BY <1>3, <2>1, <2>2
<1>7. CASE EnrolClaim(r) \/ ConsentWrite(r) \/ WithdrawWrite(r) \/ OverrideWrite(r)
           \/ SusWrite(r) \/ SessionCreate(r) \/ StartCreate(r) \/ SubmitWrite(r)
           \/ CompleteWrite(r) \/ Fail(r)
  BY <1>3, <1>7 DEF EnrolClaim, ConsentWrite, WithdrawWrite, OverrideWrite, SusWrite,
                    SessionCreate, StartCreate, SubmitWrite, CompleteWrite, Write, Fail
<1>. QED BY <1>4, <1>5, <1>6, <1>7 DEF Continue

LEMMA RaceStep ==
  ASSUME Typed, RaceIsDeserved, [Next]_vars
  PROVE  RaceIsDeserved'
<1> SUFFICES ASSUME NEW r \in Requests PROVE RaceHolds(r)'
  BY DEF RaceIsDeserved, RaceHolds
<1>1. RaceHolds(r) /\ claims \in Nat /\ WellFormed(req[r])
  BY DEF RaceIsDeserved, RaceHolds, Typed, TypeOK
<1>2. req[r].tries \in Nat /\ req[r].since \in Nat
  BY <1>1 DEF WellFormed, Request
<1>3. CASE req'[r] # req[r]
  BY <1>1, <1>3, RequestMoves, RaceBegins, RaceContinues
<1>4. CASE req'[r] = req[r] /\ CodesKept
  <2>1. req[r].step = "claim" /\ CodeTaken(r)' => CodeTaken(r)
    <3> SUFFICES ASSUME req[r].step = "claim", CodeTaken(r)' PROVE CodeTaken(r)
      OBVIOUS
    <3>1. req[r].user \in Users /\ req[r].ordinal # 0
      BY <1>1, OwnerInUsers DEF WellFormed
    <3>2. user'[req[r].user].exists /\ user[req[r].user].exists
      BY <1>4, <3>1 DEF CodeTaken, CodesKept, NoUser, NewUser
    <3>3. PICK v \in Users \ {req[r].user} : user'[v].participantCode = req[r].ordinal
      BY <1>4 DEF CodeTaken
    <3>4. user[v].participantCode = req[r].ordinal
      BY <1>4, <3>1, <3>3 DEF CodesKept, NoUser, NewUser
    <3>. QED BY <3>2, <3>3, <3>4 DEF CodeTaken
  <2>2. claims' = claims
    BY <1>4 DEF CodesKept
  <2>. QED BY <1>1, <1>2, <1>4, <2>1, <2>2 DEF RaceHolds
<1>5. CASE req'[r] = req[r] /\ ~CodesKept
  <2>1. claims' = claims + 1
    BY <1>5, CodeStep, ClaimStep
  <2>. QED BY <1>1, <1>2, <1>5, <2>1 DEF RaceHolds
<1>. QED BY <1>3, <1>4, <1>5

----------------------------------------------------------------------------
(* One participant at a time                                               *)

(***************************************************************************)
(* A participant whose calls never overlap has one request at most, and    *)
(* nobody else writes their rows. So what that request read is still true  *)
(* when it writes: the condition it checked, the topics it counted, the    *)
(* total it added up. Knows says what a request may still rely on at each  *)
(* of its steps; sessions grow meanwhile (another page of the participant  *)
(* works in one), so of the topics it only relies on those it found.       *)
(***************************************************************************)
OneCall(u) ==
  \A r, s \in Requests : req[r].user = u /\ req[s].user = u => r = s

Knows(q, u) ==
  /\ q.step \in {"ordinal", "claim"} => mayEnrol(user[u], u)
  /\ q.step = "consent" => mayConsent(user[u])
  /\ q.step = "withdraw" => mayWithdraw(user[u])
  /\ q.step \in {"topics", "override"} => mayOverride(user[u])
  /\ q.step = "sus" => maySubmitSus(user[u])
  /\ q.step \in {"status", "find", "create"} => mayStart(user[u])
  /\ q.step \in {"topics", "status"} => q.seen = user[u]
  /\ q.step = "override" => \A t \in q.topics : Engaged(u, t)
  /\ q.step \in {"find", "create"} /\ q.phase = "POST" =>
       user[u].posttestOverrideAt # Never \/ \A t \in TopicSet : Engaged(u, t)
  /\ q.step = "session" => q.mode = recordedSessionMode("PRACTICE", q.topic, user[u])
  /\ q.step \in {"respond", "complete"} => open(attempt[u][q.phase])
  /\ q.step = "complete" => q.total = totalOf(attempt[u][q.phase].responses)

\* The order in which the rows of a participant fill.
Ordered(u) ==
  /\ user[u].participantCode = 0 => user[u].consentAt = Never /\ user[u].classicTopicSlug = None
  /\ user[u].posttestOverrideAt # Never => user[u].consentAt # Never
  /\ user[u].consentAt <= Now /\ user[u].withdrawnAt <= Now
  /\ \A p \in Phases : attempt[u][p].completed => attempt[u][p].exists

\* The parts of RecordsAreHonest, of one participant.
HonestOverride(u) ==
  user[u].posttestOverrideAt # Never =>
    \A t \in TopicSet : ~Engaged(u, t) => t \in user[u].posttestOverrideIncompleteTopics

During(u, i) ==
  /\ user[u].consentAt # Never /\ i > user[u].consentAt
  /\ user[u].withdrawnAt = Never \/ i <= user[u].withdrawnAt

Labelled(u) ==
  \A i \in DOMAIN sessions : sessions[i].owner = u =>
    (sessions[i].mode = "CLASSIC" <=> During(u, i) /\ sessions[i].topic = user[u].classicTopicSlug)

Earned(u) ==
  /\ \A p \in Phases : attempt[u][p].exists => user[u].consentAt # Never
  /\ attempt[u]["POST"].exists /\ user[u].posttestOverrideAt = Never =>
       \A t \in TopicSet : Engaged(u, t)

Summed(u) ==
  \A p \in Phases : attempt[u][p].completed =>
    attempt[u][p].totalScore = totalOf(attempt[u][p].responses)

Records(u) == HonestOverride(u) /\ Labelled(u) /\ Earned(u) /\ Summed(u)

Good(u) ==
  /\ OneCall(u) /\ Ordered(u) /\ Records(u)
  /\ \A r \in Requests : req[r].user = u => Knows(req[r], u)

Steady == \A u \in careful : Good(u)

\* What RecordedOnce says of one participant.
Once(u) ==
  /\ user[u].participantCode # 0 => user'[u].participantCode = user[u].participantCode
  /\ user[u].classicTopicSlug # None => user'[u].classicTopicSlug = user[u].classicTopicSlug
  /\ \A field \in {"consentAt", "withdrawnAt", "posttestOverrideAt", "susSubmittedAt"} :
       user[u][field] # Never => user'[u][field] = user[u][field]
  /\ user[u].posttestOverrideAt # Never =>
       user'[u].posttestOverrideIncompleteTopics = user[u].posttestOverrideIncompleteTopics
  /\ \A p \in Phases : attempt[u][p].completed => attempt'[u][p] = attempt[u][p]

\* The sessions of a participant stay, and others' are added at the end.
SessionsKept(u) ==
  /\ Now' \in Nat /\ Now' >= Now
  /\ \A i \in 1..Now :
       /\ sessions'[i].topic = sessions[i].topic /\ sessions'[i].mode = sessions[i].mode
       /\ sessions'[i].owner = u <=> sessions[i].owner = u
       /\ sessions[i].reachedFinalStep => sessions'[i].reachedFinalStep
       /\ sessions[i].answered => sessions'[i].answered

\* A step in which nothing happens to the rows and the request of u.
Quiet(u) ==
  /\ user'[u] = user[u] /\ attempt'[u] = attempt[u]
  /\ \A r \in Requests : req'[r].user = u => req'[r] = req[r]
  /\ SessionsKept(u)
  /\ \A i \in 1..Now' : i > Now => sessions'[i].owner # u

LEMMA EngagedGrows ==
  ASSUME Typed, Typed', NEW u \in Users, SessionsKept(u), NEW t,
         user'[u].consentAt = user[u].consentAt, Engaged(u, t)
  PROVE  Engaged(u, t)'
<1>1. DOMAIN sessions = 1..Now /\ (DOMAIN sessions)' = 1..Now' /\ Now \in Nat
  BY LenProperties DEF Typed, TypeOK, Now
<1>2. PICK i \in 1..Now :
        /\ sessions[i].owner = u /\ sessions[i].topic = t
        /\ i > user[u].consentAt
        /\ sessions[i].reachedFinalStep
        /\ sessions[i].answered \/ sessions[i].mode = "CLASSIC"
  BY <1>1 DEF Engaged
<1>3. i \in 1..Now'
  BY <1>1 DEF SessionsKept
<1>. QED BY <1>1, <1>2, <1>3 DEF Engaged, SessionsKept

LEMMA QuietKeeps ==
  ASSUME Typed, Typed', NEW u \in Users, Good(u), Quiet(u)
  PROVE  Good(u)' /\ Once(u)
<1>1. DOMAIN sessions = 1..Now /\ (DOMAIN sessions)' = 1..Now' /\ Now \in Nat
  BY LenProperties DEF Typed, TypeOK, Now
<1>2. \A t : Engaged(u, t) => Engaged(u, t)'
  BY EngagedGrows DEF Quiet
<1>3. user[u] \in User /\ Now' \in Nat /\ Now' >= Now
  BY DEF Typed, TypeOK, Quiet, SessionsKept
<1>4. OneCall(u)'
  BY DEF Good, OneCall, Quiet
<1>5. Ordered(u)'
  <2>1. user[u].consentAt \in Nat \cup {Never} /\ user[u].withdrawnAt \in Nat \cup {Never}
    BY <1>3 DEF User
  <2>. QED BY <1>1, <1>3, <2>1 DEF Good, Ordered, Quiet, Never
<1>6. HonestOverride(u)'
  BY <1>2 DEF Good, Records, HonestOverride, Quiet
<1>7. Labelled(u)'
  <2> SUFFICES ASSUME NEW i \in 1..Now', sessions'[i].owner = u
               PROVE  sessions'[i].mode = "CLASSIC"
                        <=> During(u, i)' /\ sessions'[i].topic = user'[u].classicTopicSlug
    BY <1>1 DEF Labelled
  <2>1. i \in 1..Now
    BY <1>1, <1>3 DEF Quiet
  <2>2. During(u, i)' <=> During(u, i)
    BY DEF During, Quiet
  <2>. QED BY <1>1, <2>1, <2>2 DEF Good, Records, Labelled, Quiet, SessionsKept
<1>8. Earned(u)' /\ Summed(u)'
  BY <1>2 DEF Good, Records, Earned, Summed, Quiet, totalOf
<1>9. ASSUME NEW r \in Requests, req'[r].user = u PROVE Knows(req[r], u)'
  <2>1. req'[r] = req[r] /\ Knows(req[r], u)
    BY <1>9 DEF Quiet, Good
  <2>. QED BY <1>2, <2>1 DEF Knows, Quiet, totalOf, recordedSessionMode
<1>10. Once(u)
  BY DEF Once, Quiet
<1>. QED BY <1>4, <1>5, <1>6, <1>7, <1>8, <1>9, <1>10 DEF Good, Records

\* Steps of others, of the participant's own pages, and of nobody.
LEMMA OthersAreQuiet ==
  ASSUME Typed, Typed', [Next]_vars, NEW u \in careful, u \in careful',
         \A r \in Requests : req[r].user = u => ~Continue(r) /\ ~Fail(r),
         \A r \in Requests : ~Begin(r, u)
  PROVE  Quiet(u)
<1>1. /\ DOMAIN sessions = 1..Now /\ Now \in Nat /\ sessions \in Seq(Session)
      /\ user \in [Users -> User] /\ attempt \in [Users -> [Phases -> Attempt]]
      /\ req \in [Requests -> Request] /\ u \in Users
      /\ (DOMAIN sessions)' = 1..Now' /\ Now' \in Nat
  BY LenProperties DEF Typed, TypeOK, Now, careful
<1>2. ASSUME UNCHANGED <<user, sessions, attempt>>,
             \A r \in Requests : req'[r].user = u => req'[r] = req[r]
      PROVE  Quiet(u)
  BY <1>1, <1>2 DEF Quiet, SessionsKept, Now
<1>3. ASSUME NEW r \in Requests, NEW v \in Users, Begin(r, v) PROVE Quiet(u)
  <2>1. v # u
    BY <1>3
  <2>2. /\ req'[r].user = v /\ UNCHANGED <<user, sessions, attempt>>
        /\ req' = [req EXCEPT ![r] = req'[r]]
    BY <1>3, Begins DEF BeganAs, rows
  <2>3. \A s \in Requests : req'[s].user = u => req'[s] = req[s]
    BY <1>1, <2>1, <2>2
  <2>. QED BY <1>2, <2>2, <2>3
<1>4. ASSUME NEW r \in Requests, Continue(r) \/ Fail(r) PROVE Quiet(u)
  <2> DEFINE v == req[r].user
  <2>1. v # u /\ v \in Users /\ req[r].step # "idle" /\ u # None
    <3>1. req[r].step # "idle"
      BY <1>4 DEF Continue, EnrolOrdinal, EnrolLost, EnrolClaim, ConsentWrite, WithdrawWrite,
           OverrideTopics, OverrideWrite, SusWrite, SessionCreate, StartTopics,
           StartFind, StartCreate, SubmitWrite, CompleteWrite, At, Fail
    <3>. QED BY <1>1, <1>4, <3>1, OwnerInUsers, NullIsNoOwner
  <2>2. ASSUME NEW q, Local(r, q), q.user # u
        PROVE  \A s \in Requests : req'[s].user = u => req'[s] = req[s]
    BY <1>1, <2>2 DEF Local
  <2>3. ASSUME Finish(r) PROVE \A s \in Requests : req'[s].user = u => req'[s] = req[s]
    BY <2>1, <2>2, <2>3 DEF Finish, Idle
  <2>4. ASSUME NEW row, Write(r, row) PROVE Quiet(u)
    <3>1. user'[u] = user[u] /\ UNCHANGED <<sessions, attempt>>
      BY <1>1, <2>1, <2>4 DEF Write
    <3>2. \A s \in Requests : req'[s].user = u => req'[s] = req[s]
      BY <2>3, <2>4 DEF Write
    <3>. QED BY <1>1, <3>1, <3>2 DEF Quiet, SessionsKept, Now
  <2>5. CASE EnrolClaim(r) \/ ConsentWrite(r) \/ WithdrawWrite(r) \/ OverrideWrite(r) \/ SusWrite(r)
    BY <2>4, <2>5 DEF EnrolClaim, ConsentWrite, WithdrawWrite, OverrideWrite, SusWrite
  <2>6. CASE EnrolOrdinal(r) \/ EnrolLost(r) \/ OverrideTopics(r) \/ StartTopics(r) \/ StartFind(r)
    <3>1. UNCHANGED <<user, sessions, attempt>>
      BY <2>6 DEF EnrolOrdinal, EnrolLost, OverrideTopics, StartTopics, StartFind, rows
    <3>2. ASSUME NEW q, Local(r, q), q.user = v PROVE Quiet(u)
      BY <1>2, <2>1, <2>2, <3>1, <3>2
    <3>3. ASSUME Finish(r) PROVE Quiet(u)
      BY <1>2, <2>3, <3>1, <3>3
    <3>4. CASE EnrolOrdinal(r)
      <4> DEFINE q == [req[r] EXCEPT !.step = "claim", !.ordinal = nextParticipantOrdinal]
      <4>1. q.user = v
        BY <1>1 DEF Request
      <4>. QED BY <3>2, <3>4, <4>1 DEF EnrolOrdinal
    <3>5. CASE EnrolLost(r)
      <4> DEFINE q == [req[r] EXCEPT !.step = "ordinal", !.tries = @ + 1]
      <4>1. q.user = v
        BY <1>1 DEF Request
      <4>. QED BY <3>2, <3>3, <3>5, <4>1 DEF EnrolLost
    <3>6. CASE OverrideTopics(r)
      <4> DEFINE T == completedStudyTopics(req[r].user, req[r].seen.consentAt)
                 q == [req[r] EXCEPT !.step = "override", !.topics = T]
      <4>1. Local(r, q)
        BY <3>6 DEF OverrideTopics
      <4> HIDE DEF T
      <4>2. q.user = v
        BY <1>1 DEF Request
      <4>. QED BY <3>2, <4>1, <4>2
    <3>7. CASE StartTopics(r) \/ StartFind(r)
      <4>1. /\ [req[r] EXCEPT !.step = "find"].user = v
            /\ [req[r] EXCEPT !.step = "create"].user = v
        BY <1>1 DEF Request
      <4>. QED BY <3>2, <3>3, <3>7, <4>1 DEF StartTopics, StartFind
    <3>. QED BY <2>6, <3>4, <3>5, <3>6, <3>7
  <2>7. CASE SessionCreate(r)
    <3>1. UNCHANGED <<user, attempt>> /\ Finish(r)
      BY <2>7 DEF SessionCreate
    <3>2. CASE UNCHANGED sessions
      BY <1>2, <2>3, <3>1, <3>2
    <3>3. CASE sessions' # sessions
      <4> DEFINE s == [owner |-> v, topic |-> req[r].topic, mode |-> req[r].mode,
                       reachedFinalStep |-> FALSE, answered |-> FALSE]
      <4>1. sessions' = Append(sessions, s) /\ s \in Session
        <5>1. sessions' = Append(sessions, s)
          BY <2>7, <3>3 DEF SessionCreate
        <5>2. WellFormed(req[r])
          BY DEF Typed
        <5>3. req[r].topic \in TopicSet /\ req[r].mode \in {"PRACTICE", "CLASSIC"}
          BY <2>7, <5>2 DEF WellFormed, SessionCreate, At, Request
        <5>. QED BY <2>1, <5>1, <5>3 DEF Session
      <4>2. /\ Now' = Now + 1
            /\ \A i \in 1..Now : sessions'[i] = sessions[i]
            /\ sessions'[Now + 1].owner = v
        BY <1>1, <4>1, AppendProperties DEF Now
      <4>. QED BY <1>1, <2>1, <2>3, <3>1, <4>2 DEF Quiet, SessionsKept
    <3>. QED BY <3>2, <3>3
  <2>8. CASE StartCreate(r) \/ SubmitWrite(r) \/ CompleteWrite(r)
    <3>1. attempt'[u] = attempt[u]
      BY <1>1, <2>1, <2>8 DEF StartCreate, SubmitWrite, CompleteWrite
    <3>2. UNCHANGED <<user, sessions>> /\ Finish(r)
      BY <2>8 DEF StartCreate, SubmitWrite, CompleteWrite
    <3>. QED BY <1>1, <2>3, <3>1, <3>2 DEF Quiet, SessionsKept, Now
  <2>9. CASE Fail(r)
    BY <1>2, <2>3, <2>9 DEF Fail
  <2>. QED BY <1>4, <2>5, <2>6, <2>7, <2>8, <2>9 DEF Continue
<1>5. ASSUME NEW i \in DOMAIN sessions, NEW field \in {"reachedFinalStep", "answered"},
             Work(i, field)
      PROVE  Quiet(u)
  <2>1. UNCHANGED <<user, attempt, req>> /\ sessions' = [sessions EXCEPT ![i][field] = TRUE]
    BY <1>5 DEF Work
  <2>2. Now' = Now
    BY <1>1, <2>1 DEF Now
  <2>3. \A j \in 1..Now : sessions[j] \in Session
    BY <1>1, SessionAt
  <2>4. \A j \in 1..Now :
          /\ sessions'[j].topic = sessions[j].topic /\ sessions'[j].mode = sessions[j].mode
          /\ sessions'[j].owner = sessions[j].owner
          /\ sessions[j].reachedFinalStep => sessions'[j].reachedFinalStep
          /\ sessions[j].answered => sessions'[j].answered
    BY <1>1, <2>1, <2>3 DEF Session
  <2>5. SessionsKept(u)
    BY <1>1, <2>2, <2>4 DEF SessionsKept
  <2>6. \A j \in 1..Now' : ~ j > Now
    BY <1>1, <2>2
  <2>. QED BY <2>1, <2>5, <2>6 DEF Quiet
<1>6. ASSUME NEW v \in Users, DeleteAccount(v) PROVE Quiet(u)
  <2>1. v # u
    BY <1>1, <1>6 DEF DeleteAccount, careful, NoUser, NewUser
  <2>2. user'[u] = user[u] /\ attempt'[u] = attempt[u] /\ req' = req
    BY <1>1, <1>6, <2>1 DEF DeleteAccount
  <2>3. /\ Now' = Now
        /\ \A j \in 1..Now : sessions'[j] = IF sessions[j].owner = v
                               THEN [sessions[j] EXCEPT !.owner = None] ELSE sessions[j]
    BY <1>1, <1>6 DEF DeleteAccount, Now
  <2>4. \A j \in 1..Now : sessions[j] \in Session
    BY <1>1, SessionAt
  <2>5. \A j \in 1..Now :
          /\ sessions'[j].topic = sessions[j].topic /\ sessions'[j].mode = sessions[j].mode
          /\ sessions'[j].owner = u <=> sessions[j].owner = u
          /\ sessions[j].reachedFinalStep => sessions'[j].reachedFinalStep
          /\ sessions[j].answered => sessions'[j].answered
    <3>1. \A s \in Session :
            /\ [s EXCEPT !.owner = None].topic = s.topic
            /\ [s EXCEPT !.owner = None].mode = s.mode
            /\ [s EXCEPT !.owner = None].owner = None
            /\ [s EXCEPT !.owner = None].reachedFinalStep = s.reachedFinalStep
            /\ [s EXCEPT !.owner = None].answered = s.answered
      BY DEF Session
    <3>2. u # None
      BY ONLY <1>1, NullIsNoOwner
    <3>3. SUFFICES ASSUME NEW j \in 1..Now, sessions[j].owner = v
                   PROVE  /\ sessions'[j].topic = sessions[j].topic
                          /\ sessions'[j].mode = sessions[j].mode
                          /\ sessions'[j].owner = u <=> sessions[j].owner = u
                          /\ sessions[j].reachedFinalStep => sessions'[j].reachedFinalStep
                          /\ sessions[j].answered => sessions'[j].answered
      BY <2>3
    <3>4. sessions'[j] = [sessions[j] EXCEPT !.owner = None]
      BY <2>3, <3>3
    <3>. QED BY <2>1, <2>4, <3>1, <3>2, <3>3, <3>4
  <2>. QED BY <1>1, <2>2, <2>3, <2>5 DEF Quiet, SessionsKept
<1>7. CASE UNCHANGED vars
  BY <1>2, <1>7 DEF vars
<1>. QED BY <1>3, <1>4, <1>5, <1>6, <1>7 DEF Next

\* A new call of a participant in no request knows what it has just read.
LEMMA BeginKeeps ==
  ASSUME Typed, Typed', NEW u \in careful, u \in careful', Good(u),
         NEW r \in Requests, Begin(r, u)
  PROVE  Good(u)' /\ Once(u)
<1>1. /\ BeganAs(req'[r], u) /\ UNCHANGED <<user, sessions, attempt>> /\ Arrive(r, u)
      /\ req' = [req EXCEPT ![r] = req'[r]] /\ u \in Users
      /\ req \in [Requests -> Request]
  BY Begins DEF rows, careful, Typed, TypeOK
<1>2. ~InProgress(u)
  BY <1>1 DEF Arrive, careful
<1>3. \A s \in Requests : req'[s].user = u => s = r
  BY <1>1, <1>2 DEF InProgress
<1>4. OneCall(u)'
  BY <1>3 DEF OneCall
<1>5. Knows(req[r], u)'
  BY <1>1 DEF Knows, BeganAs, totalOf, recordedSessionMode
<1>6. Ordered(u)' /\ Records(u)'
  BY <1>1 DEF Good, Ordered, Records, Now, HonestOverride, Labelled, During, Earned, Summed,
              Engaged, totalOf
<1>. QED BY <1>1, <1>3, <1>4, <1>5, <1>6 DEF Good, Once

\* A step of the only request of a participant.
LEMMA OnlyRequest ==
  ASSUME Typed, NEW u \in careful, Good(u), NEW r \in Requests, req[r].user = u
  PROVE  /\ Finish(r) => OneCall(u)' /\ \A s \in Requests : req'[s].user # u
         /\ \A q : Local(r, q) /\ q.user = u =>
              OneCall(u)' /\ req'[r] = q /\ \A s \in Requests : req'[s].user = u => s = r
<1>1. req \in [Requests -> Request] /\ u \in Users /\ u # None
  BY NullIsNoOwner DEF Typed, TypeOK, careful
<1>2. \A s \in Requests : req[s].user = u => s = r
  BY DEF Good, OneCall
<1>3. ASSUME Finish(r) PROVE \A s \in Requests : req'[s].user # u
  BY <1>1, <1>2, <1>3 DEF Finish, Local, Idle
<1>4. ASSUME NEW q, Local(r, q)
      PROVE  req'[r] = q /\ \A s \in Requests : req'[s].user = u => s = r
  BY <1>1, <1>2, <1>4 DEF Local
<1>. QED BY <1>3, <1>4 DEF OneCall

\* A step that ends the request, or leads it on, and changes no row.
LEMMA LocalKeeps ==
  ASSUME Typed, Typed', NEW u \in careful, Good(u), NEW r \in Requests, req[r].user = u,
         UNCHANGED <<user, sessions, attempt>>,
         Finish(r) \/ \E q : Local(r, q) /\ q.user = u /\ Knows(q, u)
  PROVE  Good(u)' /\ Once(u)
<1>1. Ordered(u)' /\ Records(u)' /\ Once(u)
  BY DEF Good, Ordered, Records, Now, HonestOverride, Labelled, During, Earned, Summed,
         Engaged, totalOf, Once
<1>2. CASE Finish(r)
  BY <1>1, <1>2, OnlyRequest DEF Good
<1>3. CASE \E q : Local(r, q) /\ q.user = u /\ Knows(q, u)
  <2>1. PICK q : Local(r, q) /\ q.user = u /\ Knows(q, u)
    BY <1>3
  <2>2. OneCall(u)' /\ req'[r] = q /\ \A s \in Requests : req'[s].user = u => s = r
    BY <2>1, OnlyRequest
  <2>3. Knows(req[r], u)'
    BY <2>1, <2>2 DEF Knows, Engaged, totalOf, recordedSessionMode
  <2>. QED BY <1>1, <2>2, <2>3 DEF Good
<1>. QED BY <1>2, <1>3

\* A step that ends the request and writes rows: what is left to show is
\* that the rows are right.
LEMMA FinishKeeps ==
  ASSUME Typed, NEW u \in careful, Good(u), NEW r \in Requests, req[r].user = u,
         Finish(r), Ordered(u)', Records(u)'
  PROVE  Good(u)'
BY OnlyRequest DEF Good

LEMMA WriteOwn ==
  ASSUME Typed, NEW u \in careful, NEW r \in Requests, req[r].user = u,
         NEW row, Write(r, row)
  PROVE  /\ user'[u] = row /\ UNCHANGED <<sessions, attempt>> /\ Finish(r) /\ Now' = Now
         /\ Now \in Nat /\ user[u] \in User /\ DOMAIN sessions = 1..Now
BY NowIsNat, LenProperties DEF Write, careful, Typed, TypeOK, Now

LEMMA EnrolKeeps ==
  ASSUME Typed, Typed', NEW u \in careful, Good(u), NEW r \in Requests, req[r].user = u,
         EnrolClaim(r)
  PROVE  Good(u)' /\ Once(u)
<1> DEFINE row == [user[u] EXCEPT !.participantCode = req[r].ordinal,
                                  !.classicTopicSlug = classicTopicFor(req[r].ordinal)]
<1>1. Knows(req[r], u) /\ WellFormed(req[r]) /\ Write(r, row) /\ req[r].step = "claim"
  BY DEF Good, Typed, EnrolClaim, At
<1>2. /\ user'[u] = row /\ UNCHANGED <<sessions, attempt>> /\ Finish(r) /\ Now' = Now
      /\ user[u] \in User
  BY <1>1, WriteOwn
<1>3. /\ user'[u].participantCode = req[r].ordinal /\ req[r].ordinal # 0
      /\ user'[u].consentAt = user[u].consentAt
      /\ user'[u].withdrawnAt = user[u].withdrawnAt
      /\ user'[u].posttestOverrideAt = user[u].posttestOverrideAt
      /\ user'[u].posttestOverrideIncompleteTopics = user[u].posttestOverrideIncompleteTopics
      /\ user'[u].susSubmittedAt = user[u].susSubmittedAt
  BY <1>1, <1>2 DEF User, WellFormed
<1>4. user[u].participantCode = 0
  BY <1>1 DEF Knows, mayEnrol
<1>5. user[u].consentAt = Never /\ user[u].classicTopicSlug = None
  BY <1>4 DEF Good, Ordered
<1>6. Ordered(u)'
  BY <1>2, <1>3, <1>5 DEF Good, Ordered
<1>7. Records(u)'
  <2>1. \A t : Engaged(u, t)' <=> Engaged(u, t)
    BY <1>2, <1>3 DEF Engaged
  <2>2. Labelled(u)'
    BY <1>2, <1>3, <1>5 DEF Good, Records, Labelled, During
  <2>3. Summed(u)'
    BY <1>2 DEF Good, Records, Summed, totalOf
  <2>. QED BY <1>2, <1>3, <2>1, <2>2, <2>3 DEF Good, Records, HonestOverride, Earned
<1>8. Once(u)
  BY <1>2, <1>3, <1>4, <1>5 DEF Once
<1>. QED BY <1>2, <1>6, <1>7, <1>8, FinishKeeps

LEMMA ConsentKeeps ==
  ASSUME Typed, Typed', NEW u \in careful, Good(u), NEW r \in Requests, req[r].user = u,
         ConsentWrite(r)
  PROVE  Good(u)' /\ Once(u)
<1> DEFINE row == [user[u] EXCEPT !.consentAt = Now]
<1>1. Knows(req[r], u) /\ Write(r, row) /\ req[r].step = "consent"
  BY DEF Good, ConsentWrite, At
<1>2. /\ user'[u] = row /\ UNCHANGED <<sessions, attempt>> /\ Finish(r) /\ Now' = Now
      /\ user[u] \in User /\ Now \in Nat /\ DOMAIN sessions = 1..Now
  BY <1>1, WriteOwn
<1>3. /\ user'[u].participantCode = user[u].participantCode
      /\ user'[u].classicTopicSlug = user[u].classicTopicSlug
      /\ user'[u].consentAt = Now /\ Now # Never
      /\ user'[u].withdrawnAt = user[u].withdrawnAt
      /\ user'[u].posttestOverrideAt = user[u].posttestOverrideAt
      /\ user'[u].posttestOverrideIncompleteTopics = user[u].posttestOverrideIncompleteTopics
      /\ user'[u].susSubmittedAt = user[u].susSubmittedAt
  BY <1>1, <1>2 DEF User, Never
<1>4. user[u].participantCode # 0 /\ user[u].consentAt = Never
  BY <1>1 DEF Knows, mayConsent
<1>5. user[u].posttestOverrideAt = Never
  BY <1>4 DEF Good, Ordered
<1>6. \A p \in Phases : ~attempt[u][p].exists
  BY <1>4 DEF Good, Records, Earned
<1>7. Ordered(u)'
  BY <1>2, <1>3, <1>4 DEF Good, Ordered
<1>8. Labelled(u)'
  <2>1. \A i \in 1..Now : ~During(u, i) /\ ~During(u, i)'
    BY <1>2, <1>3, <1>4 DEF During
  <2>. QED BY <1>2, <2>1 DEF Good, Records, Labelled
<1>9. Records(u)'
  BY <1>2, <1>3, <1>5, <1>6, <1>8 DEF Good, Records, HonestOverride, Earned, Summed, totalOf, Phases
<1>10. Once(u)
  BY <1>2, <1>3, <1>4 DEF Once
<1>. QED BY <1>2, <1>7, <1>9, <1>10, FinishKeeps

LEMMA WithdrawKeeps ==
  ASSUME Typed, Typed', NEW u \in careful, Good(u), NEW r \in Requests, req[r].user = u,
         WithdrawWrite(r)
  PROVE  Good(u)' /\ Once(u)
<1> DEFINE row == [user[u] EXCEPT !.withdrawnAt = Now]
<1>1. Knows(req[r], u) /\ Write(r, row) /\ req[r].step = "withdraw"
  BY DEF Good, WithdrawWrite, At
<1>2. /\ user'[u] = row /\ UNCHANGED <<sessions, attempt>> /\ Finish(r) /\ Now' = Now
      /\ user[u] \in User /\ Now \in Nat /\ DOMAIN sessions = 1..Now
  BY <1>1, WriteOwn
<1>3. /\ user'[u].participantCode = user[u].participantCode
      /\ user'[u].classicTopicSlug = user[u].classicTopicSlug
      /\ user'[u].consentAt = user[u].consentAt
      /\ user'[u].withdrawnAt = Now /\ Now # Never
      /\ user'[u].posttestOverrideAt = user[u].posttestOverrideAt
      /\ user'[u].posttestOverrideIncompleteTopics = user[u].posttestOverrideIncompleteTopics
      /\ user'[u].susSubmittedAt = user[u].susSubmittedAt
  BY <1>1, <1>2 DEF User, Never
<1>4. user[u].participantCode # 0 /\ user[u].withdrawnAt = Never
  BY <1>1 DEF Knows, mayWithdraw
<1>5. \A t : Engaged(u, t)' <=> Engaged(u, t)
  BY <1>2, <1>3 DEF Engaged
<1>6. Ordered(u)'
  BY <1>2, <1>3, <1>4 DEF Good, Ordered
<1>7. Labelled(u)'
  <2>1. \A i \in 1..Now : During(u, i)' <=> During(u, i)
    BY <1>2, <1>3, <1>4 DEF During
  <2>. QED BY <1>2, <1>3, <2>1 DEF Good, Records, Labelled
<1>8. Records(u)'
  BY <1>2, <1>3, <1>5, <1>7 DEF Good, Records, HonestOverride, Earned, Summed, totalOf
<1>9. Once(u)
  BY <1>2, <1>3, <1>4 DEF Once
<1>. QED BY <1>2, <1>6, <1>8, <1>9, FinishKeeps

LEMMA OverrideKeeps ==
  ASSUME Typed, Typed', NEW u \in careful, Good(u), NEW r \in Requests, req[r].user = u,
         OverrideWrite(r)
  PROVE  Good(u)' /\ Once(u)
<1> DEFINE left == incompleteTopics(req[r].topics)
           row == [user[u] EXCEPT !.posttestOverrideAt = Now,
                     !.posttestOverrideIncompleteTopics = left]
<1>1. Knows(req[r], u) /\ Write(r, row) /\ req[r].step = "override"
  BY DEF Good, OverrideWrite, At
<1>2. /\ user'[u] = row /\ UNCHANGED <<sessions, attempt>> /\ Finish(r) /\ Now' = Now
      /\ user[u] \in User /\ Now \in Nat /\ DOMAIN sessions = 1..Now
  BY <1>1, WriteOwn
<1>3. /\ user'[u].participantCode = user[u].participantCode
      /\ user'[u].classicTopicSlug = user[u].classicTopicSlug
      /\ user'[u].consentAt = user[u].consentAt
      /\ user'[u].withdrawnAt = user[u].withdrawnAt
      /\ user'[u].posttestOverrideAt = Now /\ Now # Never
      /\ user'[u].posttestOverrideIncompleteTopics = left
      /\ user'[u].susSubmittedAt = user[u].susSubmittedAt
  <2> HIDE DEF left
  <2>. QED BY <1>1, <1>2 DEF User, Never
<1>4. /\ user[u].consentAt # Never /\ user[u].posttestOverrideAt = Never
      /\ \A t \in req[r].topics : Engaged(u, t)
      /\ user[u].participantCode # 0
  BY <1>1 DEF Knows, mayOverride, isActiveParticipant
<1>5. \A t : Engaged(u, t)' <=> Engaged(u, t)
  BY <1>2, <1>3 DEF Engaged
<1>6. Ordered(u)'
  BY <1>2, <1>3, <1>4 DEF Good, Ordered
<1>7. HonestOverride(u)'
  BY <1>3, <1>4, <1>5 DEF HonestOverride, incompleteTopics
<1>8. Labelled(u)' /\ Earned(u)' /\ Summed(u)'
  BY <1>2, <1>3 DEF Good, Records, Labelled, During, Earned, Summed, totalOf
<1>9. Once(u)
  BY <1>2, <1>3, <1>4 DEF Once
<1>. QED BY <1>2, <1>6, <1>7, <1>8, <1>9, FinishKeeps DEF Records

LEMMA SusKeeps ==
  ASSUME Typed, Typed', NEW u \in careful, Good(u), NEW r \in Requests, req[r].user = u,
         SusWrite(r)
  PROVE  Good(u)' /\ Once(u)
<1> DEFINE row == [user[u] EXCEPT !.susSubmittedAt = Now]
<1>1. Knows(req[r], u) /\ Write(r, row) /\ req[r].step = "sus"
  BY DEF Good, SusWrite, At
<1>2. /\ user'[u] = row /\ UNCHANGED <<sessions, attempt>> /\ Finish(r) /\ Now' = Now
      /\ user[u] \in User
  BY <1>1, WriteOwn
<1>3. /\ user'[u].participantCode = user[u].participantCode
      /\ user'[u].classicTopicSlug = user[u].classicTopicSlug
      /\ user'[u].consentAt = user[u].consentAt
      /\ user'[u].withdrawnAt = user[u].withdrawnAt
      /\ user'[u].posttestOverrideAt = user[u].posttestOverrideAt
      /\ user'[u].posttestOverrideIncompleteTopics = user[u].posttestOverrideIncompleteTopics
  BY <1>1, <1>2 DEF User
<1>4. user[u].susSubmittedAt = Never
  BY <1>1 DEF Knows, maySubmitSus
<1>5. \A t : Engaged(u, t)' <=> Engaged(u, t)
  BY <1>2, <1>3 DEF Engaged
<1>6. Ordered(u)' /\ Records(u)'
  BY <1>2, <1>3, <1>5 DEF Good, Ordered, Records, HonestOverride, Labelled, During, Earned,
                          Summed, totalOf
<1>7. Once(u)
  BY <1>2, <1>3, <1>4 DEF Once
<1>. QED BY <1>2, <1>6, <1>7, FinishKeeps

LEMMA SessionKeeps ==
  ASSUME Typed, Typed', NEW u \in careful, Good(u), NEW r \in Requests, req[r].user = u,
         SessionCreate(r)
  PROVE  Good(u)' /\ Once(u)
<1> DEFINE s == [owner |-> u, topic |-> req[r].topic, mode |-> req[r].mode,
                 reachedFinalStep |-> FALSE, answered |-> FALSE]
<1>1. /\ Knows(req[r], u) /\ WellFormed(req[r]) /\ req[r].step = "session"
      /\ u \in Users /\ user[u] \in User /\ user[u].exists
  BY DEF Good, SessionCreate, At, Typed, TypeOK, careful
<1>2. sessions' = Append(sessions, s) /\ UNCHANGED <<user, attempt>> /\ Finish(r)
  BY <1>1 DEF SessionCreate
<1>3. req[r].topic \in TopicSet /\ s \in Session
  <2>1. req[r].topic \in TopicSet /\ req[r].mode \in {"PRACTICE", "CLASSIC"}
    BY <1>1 DEF WellFormed, Request
  <2>. QED BY <1>1, <2>1 DEF Session
<1>4. /\ Now \in Nat /\ Now' = Now + 1
      /\ DOMAIN sessions = 1..Now /\ (DOMAIN sessions)' = 1..(Now + 1)
      /\ \A i \in 1..Now : sessions'[i] = sessions[i]
      /\ sessions'[Now + 1] = s
  BY <1>2, <1>3, AppendProperties, LenProperties DEF Typed, TypeOK, Now
<1>5. SessionsKept(u)
  BY <1>4 DEF SessionsKept
<1>6. \A t : Engaged(u, t) => Engaged(u, t)'
  BY <1>1, <1>2, <1>5, EngagedGrows
<1>7. Ordered(u)'
  <2>1. user[u].consentAt \in Nat \cup {Never} /\ user[u].withdrawnAt \in Nat \cup {Never}
    BY <1>1 DEF User
  <2>. QED BY <1>2, <1>4, <2>1 DEF Good, Ordered, Never
<1>8. Labelled(u)'
  <2> SUFFICES ASSUME NEW i \in 1..(Now + 1), sessions'[i].owner = u
               PROVE  sessions'[i].mode = "CLASSIC"
                        <=> During(u, i)' /\ sessions'[i].topic = user'[u].classicTopicSlug
    BY <1>4 DEF Labelled
  <2>1. During(u, i)' <=> During(u, i)
    BY <1>2 DEF During
  <2>2. CASE i \in 1..Now
    BY <1>2, <1>4, <2>1, <2>2 DEF Good, Records, Labelled
  <2>3. CASE i = Now + 1
    <3>1. /\ user[u].consentAt \in Nat \cup {Never} /\ user[u].withdrawnAt \in Nat \cup {Never}
          /\ user[u].consentAt <= Now /\ user[u].withdrawnAt <= Now
      BY <1>1 DEF User, Good, Ordered
    <3>2. During(u, i) <=> user[u].consentAt # Never /\ user[u].withdrawnAt = Never
      BY <1>4, <2>3, <3>1 DEF During, Never
    <3>3. During(u, i) <=> isActiveParticipant(user[u])
      BY <3>2 DEF isActiveParticipant, Good, Ordered
    <3>4. sessions'[i].mode = recordedSessionMode("PRACTICE", req[r].topic, user[u])
      BY <1>1, <1>4, <2>3 DEF Knows
    <3>5. sessions'[i].topic = req[r].topic /\ req[r].topic # None
      BY <1>3, <1>4, <2>3, NullIsNoOwner
    <3>. QED BY <1>2, <2>1, <3>3, <3>4, <3>5 DEF recordedSessionMode, conditionFor
  <2>. QED BY <1>4, <2>2, <2>3
<1>9. Records(u)'
  BY <1>2, <1>6, <1>8 DEF Good, Records, HonestOverride, Earned, Summed, totalOf
<1>10. Once(u)
  BY <1>2 DEF Once
<1>. QED BY <1>7, <1>9, <1>10, <1>2, FinishKeeps

LEMMA StartKeeps ==
  ASSUME Typed, Typed', NEW u \in careful, Good(u), NEW r \in Requests, req[r].user = u,
         StartCreate(r)
  PROVE  Good(u)' /\ Once(u)
<1> DEFINE p == req[r].phase
           fresh == [NoAttempt EXCEPT !.exists = TRUE]
<1>1. /\ Knows(req[r], u) /\ WellFormed(req[r]) /\ req[r].step = "create" /\ p \in Phases
      /\ u \in Users /\ user[u].exists /\ attempt \in [Users -> [Phases -> Attempt]]
  BY DEF Good, StartCreate, At, Typed, TypeOK, careful, WellFormed, OfAttempt
<1>2. UNCHANGED <<user, sessions>> /\ Finish(r)
  BY DEF StartCreate
<1>3. CASE attempt[u][p].exists
  <2>1. attempt' = attempt
    BY <1>3 DEF StartCreate
  <2>. QED BY <1>2, <2>1, LocalKeeps
<1>4. CASE ~attempt[u][p].exists
  <2>1. attempt' = [attempt EXCEPT ![u][p] = fresh]
    BY <1>1, <1>4 DEF StartCreate
  <2>2. fresh.exists /\ ~fresh.completed
    BY DEF NoAttempt
  <2> HIDE DEF fresh
  <2>3. attempt'[u][p] = fresh /\ \A o \in Phases \ {p} : attempt'[u][o] = attempt[u][o]
    BY <1>1, <2>1
  <2>4. ~attempt[u][p].completed
    BY <1>1, <1>4 DEF Good, Ordered
  <2>5. user[u].consentAt # Never
    BY <1>1 DEF Knows, mayStart
  <2>6. p = "POST" => user[u].posttestOverrideAt # Never \/ \A t \in TopicSet : Engaged(u, t)
    BY <1>1 DEF Knows
  <2>7. Ordered(u)'
    BY <1>2, <2>2, <2>3 DEF Good, Ordered, Now
  <2>8. HonestOverride(u)' /\ Labelled(u)'
    BY <1>2 DEF Good, Records, HonestOverride, Labelled, During, Engaged
  <2>9. Earned(u)'
    BY <1>2, <2>3, <2>5, <2>6 DEF Good, Records, Earned, Engaged, Phases
  <2>10. Summed(u)'
    BY <2>2, <2>3 DEF Good, Records, Summed, totalOf
  <2>11. Once(u)
    BY <1>2, <2>3, <2>4 DEF Once
  <2>. QED BY <1>2, <2>7, <2>8, <2>9, <2>10, <2>11, FinishKeeps DEF Records
<1>. QED BY <1>3, <1>4

LEMMA AnswerKeeps ==
  ASSUME Typed, Typed', NEW u \in careful, Good(u), NEW r \in Requests, req[r].user = u,
         SubmitWrite(r) \/ CompleteWrite(r)
  PROVE  Good(u)' /\ Once(u)
<1> DEFINE p == req[r].phase
<1>1. /\ Knows(req[r], u) /\ WellFormed(req[r]) /\ req[r].step \in {"respond", "complete"}
      /\ p \in Phases /\ u \in Users /\ user[u].exists
      /\ attempt \in [Users -> [Phases -> Attempt]]
  BY DEF Good, SubmitWrite, CompleteWrite, At, Typed, TypeOK, careful, WellFormed, OfAttempt
<1>2. UNCHANGED <<user, sessions>> /\ Finish(r)
  BY DEF SubmitWrite, CompleteWrite
<1>3. attempt[u][p] \in Attempt /\ attempt[u][p].exists /\ ~attempt[u][p].completed
  BY <1>1 DEF Knows, open
<1>4. /\ \A o \in Phases \ {p} : attempt'[u][o] = attempt[u][o]
      /\ attempt'[u][p].exists
      /\ attempt'[u][p].completed => attempt'[u][p].totalScore = totalOf(attempt'[u][p].responses)
  <2>1. CASE SubmitWrite(r)
    <3>1. attempt' = [attempt EXCEPT ![u][p].responses[req[r].item] = req[r].correct]
      BY <1>1, <2>1 DEF SubmitWrite
    <3>2. attempt'[u][p] = [attempt[u][p] EXCEPT !.responses[req[r].item] = req[r].correct]
      BY <1>1, <3>1
    <3>3. attempt'[u][p].exists /\ ~attempt'[u][p].completed
      BY <1>3, <3>2 DEF Attempt
    <3>4. \A o \in Phases \ {p} : attempt'[u][o] = attempt[u][o]
      BY <1>1, <3>1
    <3>. QED BY <3>3, <3>4
  <2>2. CASE CompleteWrite(r)
    <3>1. attempt' = [attempt EXCEPT ![u][p].completed = TRUE, ![u][p].totalScore = req[r].total]
      BY <1>1, <2>2 DEF CompleteWrite
    <3>2. attempt'[u][p] = [attempt[u][p] EXCEPT !.completed = TRUE, !.totalScore = req[r].total]
      BY <1>1, <3>1
    <3>3. /\ attempt'[u][p].exists
          /\ attempt'[u][p].totalScore = req[r].total
          /\ attempt'[u][p].responses = attempt[u][p].responses
      BY <1>3, <3>2 DEF Attempt
    <3>4. req[r].total = totalOf(attempt[u][p].responses)
      BY <1>1, <2>2 DEF Knows, CompleteWrite, At
    <3>5. \A o \in Phases \ {p} : attempt'[u][o] = attempt[u][o]
      BY <1>1, <3>1
    <3>. QED BY <3>3, <3>4, <3>5 DEF totalOf
  <2>. QED BY <2>1, <2>2
<1>5. Ordered(u)'
  BY <1>2, <1>4 DEF Good, Ordered, Now
<1>6. HonestOverride(u)' /\ Labelled(u)'
  BY <1>2 DEF Good, Records, HonestOverride, Labelled, During, Engaged
<1>7. Earned(u)'
  BY <1>1, <1>2, <1>3, <1>4 DEF Good, Records, Earned, Engaged, Phases
<1>8. Summed(u)'
  <2> SUFFICES ASSUME NEW o \in Phases, attempt'[u][o].completed
               PROVE  attempt'[u][o].totalScore = totalOf(attempt'[u][o].responses)
    BY DEF Summed, totalOf
  <2>1. CASE o = p
    BY <1>4, <2>1
  <2>2. CASE o # p
    <3>1. attempt'[u][o] = attempt[u][o]
      BY <1>4, <2>2
    <3>. QED BY <3>1 DEF Good, Records, Summed, totalOf
  <2>. QED BY <2>1, <2>2
<1>9. Once(u)
  BY <1>2, <1>3, <1>4 DEF Once
<1>. QED BY <1>2, <1>5, <1>6, <1>7, <1>8, <1>9, FinishKeeps DEF Records

\* A participant who has completed as many topics as there are has completed
\* every one of them.
LEMMA AllTopics ==
  ASSUME NEW T \in SUBSET TopicSet, Cardinality(T) >= Len(STUDY_TOPICS)
  PROVE  T = TopicSet
<1> DEFINE L == Len(STUDY_TOPICS)
<1>1. L \in Nat /\ DOMAIN STUDY_TOPICS = 1..L
  BY StudyAssumption, LenProperties
<1>2. IsFiniteSet(1..L) /\ Cardinality(1..L) = L
  <2> HIDE DEF L
  <2>1. IsFiniteSet(1..L) /\ Cardinality(1..L) = IF 1 > L THEN 0 ELSE L - 1 + 1
    BY <1>1, FS_Interval
  <2>. QED BY <1>1, <2>1
<1>3. [i \in 1..L |-> STUDY_TOPICS[i]] \in Surjection(1..L, TopicSet)
  BY <1>1, Fun_IsSurj DEF TopicSet
<1>4. IsFiniteSet(TopicSet) /\ Cardinality(TopicSet) <= L
  BY <1>2, <1>3, FS_Surjection
<1>5. Cardinality(T) <= Cardinality(TopicSet)
  BY <1>4, FS_Subset
<1>6. Cardinality(T) \in Nat /\ Cardinality(TopicSet) \in Nat
  BY <1>4, FS_CardinalityType, FS_Subset
<1>7. Cardinality(T) = Cardinality(TopicSet)
  BY <1>1, <1>4, <1>5, <1>6
<1>. QED BY <1>4, <1>7, FS_Subset

\* The topics counted from the consent a request read are topics completed.
LEMMA CountedAreEngaged ==
  ASSUME NEW u, NEW seen, seen = user[u],
         NEW t \in completedStudyTopics(u, seen.consentAt)
  PROVE  Engaged(u, t)
BY DEF completedStudyTopics, isTopicComplete, Engaged

LEMMA OverrideTopicsKeeps ==
  ASSUME Typed, Typed', NEW u \in careful, Good(u), NEW r \in Requests, req[r].user = u,
         OverrideTopics(r)
  PROVE  Good(u)' /\ Once(u)
<1> DEFINE T == completedStudyTopics(req[r].user, req[r].seen.consentAt)
           q == [req[r] EXCEPT !.step = "override", !.topics = T]
<1>1. /\ Knows(req[r], u) /\ req[r].step = "topics" /\ req[r] \in Request
      /\ UNCHANGED <<user, sessions, attempt>> /\ Local(r, q)
  BY DEF Good, OverrideTopics, At, Typed, TypeOK, rows
<1>2. mayOverride(user[u]) /\ \A t \in T : Engaged(u, t)
  BY <1>1, CountedAreEngaged DEF Knows
<1> HIDE DEF T
<1>3. q.step = "override" /\ q.user = u /\ q.topics = T
  BY <1>1 DEF Request
<1>4. Knows(q, u)
  BY <1>2, <1>3 DEF Knows
<1>. QED BY <1>1, <1>3, <1>4, LocalKeeps

LEMMA StartTopicsKeeps ==
  ASSUME Typed, Typed', NEW u \in careful, Good(u), NEW r \in Requests, req[r].user = u,
         StartTopics(r)
  PROVE  Good(u)' /\ Once(u)
<1> DEFINE T == completedStudyTopics(req[r].user, req[r].seen.consentAt)
           q == [req[r] EXCEPT !.step = "find"]
<1>1. /\ Knows(req[r], u) /\ req[r].step = "status" /\ req[r] \in Request
      /\ UNCHANGED <<user, sessions, attempt>>
  BY DEF Good, StartTopics, At, Typed, TypeOK, rows
<1>2. mayStart(user[u]) /\ req[r].seen = user[u] /\ \A t \in T : Engaged(u, t)
  BY <1>1, CountedAreEngaged DEF Knows
<1>3. T \in SUBSET TopicSet
  <2>1. \A t \in T : \E i \in DOMAIN sessions : t = sessions[i].topic
    BY DEF completedStudyTopics
  <2>2. \A i \in DOMAIN sessions : sessions[i].topic \in TopicSet
    BY SessionAt DEF Typed, TypeOK, Session
  <2>. QED BY <2>1, <2>2
<1>4. CASE Finish(r)
  BY <1>1, <1>4, LocalKeeps
<1>5. CASE ~Finish(r)
  <2>1. Local(r, q) /\ ~(req[r].phase = "POST" /\ ~posttestAvailable(req[r].seen, T))
    BY <1>5 DEF StartTopics
  <2>2. req[r].phase = "POST" =>
          user[u].posttestOverrideAt # Never \/ \A t \in TopicSet : Engaged(u, t)
    BY <1>2, <1>3, <2>1, AllTopics DEF posttestAvailable
  <2>3. q.step = "find" /\ q.user = u /\ q.phase = req[r].phase
    BY <1>1 DEF Request
  <2>4. Knows(q, u)
    BY <1>2, <2>2, <2>3 DEF Knows
  <2>. QED BY <1>1, <2>1, <2>3, <2>4, LocalKeeps
<1>. QED BY <1>4, <1>5

\* The other steps that end a request or lead it on without writing a row.
LEMMA WaitKeeps ==
  ASSUME Typed, Typed', NEW u \in careful, Good(u), NEW r \in Requests, req[r].user = u,
         EnrolOrdinal(r) \/ EnrolLost(r) \/ StartFind(r) \/ Fail(r)
  PROVE  Good(u)' /\ Once(u)
<1>1. /\ Knows(req[r], u) /\ req[r] \in Request
      /\ UNCHANGED <<user, sessions, attempt>>
  BY DEF Good, EnrolOrdinal, EnrolLost, StartFind, Fail, Typed, TypeOK, rows
<1>2. CASE Finish(r)
  BY <1>1, <1>2, LocalKeeps
<1>3. ASSUME NEW q, Local(r, q), q.user = u, q.step \in {"ordinal", "claim"},
             req[r].step \in {"ordinal", "claim"}
      PROVE  Good(u)' /\ Once(u)
  <2>1. Knows(q, u)
    BY <1>1, <1>3 DEF Knows
  <2>. QED BY <1>1, <1>3, <2>1, LocalKeeps
<1>4. CASE EnrolOrdinal(r)
  <2> DEFINE n == nextParticipantOrdinal
             q == [req[r] EXCEPT !.step = "claim", !.ordinal = n]
  <2>1. Local(r, q) /\ req[r].step = "ordinal"
    BY <1>4 DEF EnrolOrdinal, At
  <2> HIDE DEF n
  <2>2. q.user = u /\ q.step = "claim"
    BY <1>1 DEF Request
  <2>. QED BY <1>3, <2>1, <2>2
<1>5. CASE EnrolLost(r) /\ ~Finish(r)
  <2> DEFINE n == req[r].tries + 1
             q == [req[r] EXCEPT !.step = "ordinal", !.tries = n]
  <2>1. Local(r, q) /\ req[r].step = "claim"
    BY <1>5 DEF EnrolLost, At
  <2> HIDE DEF n
  <2>2. q.user = u /\ q.step = "ordinal"
    BY <1>1 DEF Request
  <2>. QED BY <1>3, <2>1, <2>2
<1>6. CASE StartFind(r) /\ ~Finish(r)
  <2> DEFINE q == [req[r] EXCEPT !.step = "create"]
  <2>1. Local(r, q) /\ req[r].step = "find"
    BY <1>6 DEF StartFind, At
  <2>2. q.user = u /\ q.step = "create" /\ q.phase = req[r].phase
    BY <1>1 DEF Request
  <2>3. Knows(q, u)
    BY <1>1, <2>1, <2>2 DEF Knows
  <2>. QED BY <1>1, <2>1, <2>2, <2>3, LocalKeeps
<1>7. CASE Fail(r)
  BY <1>2, <1>7 DEF Fail
<1>. QED BY <1>2, <1>4, <1>5, <1>6, <1>7

LEMMA OwnStep ==
  ASSUME Typed, Typed', NEW u \in careful, Good(u), NEW r \in Requests, req[r].user = u,
         Continue(r) \/ Fail(r)
  PROVE  Good(u)' /\ Once(u)
BY EnrolKeeps, ConsentKeeps, WithdrawKeeps, OverrideKeeps, SusKeeps, SessionKeeps,
   StartKeeps, AnswerKeeps, OverrideTopicsKeeps, StartTopicsKeeps, WaitKeeps DEF Continue

\* Who is careful after a step was careful before it.
LEMMA CarefulBefore ==
  ASSUME Typed, [Next]_vars
  PROVE  careful' \subseteq careful
<1>1. ASSUME overlapped \subseteq overlapped',
             \A u \in Users : user'[u].exists => user[u].exists
      PROVE  careful' \subseteq careful
  BY <1>1 DEF careful
<1>2. ASSUME NEW r \in Requests, NEW u \in Users, Begin(r, u)
      PROVE  careful' \subseteq careful
  BY <1>1, <1>2, Begins DEF Arrive, rows
<1>3. ASSUME NEW r \in Requests, Continue(r) \/ Fail(r) PROVE careful' \subseteq careful
  <2>1. overlapped' = overlapped
    BY <1>3 DEF Continue, EnrolOrdinal, EnrolLost, EnrolClaim, ConsentWrite, WithdrawWrite,
         OverrideTopics, OverrideWrite, SusWrite, SessionCreate, StartTopics,
         StartFind, StartCreate, SubmitWrite, CompleteWrite, At, Fail
  <2>2. \A u \in Users : user'[u].exists => user[u].exists
    <3>1. user \in [Users -> User]
      BY DEF Typed, TypeOK
    <3>2. CASE user' = user
      BY <3>2
    <3>3. ASSUME NEW row, Write(r, row) PROVE \A u \in Users : user'[u].exists => user[u].exists
      BY <3>1, <3>3 DEF Write
    <3>4. CASE EnrolClaim(r) \/ ConsentWrite(r) \/ WithdrawWrite(r) \/ OverrideWrite(r)
               \/ SusWrite(r)
      BY <3>3, <3>4 DEF EnrolClaim, ConsentWrite, WithdrawWrite, OverrideWrite, SusWrite
    <3>. QED BY <1>3, <3>2, <3>4 DEF Continue, EnrolOrdinal, EnrolLost, OverrideTopics,
               SessionCreate, StartTopics, StartFind, StartCreate, SubmitWrite,
               CompleteWrite, Fail, rows
  <2>. QED BY <1>1, <2>1, <2>2
<1>4. ASSUME NEW i \in DOMAIN sessions, NEW field \in {"reachedFinalStep", "answered"},
             Work(i, field)
      PROVE  careful' \subseteq careful
  BY <1>1, <1>4 DEF Work
<1>5. ASSUME NEW v \in Users, DeleteAccount(v) PROVE careful' \subseteq careful
  <2>1. \A u \in Users : user'[u].exists => user[u].exists
    BY <1>5 DEF DeleteAccount, NoUser, NewUser, Typed, TypeOK
  <2>. QED BY <1>1, <1>5, <2>1 DEF DeleteAccount
<1>6. CASE UNCHANGED vars
  BY <1>1, <1>6 DEF vars
<1>. QED BY <1>2, <1>3, <1>4, <1>5, <1>6 DEF Next

LEMMA SteadyStep ==
  ASSUME Typed, Typed', Steady, [Next]_vars
  PROVE  Steady' /\ \A u \in careful \cap careful' : Once(u)
<1> SUFFICES ASSUME NEW u \in careful, u \in careful' PROVE Good(u)' /\ Once(u)
  BY CarefulBefore DEF Steady
<1>1. Good(u) /\ u \in Users
  BY DEF Steady, careful
<1>2. CASE \E r \in Requests : Begin(r, u)
  BY <1>1, <1>2, BeginKeeps
<1>3. CASE \E r \in Requests : req[r].user = u /\ (Continue(r) \/ Fail(r))
  BY <1>1, <1>3, OwnStep
<1>4. CASE /\ \A r \in Requests : ~Begin(r, u)
           /\ \A r \in Requests : req[r].user = u => ~Continue(r) /\ ~Fail(r)
  BY <1>1, <1>4, OthersAreQuiet, QuietKeeps
<1>. QED BY <1>2, <1>3, <1>4

LEMMA SteadyInit == Init => Steady
<1> SUFFICES ASSUME Init, NEW u \in careful PROVE Good(u)
  BY DEF Steady
<1>1. /\ u \in Users /\ user[u] = NewUser /\ sessions = <<>>
      /\ attempt[u] = [p \in Phases |-> NoAttempt]
      /\ \A r \in Requests : req[r] = Idle
  BY DEF Init, careful
<1>2. \A r \in Requests : req[r].user # u
  BY <1>1, NullIsNoOwner DEF Idle
<1>3. Ordered(u)
  BY <1>1 DEF Ordered, NewUser, NoAttempt, Now, Never
<1>4. Records(u)
  BY <1>1 DEF Records, HonestOverride, Labelled, Earned, Summed, NewUser, NoAttempt, Phases
<1>. QED BY <1>2, <1>3, <1>4 DEF Good, OneCall

----------------------------------------------------------------------------
(* The rotation                                                            *)

\* Of the numbers below n, those that leave the rest i.
Residue(L, n, i) == {a \in 0..(n - 1) : a % L = i}

LEMMA ResidueIsFinite ==
  ASSUME NEW L, NEW n \in Nat, NEW i
  PROVE  IsFiniteSet(Residue(L, n, i)) /\ Cardinality(Residue(L, n, i)) \in Nat
<1>1. IsFiniteSet(0..(n - 1))
  BY FS_Interval
<1>2. Residue(L, n, i) \in SUBSET (0..(n - 1))
  BY DEF Residue
<1>. QED BY <1>1, <1>2, FS_Subset, FS_CardinalityType

\* A greater rest is left no more often: step back to the smaller one.
LEMMA BackIsInjective ==
  ASSUME NEW L \in Nat \ {0}, NEW n \in Nat, NEW i \in 0..(L - 1), NEW j \in 0..i
  PROVE  Cardinality(Residue(L, n, i)) <= Cardinality(Residue(L, n, j))
<1> DEFINE d == i - j
           f == [a \in Residue(L, n, i) |-> a - d]
<1>1. d \in Nat /\ d <= i /\ i - d = j /\ i \in Nat
  OBVIOUS
<1> HIDE DEF d
<1>2. ASSUME NEW a \in Residue(L, n, i) PROVE a - d \in Residue(L, n, j)
  <2>1. a \in Nat /\ a <= n - 1 /\ a % L = i
    BY <1>2 DEF Residue
  <2>2. a - d \in Nat /\ (a - d) % L = j
    BY <1>1, <2>1, TurnBack
  <2>. QED BY <1>1, <2>1, <2>2 DEF Residue
<1>3. f \in Injection(Residue(L, n, i), Residue(L, n, j))
  <2>1. f \in [Residue(L, n, i) -> Residue(L, n, j)]
    BY <1>2
  <2>2. \A a, b \in Residue(L, n, i) : f[a] = f[b] => a = b
    <3>1. Residue(L, n, i) \subseteq Int
      BY DEF Residue
    <3>. QED BY <1>1, <3>1
  <2>. QED BY <2>1, <2>2, Fun_IsInj
<1>. QED BY <1>3, ResidueIsFinite, FS_Injection

\* A smaller rest is left at most once more: but for the first of them, go
\* back a whole turn and forth to the greater one.
LEMMA ForthIsInjective ==
  ASSUME NEW L \in Nat \ {0}, NEW n \in Nat, NEW j \in 0..(L - 1), NEW i \in 0..(j - 1)
  PROVE  Cardinality(Residue(L, n, i)) <= Cardinality(Residue(L, n, j)) + 1
<1> DEFINE d == j - i
           R == Residue(L, n, i) \ {i}
           f == [a \in R |-> (a - L) + d]
<1>1. d \in Nat /\ d < L /\ i + d = j /\ j < L /\ i \in Nat /\ j \in Nat
  OBVIOUS
<1> HIDE DEF d
<1>2. ASSUME NEW a \in R PROVE (a - L) + d \in Residue(L, n, j)
  <2>1. a \in Nat /\ a <= n - 1 /\ a % L = i /\ a # i
    BY <1>2 DEF Residue
  <2>2. a >= L
    <3> SUFFICES ASSUME a < L PROVE FALSE
      BY <2>1
    <3>1. a \in 0..(L - 1) /\ 0 \in Nat
      BY <2>1
    <3>2. (L * 0 + a) % L = a
      BY <3>1, RestOf
    <3>3. L * 0 + a = a
      BY <2>1
    <3>. QED BY <2>1, <3>2, <3>3
  <2>3. a - L \in Nat /\ (a - L) % L = i
    BY <2>1, <2>2, WholeTurn
  <2>4. ((a - L) + d) % L = j
    BY <1>1, <2>3, TurnForth
  <2>5. (a - L) + d \in 0..(n - 1)
    BY <1>1, <2>1, <2>3
  <2>. QED BY <2>4, <2>5 DEF Residue
<1>3. f \in Injection(R, Residue(L, n, j))
  <2>1. f \in [R -> Residue(L, n, j)]
    BY <1>2
  <2>2. \A a, b \in R : f[a] = f[b] => a = b
    <3>1. R \subseteq Int
      BY DEF Residue
    <3> HIDE DEF R
    <3>. QED BY <1>1, <3>1
  <2>. QED BY <2>1, <2>2, Fun_IsInj
<1>4. Cardinality(R) <= Cardinality(Residue(L, n, j))
  BY <1>3, ResidueIsFinite, FS_Injection
<1>5. Cardinality(R) = IF i \in Residue(L, n, i) THEN Cardinality(Residue(L, n, i)) - 1
                       ELSE Cardinality(Residue(L, n, i))
  BY ResidueIsFinite, FS_RemoveElement
<1>6. Cardinality(Residue(L, n, i)) \in Nat /\ Cardinality(Residue(L, n, j)) \in Nat
  BY ResidueIsFinite
<1>. QED BY <1>4, <1>5, <1>6

LEMMA ResiduesBalance ==
  ASSUME NEW L \in Nat \ {0}, NEW n \in Nat, NEW i \in 0..(L - 1), NEW j \in 0..(L - 1)
  PROVE  Cardinality(Residue(L, n, i)) <= Cardinality(Residue(L, n, j)) + 1
<1>1. CASE j <= i
  <2>1. j \in 0..i
    BY <1>1
  <2>2. Cardinality(Residue(L, n, i)) <= Cardinality(Residue(L, n, j))
    BY <2>1, BackIsInjective
  <2>3. Cardinality(Residue(L, n, i)) \in Nat /\ Cardinality(Residue(L, n, j)) \in Nat
    BY ResidueIsFinite
  <2>. QED BY <2>2, <2>3
<1>2. CASE i < j
  <2>1. i \in 0..(j - 1)
    BY <1>2
  <2>. QED BY <2>1, ForthIsInjective
<1>. QED BY <1>1, <1>2

HolderCodes == {user[u].participantCode : u \in holders}

\* Those with the topic at i have the codes that leave the rest i.
LEMMA HoldersOfTopic ==
  ASSUME Typed, CodesUnique, TopicFollowsCode,
         HolderCodes = 1..Cardinality(holders), Cardinality(holders) \in Nat,
         NEW i \in 0..(Len(STUDY_TOPICS) - 1)
  PROVE  Cardinality({u \in holders : user[u].classicTopicSlug = STUDY_TOPICS[i + 1]})
           = Cardinality(Residue(Len(STUDY_TOPICS), Cardinality(holders), i))
<1> DEFINE L == Len(STUDY_TOPICS)
           n == Cardinality(holders)
           H == {u \in holders : user[u].classicTopicSlug = STUDY_TOPICS[i + 1]}
           R == Residue(L, n, i)
           f == [u \in H |-> user[u].participantCode - 1]
<1>1. L \in Nat \ {0} /\ DOMAIN STUDY_TOPICS = 1..L
  BY StudyAssumption
<1> HIDE DEF L
<1>2. ASSUME NEW u \in holders
      PROVE  /\ u \in Users /\ user[u].participantCode \in 1..n
             /\ user[u].participantCode - 1 \in 0..(n - 1)
             /\ user[u].classicTopicSlug = STUDY_TOPICS[i + 1]
                  <=> (user[u].participantCode - 1) % L = i
  <2> DEFINE c == user[u].participantCode
  <2>1. u \in Users /\ c # 0 /\ c \in 1..n
    BY DEF holders, HolderCodes
  <2>2. c - 1 \in 0..(n - 1) /\ c - 1 \in Nat /\ c \in Nat \ {0}
    BY <2>1
  <2>3. user[u].classicTopicSlug = STUDY_TOPICS[((c - 1) % L) + 1]
    BY <2>1 DEF TopicFollowsCode, classicTopicFor, L
  <2>4. (c - 1) % L \in 0..(L - 1)
    BY <1>1, <2>2, Turns
  <2> HIDE DEF c
  <2>5. ((c - 1) % L) + 1 \in DOMAIN STUDY_TOPICS /\ i + 1 \in DOMAIN STUDY_TOPICS
    BY <1>1, <2>4 DEF L
  <2>6. STUDY_TOPICS[((c - 1) % L) + 1] = STUDY_TOPICS[i + 1] <=> ((c - 1) % L) + 1 = i + 1
    BY <2>5, StudyAssumption
  <2>7. i \in Int /\ (((c - 1) % L) + 1 = i + 1 <=> (c - 1) % L = i)
    BY <1>1, <2>4
  <2>. QED BY <2>1, <2>2, <2>3, <2>6, <2>7 DEF c
<1>3. f \in [H -> R]
  BY <1>2 DEF Residue
<1>4. \A u, v \in H : f[u] = f[v] => u = v
  <2> SUFFICES ASSUME NEW u \in H, NEW v \in H, f[u] = f[v] PROVE u = v
    OBVIOUS
  <2>1. /\ user[u].participantCode \in 1..n /\ user[v].participantCode \in 1..n
        /\ u \in Users /\ v \in Users
        /\ user[u].participantCode - 1 = user[v].participantCode - 1
    BY <1>2
  <2>2. user[u].participantCode = user[v].participantCode /\ user[u].participantCode # 0
    BY <2>1
  <2>. QED BY <2>1, <2>2 DEF CodesUnique
<1>5. \A a \in R : \E u \in H : f[u] = a
  <2> SUFFICES ASSUME NEW a \in R PROVE \E u \in H : f[u] = a
    OBVIOUS
  <2>1. a \in 0..(n - 1) /\ a % L = i
    BY DEF Residue
  <2>2. a + 1 \in 1..n /\ (a + 1) - 1 = a
    BY <2>1
  <2>3. PICK u \in holders : user[u].participantCode = a + 1
    BY <2>2 DEF HolderCodes
  <2>4. u \in H
    BY <1>2, <2>1, <2>2, <2>3
  <2>. QED BY <2>2, <2>3, <2>4
<1>6. f \in Bijection(H, R)
  BY <1>3, <1>4, <1>5, Fun_IsBij
<1>7. IsFiniteSet(H)
  <2>1. H \subseteq Users
    BY DEF holders
  <2>. QED BY <2>1, StudyAssumption, FS_Subset
<1>8. ExistsBijection(H, R)
  BY <1>6 DEF ExistsBijection
<1>. QED BY <1>7, <1>8, FS_Bijection DEF L

(***************************************************************************)
(* Why the codes are 1 to the number of participants while nobody enrols   *)
(* twice at once and no account is deleted: an enrolment waits with an     *)
(* ordinal one above them at most (others may have taken it since), its    *)
(* participant holds none (nothing else of theirs ran since it looked),    *)
(* and so a claim that succeeds is the next one.                           *)
(***************************************************************************)
Undisturbed == overlapped = {} /\ \A u \in Users : user[u].exists

Rotated ==
  Undisturbed =>
    /\ HolderCodes = 1..Cardinality(holders)
    /\ \A r \in Requests : req[r].step = "claim" => req[r].ordinal <= Cardinality(holders) + 1

LEMMA HoldersCount ==
  IsFiniteSet(holders) /\ Cardinality(holders) \in Nat
<1>1. holders \subseteq Users
  BY DEF holders
<1>. QED BY <1>1, StudyAssumption, FS_Subset, FS_CardinalityType

\* A request awaits a claim because it has just found its ordinal.
LEMMA ClaimAwaited ==
  ASSUME Typed, [Next]_vars, NEW r \in Requests, req'[r] # req[r], req'[r].step = "claim"
  PROVE  /\ req'[r].ordinal = nextParticipantOrdinal
         /\ user' = user
<1>1. req \in [Requests -> Request] /\ req[r] \in Request
  BY DEF Typed, TypeOK
<1>2. ASSUME NEW u \in Users, Begin(r, u) PROVE FALSE
  BY <1>2, Begins DEF BeganAs
<1>3. ASSUME NEW q, Local(r, q) PROVE req'[r] = q
  BY <1>1, <1>3 DEF Local
<1>4. ~Finish(r)
  BY <1>3 DEF Finish, Idle
<1>5. CASE EnrolOrdinal(r)
  <2> DEFINE n == nextParticipantOrdinal
             q == [req[r] EXCEPT !.step = "claim", !.ordinal = n]
  <2>1. Local(r, q) /\ user' = user
    BY <1>5 DEF EnrolOrdinal, rows
  <2> HIDE DEF n
  <2>2. q.ordinal = n
    BY <1>1 DEF Request
  <2>. QED BY <1>3, <2>1, <2>2 DEF n
<1>6. CASE EnrolLost(r)
  <2> DEFINE n == req[r].tries + 1
             q == [req[r] EXCEPT !.step = "ordinal", !.tries = n]
  <2>1. Local(r, q)
    BY <1>4, <1>6 DEF EnrolLost
  <2> HIDE DEF n
  <2>2. q.step = "ordinal"
    BY <1>1 DEF Request
  <2>. QED BY <1>3, <2>1, <2>2
<1>7. CASE OverrideTopics(r) \/ StartTopics(r) \/ StartFind(r)
  <2>1. ASSUME NEW a PROVE /\ [req[r] EXCEPT !.step = "override", !.topics = a].step = "override"
                           /\ [req[r] EXCEPT !.step = "find"].step = "find"
                           /\ [req[r] EXCEPT !.step = "create"].step = "create"
    BY <1>1 DEF Request
  <2>2. CASE OverrideTopics(r)
    BY <1>3, <2>1, <2>2 DEF OverrideTopics
  <2>3. CASE StartTopics(r)
    BY <1>3, <1>4, <2>1, <2>3 DEF StartTopics
  <2>4. CASE StartFind(r)
    BY <1>3, <1>4, <2>1, <2>4 DEF StartFind
  <2>. QED BY <1>7, <2>2, <2>3, <2>4
<1>8. CASE EnrolClaim(r) \/ ConsentWrite(r) \/ WithdrawWrite(r) \/ OverrideWrite(r)
           \/ SusWrite(r) \/ SessionCreate(r) \/ StartCreate(r) \/ SubmitWrite(r)
           \/ CompleteWrite(r) \/ Fail(r)
  BY <1>4, <1>8 DEF EnrolClaim, ConsentWrite, WithdrawWrite, OverrideWrite, SusWrite,
                    SessionCreate, StartCreate, SubmitWrite, CompleteWrite, Write, Fail
<1>. QED BY <1>2, <1>5, <1>6, <1>7, <1>8, RequestMoves DEF Continue

LEMMA RotatedStep ==
  ASSUME Typed, Typed', Steady, Rotated, [Next]_vars
  PROVE  Rotated'
<1> DEFINE n == Cardinality(holders)
<1> SUFFICES ASSUME Undisturbed'
             PROVE  /\ HolderCodes' = 1..n'
                    /\ \A r \in Requests : req'[r].step = "claim" => req'[r].ordinal <= n' + 1
  BY DEF Rotated
<1>1. careful' = Users /\ careful = Users /\ Undisturbed
  BY CarefulBefore DEF Undisturbed, careful, Typed, TypeOK
<1>2. HolderCodes = 1..n /\ \A r \in Requests : req[r].step = "claim" => req[r].ordinal <= n + 1
  BY <1>1 DEF Rotated
<1>3. IsFiniteSet(holders) /\ n \in Nat
  BY HoldersCount
<1>4. CASE CodesKept
  <2>1. \A u \in Users : user'[u].participantCode = user[u].participantCode
    BY <1>4 DEF CodesKept, Undisturbed, NoUser, NewUser
  <2>2. holders' = holders /\ HolderCodes' = HolderCodes
    BY <2>1 DEF holders, HolderCodes
  <2>3. ASSUME NEW r \in Requests, req'[r].step = "claim" PROVE req'[r].ordinal <= n + 1
    <3>1. CASE req'[r] = req[r]
      BY <1>2, <2>3, <3>1
    <3>2. CASE req'[r] # req[r]
      <4> DEFINE k == nextParticipantOrdinal
      <4>1. req'[r].ordinal = k
        BY <2>3, <3>2, ClaimAwaited
      <4>2. /\ k \in 1..(Cardinality(Users) + 1)
            /\ \A m \in 1..(k - 1) : \E u \in Users : user[u].participantCode = m
        BY LowestFree DEF Typed, TypeOK
      <4> HIDE DEF k
      <4>3. k \in Nat \ {0} /\ Cardinality(Users) \in Nat
        BY <4>2, StudyAssumption, FS_CardinalityType
      <4>4. CASE k = 1
        BY <1>3, <4>1, <4>4
      <4>5. CASE k # 1
        <5>1. k - 1 \in 1..(k - 1) /\ k - 1 # 0
          BY <4>3, <4>5
        <5>2. PICK u \in Users : user[u].participantCode = k - 1
          BY <4>2, <5>1
        <5>3. k - 1 \in HolderCodes
          BY <5>1, <5>2 DEF holders, HolderCodes
        <5>. QED BY <1>2, <1>3, <4>1, <4>3, <5>3
      <4>. QED BY <4>4, <4>5
    <3>. QED BY <3>1, <3>2
  <2>. QED BY <1>2, <2>2, <2>3
<1>5. CASE \E r \in Requests : EnrolClaim(r) /\ user[req[r].user].exists
  <2>1. PICK r \in Requests : EnrolClaim(r) /\ user[req[r].user].exists
    BY <1>5
  <2> DEFINE u == req[r].user
             k == req[r].ordinal
  <2>2. /\ u \in Users /\ k \in Nat \ {0}
        /\ \A v \in Users \ {u} : user[v].participantCode # k /\ user'[v] = user[v]
        /\ user'[u].participantCode = k
        /\ Finish(r) /\ req[r].step = "claim"
    BY <2>1, ClaimStep DEF EnrolClaim, At
  <2>3. user[u].participantCode = 0
    BY <1>1, <2>2 DEF Steady, Good, Knows, mayEnrol
  <2>4. k <= n + 1
    BY <1>2, <2>2
  <2>5. \A s \in Requests : req'[s].step = "claim" => req'[s] = req[s]
    BY <2>2 DEF Finish, Local, Idle, Typed, TypeOK
  <2> HIDE DEF u, k
  <2>6. k \notin HolderCodes
    BY <2>2, <2>3 DEF HolderCodes, holders
  <2>7. k = n + 1
    BY <1>2, <1>3, <2>2, <2>4, <2>6
  <2>8. holders' = holders \cup {u} /\ u \notin holders
    BY <2>2, <2>3 DEF holders
  <2>9. n' = n + 1
    BY <1>3, <2>8, FS_AddElement
  <2>10. HolderCodes' = HolderCodes \cup {k}
    BY <2>2, <2>8 DEF HolderCodes, holders
  <2>11. HolderCodes' = 1..n'
    BY <1>2, <1>3, <2>7, <2>9, <2>10
  <2>12. \A s \in Requests : req'[s].step = "claim" => req'[s].ordinal <= n' + 1
    <3> SUFFICES ASSUME NEW s \in Requests, req'[s].step = "claim"
                 PROVE  req'[s].ordinal <= n' + 1
      OBVIOUS
    <3>1. req'[s] = req[s] /\ req[s].ordinal \in Nat /\ req[s].ordinal <= n + 1
      BY <1>2, <2>5 DEF Typed, TypeOK, Request
    <3>. QED BY <1>3, <2>9, <3>1
  <2>. QED BY <2>11, <2>12
<1>. QED BY <1>4, <1>5, CodeStep

LEMMA RotationHolds ==
  ASSUME Typed, CodesUnique, TopicFollowsCode, Rotated
  PROVE  RotationBalanced
<1> SUFFICES ASSUME Undisturbed
             PROVE  /\ HolderCodes = 1..Cardinality(holders)
                    /\ \A s, t \in TopicSet :
                         Cardinality({u \in holders : user[u].classicTopicSlug = s})
                           <= Cardinality({u \in holders : user[u].classicTopicSlug = t}) + 1
  BY DEF RotationBalanced, Undisturbed, HolderCodes
<1> DEFINE L == Len(STUDY_TOPICS)
           n == Cardinality(holders)
<1>1. HolderCodes = 1..n /\ n \in Nat
  BY HoldersCount DEF Rotated
<1>2. L \in Nat \ {0} /\ DOMAIN STUDY_TOPICS = 1..L
  BY StudyAssumption
<1>3. ASSUME NEW s \in TopicSet
      PROVE  \E i \in 0..(L - 1) : s = STUDY_TOPICS[i + 1]
  <2>1. PICK m \in 1..L : s = STUDY_TOPICS[m]
    BY <1>2 DEF TopicSet
  <2>2. m - 1 \in 0..(L - 1) /\ (m - 1) + 1 = m
    BY <1>2
  <2>. QED BY <2>1, <2>2
<1>4. ASSUME NEW s \in TopicSet, NEW t \in TopicSet
      PROVE  Cardinality({u \in holders : user[u].classicTopicSlug = s})
               <= Cardinality({u \in holders : user[u].classicTopicSlug = t}) + 1
  <2>1. PICK i \in 0..(L - 1) : s = STUDY_TOPICS[i + 1]
    BY <1>3
  <2>2. PICK j \in 0..(L - 1) : t = STUDY_TOPICS[j + 1]
    BY <1>3
  <2>3. /\ Cardinality({u \in holders : user[u].classicTopicSlug = s}) = Cardinality(Residue(L, n, i))
        /\ Cardinality({u \in holders : user[u].classicTopicSlug = t}) = Cardinality(Residue(L, n, j))
    BY <1>1, <2>1, <2>2, HoldersOfTopic
  <2>4. Cardinality(Residue(L, n, i)) <= Cardinality(Residue(L, n, j)) + 1
    BY <1>1, <1>2, ResiduesBalance
  <2>. QED BY <2>3, <2>4
<1>. QED BY <1>1, <1>4

----------------------------------------------------------------------------
(* The theorems                                                            *)

(***************************************************************************)
(* The inductive invariant: the types, with what each step of a request    *)
(* needs of it; the two facts that make codes unique; what a lost race     *)
(* says of the claims made; what one participant's rows and request know   *)
(* of each other; and the codes of the rotation.                           *)
(***************************************************************************)
Inv == Typed /\ CodesUnique /\ TopicFollowsCode /\ RaceIsDeserved /\ Steady /\ Rotated

LEMMA InvInit == Init => Inv
<1> SUFFICES ASSUME Init PROVE Inv
  OBVIOUS
<1>1. /\ \A u \in Users : user[u].participantCode = 0
      /\ \A r \in Requests : req[r].step = "idle"
  BY DEF Init, NewUser, Idle
<1>2. holders = {}
  BY <1>1 DEF holders
<1>3. Cardinality(holders) = 0
  BY <1>2, FS_EmptySet
<1>4. HolderCodes = 1..0
  BY <1>2 DEF HolderCodes
<1>5. Rotated
  BY <1>1, <1>3, <1>4 DEF Rotated
<1>6. CodesUnique /\ TopicFollowsCode /\ RaceIsDeserved
  BY <1>1 DEF CodesUnique, TopicFollowsCode, RaceIsDeserved
<1>. QED BY <1>5, <1>6, TypedInit, SteadyInit DEF Inv

LEMMA InvStep == Inv /\ [Next]_vars => Inv' /\ \A u \in careful \cap careful' : Once(u)
<1> SUFFICES ASSUME Inv, [Next]_vars PROVE Inv' /\ \A u \in careful \cap careful' : Once(u)
  OBVIOUS
<1>1. Typed'
  BY TypedStep DEF Inv
<1>2. CodesUnique' /\ TopicFollowsCode'
  BY UniqueStep DEF Inv
<1>3. RaceIsDeserved'
  BY RaceStep DEF Inv
<1>4. Steady' /\ \A u \in careful \cap careful' : Once(u)
  BY <1>1, SteadyStep DEF Inv
<1>5. Rotated'
  BY <1>1, RotatedStep DEF Inv
<1>. QED BY <1>1, <1>2, <1>3, <1>4, <1>5 DEF Inv

LEMMA InvIsCodes == Inv => CodesAreSound
BY RotationHolds DEF Inv, CodesAreSound, Typed

LEMMA InvIsRecords == Inv => RecordsAreHonest
<1> SUFFICES ASSUME Inv PROVE RecordsAreHonest
  OBVIOUS
<1>1. \A u \in careful : Records(u)
  BY DEF Inv, Steady, Good
<1>2. OverrideHonest
  BY <1>1 DEF Records, HonestOverride, OverrideHonest
<1>3. ConditionLabel
  <2> SUFFICES ASSUME NEW i \in DOMAIN sessions, sessions[i].owner \in careful
               PROVE  sessions[i].mode = "CLASSIC"
                        <=> /\ During(sessions[i].owner, i)
                            /\ sessions[i].topic = user[sessions[i].owner].classicTopicSlug
    BY DEF ConditionLabel, During
  <2>. QED BY <1>1 DEF Records, Labelled
<1>4. PosttestEarned /\ TotalIsSum
  BY <1>1 DEF Records, Earned, Summed, PosttestEarned, TotalIsSum
<1>. QED BY <1>2, <1>3, <1>4 DEF RecordsAreHonest

LEMMA InvAlways == Spec => []Inv
<1>1. Inv /\ [Next]_vars => Inv'
  BY InvStep
<1>. QED BY <1>1, InvInit, PTL DEF Spec

(* However enrolments interleave, fail and lose their races, no two        *)
(* participants share a code, an enrolment gives up only after as many     *)
(* claims by others as it had tries (study.service.ts, enrollParticipant), *)
(* and while nobody enrols twice at once and no account is deleted the     *)
(* Classic topics are given out evenly.                                    *)
THEOREM SoundCodes == Spec => []CodesAreSound
BY InvAlways, InvIsCodes, PTL

(* What the study records of a participant whose calls do not overlap is   *)
(* what happened: the topics an override excused, the condition of every   *)
(* session (session.service.ts), that a post-test was earned or excused,   *)
(* and the total of a completed attempt (assessment.service.ts).           *)
THEOREM HonestRecords == Spec => []RecordsAreHonest
BY InvAlways, InvIsRecords, PTL

(* No later call of such a participant changes a code, a Classic topic, a  *)
(* date, the excused topics or a completed attempt once it is recorded.    *)
THEOREM FirstRecordStands == Spec => RecordedOnce
<1>1. Inv /\ [Next]_vars =>
        [\A u \in careful \cap careful' :
          /\ user[u].participantCode # 0 =>
               user'[u].participantCode = user[u].participantCode
          /\ user[u].classicTopicSlug # None =>
               user'[u].classicTopicSlug = user[u].classicTopicSlug
          /\ \A field \in {"consentAt", "withdrawnAt", "posttestOverrideAt",
                           "susSubmittedAt"} :
               user[u][field] # Never => user'[u][field] = user[u][field]
          /\ user[u].posttestOverrideAt # Never =>
               user'[u].posttestOverrideIncompleteTopics =
                 user[u].posttestOverrideIncompleteTopics
          /\ \A p \in Phases :
               attempt[u][p].completed => attempt'[u][p] = attempt[u][p]]_vars
  BY InvStep DEF Once
<1>. QED BY <1>1, InvAlways, PTL DEF Spec, RecordedOnce
============================================================================
