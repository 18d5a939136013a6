------------------------ MODULE FeedbackServiceProofs ------------------------
(***************************************************************************)
(* Theorems about FeedbackService: for any number of requests in progress,  *)
(* any keys, any size and time to live of the cache and any time limits.    *)
(***************************************************************************)
EXTENDS FeedbackService, FiniteSetTheorems, FunctionTheorems,
        SequenceTheorems, TLAPS

----------------------------------------------------------------------------
(* The time and the number of calls a request takes                        *)

\* When a call began, for what the request has done so far: each attempt on a
\* first call starts within the timeout of the one before it, and a second
\* call when the last attempt has ended.
InTime(r) ==
  CASE r.stage = "first" ->
         /\ r.began <= r.since + r.tries * request_timeout_seconds
         /\ now <= r.began + request_timeout_seconds
    [] r.stage = "second" ->
         /\ r.began <= r.since + (SDK_RETRIES + 1) * request_timeout_seconds
         /\ now <= r.began + retry_budget_seconds
    [] OTHER -> TRUE

Request == [stage : {"idle", "first", "second"}, key : Keys \cup {None},
            since : Nat, began : Nat, tries : 0 .. SDK_RETRIES]

Timed ==
  /\ now \in Nat
  /\ req \in [Handlers -> Request]
  /\ \A h \in Handlers : InTime(req[h]) /\ req[h].since <= now /\ req[h].began <= now

TimeInv == Timed /\ TimeIsBounded

\* Attempts within the limit, one after the other, stay within their sum.
LEMMA AttemptsAddUp ==
  ASSUME NEW tries \in 0 .. SDK_RETRIES
  PROVE  /\ tries * request_timeout_seconds \in Nat
         /\ tries * request_timeout_seconds + request_timeout_seconds
              <= (SDK_RETRIES + 1) * request_timeout_seconds
         /\ (tries + 1) * request_timeout_seconds
              = tries * request_timeout_seconds + request_timeout_seconds
         /\ (SDK_RETRIES + 1) * request_timeout_seconds \in Nat
PROOF
<1>1. ASSUME NEW a \in Nat, NEW b \in Nat, NEW t \in Nat, a <= b
      PROVE  /\ a * t \in Nat /\ (b + 1) * t \in Nat /\ a * t + t <= (b + 1) * t
             /\ (a + 1) * t = a * t + t
  <2>1. /\ a * t \in Nat /\ b * t \in Nat /\ (b - a) * t \in Nat
        /\ (b + 1) * t = b * t + t /\ (a + 1) * t = a * t + t
        /\ b * t = a * t + (b - a) * t
    BY <1>1, Z3
  <2>. QED BY <2>1
<1>2. /\ tries \in Nat /\ SDK_RETRIES \in Nat /\ tries <= SDK_RETRIES
      /\ request_timeout_seconds \in Nat
  BY ServiceAssumption
<1>. QED BY <1>1, <1>2

\* A step that changes what one handler waits for, and not the time.
LEMMA OneChanges ==
  ASSUME Timed, NEW h \in Handlers, NEW q \in Request,
         req' = [req EXCEPT ![h] = q], now' = now,
         q.since <= now, q.began <= now, InTime(q)
  PROVE  Timed'
PROOF
<1>1. req' \in [Handlers -> Request]
  BY DEF Timed
<1>2. ASSUME NEW i \in Handlers
      PROVE  InTime(req[i])' /\ req'[i].since <= now' /\ req'[i].began <= now'
  <2>1. CASE i = h
    <3>1. req'[i] = q
      BY <2>1 DEF Timed
    <3>. QED BY <3>1 DEF InTime
  <2>2. CASE i # h
    <3>1. req'[i] = req[i]
      BY <2>2 DEF Timed
    <3>2. InTime(req[i]) /\ req[i].since <= now /\ req[i].began <= now
      BY DEF Timed
    <3>. QED BY <3>1, <3>2 DEF InTime
  <2>. QED BY <2>1, <2>2
<1>. QED BY <1>1, <1>2 DEF Timed

\* A handler that answers is idle again, and its answer took what it may take.
LEMMA AnswersInTime ==
  ASSUME TimeInv, NEW h \in Handlers, NEW source, NEW of, NEW age,
         req[h].stage # "idle", Answers(h, source, of, age), now' = now
  PROVE  TimeInv'
PROOF
<1>1. Idle \in Request /\ Idle.since <= now /\ Idle.began <= now /\ InTime(Idle)
  BY ServiceAssumption DEF Idle, Request, InTime, TimeInv, Timed
<1>2. Timed'
  BY <1>1, OneChanges DEF TimeInv, Answers
<1>3. /\ reply'.took = now - req[h].since
      /\ reply'.calls = IF req[h].stage = "first" THEN 1 ELSE 2
  BY DEF Answers
<1>4. /\ req[h] \in Request /\ InTime(req[h]) /\ now \in Nat
      /\ req[h].since \in Nat /\ req[h].began \in Nat /\ req[h].tries \in 0 .. SDK_RETRIES
  BY DEF TimeInv, Timed, Request
<1>5. /\ request_timeout_seconds \in Nat /\ retry_budget_seconds \in Nat
      /\ req[h].tries * request_timeout_seconds \in Nat
      /\ req[h].tries * request_timeout_seconds + request_timeout_seconds
           <= (SDK_RETRIES + 1) * request_timeout_seconds
      /\ (SDK_RETRIES + 1) * request_timeout_seconds \in Nat
  BY <1>4, AttemptsAddUp, ServiceAssumption
<1>6. CASE req[h].stage = "first"
  BY <1>2, <1>3, <1>4, <1>5, <1>6 DEF TimeInv, TimeIsBounded, InTime
<1>7. CASE req[h].stage # "first"
  <2>1. req[h].stage = "second"
    BY <1>4, <1>7 DEF Request
  <2>. QED BY <1>2, <1>3, <1>4, <1>5, <2>1 DEF TimeInv, TimeIsBounded, InTime
<1>. QED BY <1>6, <1>7

\* No answer, or one from the cache, takes no time.
LEMMA NoTimeTaken ==
  ASSUME reply'.took = 0, reply'.calls = 0
  PROVE  TimeIsBounded'
PROOF
<1>1. 0 \in 0 .. SDK_RETRIES
  BY ServiceAssumption
<1>2. (SDK_RETRIES + 1) * request_timeout_seconds \in Nat
  BY <1>1, AttemptsAddUp
<1>. QED BY <1>2, ServiceAssumption DEF TimeIsBounded

\* A call starts now, for a request that has not used up the time before it.
LEMMA CallsInTime ==
  ASSUME TimeInv, NEW h \in Handlers, NEW key \in Keys \cup {None}, NEW since \in Nat,
         NEW stage \in {"first", "second"}, Calls(h, stage, key, since), now' = now, Silent,
         since <= now,
         stage = "first" => since = now,
         stage = "second" => now <= since + (SDK_RETRIES + 1) * request_timeout_seconds
  PROVE  TimeInv'
PROOF
<1> DEFINE q == [stage |-> stage, key |-> key, since |-> since, began |-> now, tries |-> 0]
<1>1. /\ q.stage = stage /\ q.since = since /\ q.began = now /\ q.tries = 0
      /\ q.began \in Nat /\ q.since \in Nat /\ now \in Nat
  BY DEF TimeInv, Timed
<1>2. q \in Request
  BY <1>1, ServiceAssumption DEF Request
<1>3. req' = [req EXCEPT ![h] = q]
  BY DEF Calls
<1> HIDE DEF q
<1>4. 0 * request_timeout_seconds = 0
  BY ServiceAssumption
<1>5. InTime(q)
  <2>1. CASE stage = "first"
    BY <1>1, <1>4, <2>1, ServiceAssumption DEF InTime
  <2>2. CASE stage = "second"
    BY <1>1, <2>2, ServiceAssumption DEF InTime
  <2>. QED BY <2>1, <2>2
<1>6. Timed'
  <2>1. q.since <= now /\ q.began <= now /\ Timed
    BY <1>1 DEF TimeInv
  <2>. QED BY <1>2, <1>3, <1>5, <2>1, OneChanges
<1>7. TimeIsBounded'
  BY NoTimeTaken DEF Silent, NoReply
<1>. QED BY <1>6, <1>7 DEF TimeInv

LEMMA TimeStep == TimeInv /\ [Next]_vars => TimeInv'
PROOF
<1> SUFFICES ASSUME TimeInv, [Next]_vars PROVE TimeInv'
  OBVIOUS
<1>1. /\ now \in Nat /\ req \in [Handlers -> Request]
      /\ \A h \in Handlers : /\ InTime(req[h]) /\ req[h].since <= now /\ req[h].began <= now
                             /\ req[h].stage \in {"idle", "first", "second"}
                             /\ req[h].key \in Keys \cup {None}
                             /\ req[h].since \in Nat /\ req[h].began \in Nat
                             /\ req[h].tries \in 0 .. SDK_RETRIES
  BY DEF TimeInv, Timed, Request
<1>2. request_timeout_seconds \in Nat /\ retry_budget_seconds \in Nat /\ SDK_RETRIES \in Nat
  BY ServiceAssumption
<1>3. ASSUME NEW h \in Handlers, NEW key \in Keys, AskPrediction(h, key) PROVE TimeInv'
  <2>1. CASE Miss(h, key)
    BY <1>1, <1>3, <2>1, CallsInTime DEF Miss, AskPrediction
  <2>2. CASE ~ Miss(h, key)
    <3>1. req' = req /\ now' = now /\ reply'.took = 0 /\ reply'.calls = 0
      BY <1>3, <2>2 DEF AskPrediction, NoReply
    <3>2. Timed'
      BY <3>1 DEF TimeInv, Timed, InTime
    <3>. QED BY <3>1, <3>2, NoTimeTaken DEF TimeInv
  <2>. QED BY <2>1, <2>2
<1>4. ASSUME NEW h \in Handlers, AskHint(h) PROVE TimeInv'
  <2>1. Calls(h, "first", None, now) /\ now' = now /\ Silent /\ now <= now /\ now \in Nat
    BY <1>1, <1>4 DEF AskHint
  <2>. QED BY <2>1, CallsInTime
<1>5. ASSUME NEW h \in Handlers, Valid(h) PROVE TimeInv'
  BY <1>5, AnswersInTime DEF Valid
<1>6. ASSUME NEW h \in Handlers, Invalid(h) PROVE TimeInv'
  <2>1. CASE mayRetry(req[h])
    <3>1. req[h].stage = "first"
      BY <2>1 DEF mayRetry
    <3>2. now <= req[h].since + (SDK_RETRIES + 1) * request_timeout_seconds
      <4>1. /\ req[h].began <= req[h].since + req[h].tries * request_timeout_seconds
            /\ now <= req[h].began + request_timeout_seconds
        BY <1>1, <3>1 DEF InTime
      <4>2. /\ req[h].tries * request_timeout_seconds \in Nat
            /\ req[h].tries * request_timeout_seconds + request_timeout_seconds
                 <= (SDK_RETRIES + 1) * request_timeout_seconds
            /\ (SDK_RETRIES + 1) * request_timeout_seconds \in Nat
        BY <1>1, AttemptsAddUp
      <4>. QED BY <1>1, <1>2, <4>1, <4>2
    <3>3. Calls(h, "second", None, req[h].since) /\ Silent /\ now' = now
      BY <1>6, <2>1 DEF Invalid
    <3>. QED BY <1>1, <3>2, <3>3, CallsInTime
  <2>2. CASE ~ mayRetry(req[h])
    BY <1>6, <2>2, AnswersInTime DEF Invalid
  <2>. QED BY <2>1, <2>2
<1>7. ASSUME NEW h \in Handlers, SdkRetries(h) PROVE TimeInv'
  <2> DEFINE q == [req[h] EXCEPT !.began = now, !.tries = @ + 1]
  <2>1. /\ q.stage = "first" /\ q.since = req[h].since /\ q.began = now
        /\ q.tries = req[h].tries + 1 /\ q \in Request
    BY <1>1, <1>2, <1>7 DEF SdkRetries, Request
  <2>2. req' = [req EXCEPT ![h] = q] /\ now' = now /\ reply' = NoReply
    BY <1>1, <1>7 DEF SdkRetries, Silent
  <2> HIDE DEF q
  <2>3. now <= q.since + q.tries * request_timeout_seconds
    <3>1. /\ req[h].began <= req[h].since + req[h].tries * request_timeout_seconds
          /\ now <= req[h].began + request_timeout_seconds
      BY <1>1, <1>7 DEF InTime, SdkRetries
    <3>2. /\ req[h].tries * request_timeout_seconds \in Nat
          /\ (req[h].tries + 1) * request_timeout_seconds
               = req[h].tries * request_timeout_seconds + request_timeout_seconds
      BY <1>1, AttemptsAddUp
    <3>. QED BY <1>1, <1>2, <2>1, <3>1, <3>2
  <2>4. InTime(q)
    BY <1>1, <1>2, <2>1, <2>3 DEF InTime
  <2>5. Timed'
    <3>1. q.since <= now /\ q.began <= now /\ Timed /\ q \in Request
      BY <1>1, <2>1 DEF TimeInv
    <3>. QED BY <2>2, <2>4, <3>1, OneChanges
  <2>. QED BY <2>2, <2>5, NoTimeTaken DEF TimeInv, NoReply
<1>8. ASSUME NEW h \in Handlers, CallFails(h) PROVE TimeInv'
  BY <1>8, AnswersInTime DEF CallFails
<1>9. CASE Tick
  <2>1. req' = req /\ now' = now + 1 /\ reply' = NoReply
    BY <1>9 DEF Tick, Silent
  <2>2. ASSUME NEW h \in Handlers PROVE InTime(req[h])'
    <3>1. req[h].stage # "idle" => now < req[h].began + timeLimit(req[h].stage)
      BY <1>9 DEF Tick
    <3>. QED BY <1>1, <1>2, <2>1, <3>1 DEF InTime, timeLimit
  <2>3. Timed'
    BY <1>1, <2>1, <2>2 DEF Timed
  <2>. QED BY <2>1, <2>3, NoTimeTaken DEF TimeInv, NoReply
<1>10. CASE UNCHANGED vars
  BY <1>10 DEF vars, TimeInv, Timed, InTime, TimeIsBounded
<1>. QED BY <1>3, <1>4, <1>5, <1>6, <1>7, <1>8, <1>9, <1>10 DEF Next

LEMMA TimeInit == Init => TimeInv
PROOF
<1> SUFFICES ASSUME Init PROVE TimeInv
  OBVIOUS
<1>1. Idle \in Request /\ InTime(Idle) /\ now = 0
  BY ServiceAssumption DEF Idle, Request, InTime, Init
<1>2. Timed
  BY <1>1 DEF Init, Timed, Idle
<1>3. TimeIsBounded
  <2>1. 0 \in 0 .. SDK_RETRIES
    BY ServiceAssumption
  <2>2. (SDK_RETRIES + 1) * request_timeout_seconds \in Nat
    BY <2>1, AttemptsAddUp
  <2>. QED BY <2>2, ServiceAssumption DEF TimeIsBounded, Init, NoReply
<1>. QED BY <1>2, <1>3 DEF TimeInv

\* No request of the service (call_with_bounded_retry) makes more than two
\* calls of its own, and none waits longer than the attempts of its first call
\* and the budget of its second may take together, whatever the limits are.
THEOREM TimeBounded == Spec => []TimeIsBounded
PROOF
<1>1. TimeInv => TimeIsBounded
  BY DEF TimeInv
<1>. QED BY <1>1, TimeInit, TimeStep, PTL DEF Spec

----------------------------------------------------------------------------
(* What the cache holds, in which order, and what it has dropped            *)

Entry == [key : Keys, born : Nat, expires : Nat]

Among(s, key) == \E i \in 1 .. Len(s) : s[i].key = key

\* s holds each key once, u each use once, and s is in the order of u.
InUseOrder(s, u) ==
  /\ \A i, j \in 1 .. Len(s) : s[i].key = s[j].key => i = j
  /\ \A c, d \in 1 .. Len(u) : u[c] = u[d] => c = d
  /\ \A i \in 1 .. Len(s) : \E c \in 1 .. Len(u) : u[c] = s[i].key
  /\ \A i, j \in 1 .. Len(s) : \A c, d \in 1 .. Len(u) :
       i < j /\ u[c] = s[i].key /\ u[d] = s[j].key => c < d

\* Each entry expires when it was last set to, a lifetime after it was made.
RightlyTimed(s, k, n) ==
  \A i \in 1 .. Len(s) : /\ s[i].expires = k[s[i].key]
                         /\ s[i].expires = s[i].born + CACHE_TTL_SECONDS
                         /\ s[i].born <= n

\* What is gone although it was used after something that is there has expired.
RightlyGone(s, u, k, n) ==
  \A c, d \in 1 .. Len(u) :
    d < c /\ Among(s, u[d]) /\ ~ Among(s, u[c]) /\ k[u[c]] # 0 => n > k[u[c]]

Consistent(s, u, k, n) ==
  /\ s \in Seq(Entry) /\ u \in Seq(Keys)
  /\ InUseOrder(s, u) /\ RightlyTimed(s, k, n) /\ RightlyGone(s, u, k, n)

\* t is s with some of its elements left out.
Thinned(t, s) ==
  \E f \in [1 .. Len(t) -> 1 .. Len(s)] :
    /\ \A i, j \in 1 .. Len(t) : i < j => f[i] < f[j]
    /\ \A i \in 1 .. Len(t) : t[i] = s[f[i]]

\* RemoveAt leaves out one element and keeps the others in their order.
LEMMA Removing ==
  ASSUME NEW S, NEW s \in Seq(S), NEW i \in 1 .. Len(s)
  PROVE  /\ RemoveAt(s, i) \in Seq(S)
         /\ Len(RemoveAt(s, i)) = Len(s) - 1
         /\ \A j \in 1 .. Len(s) - 1 :
              RemoveAt(s, i)[j] = IF j < i THEN s[j] ELSE s[j + 1]
         /\ Thinned(RemoveAt(s, i), s)
PROOF
<1> DEFINE t == RemoveAt(s, i)
           f == [j \in 1 .. Len(s) - 1 |-> IF j < i THEN j ELSE j + 1]
<1>1. /\ SubSeq(s, 1, i - 1) \in Seq(S) /\ SubSeq(s, i + 1, Len(s)) \in Seq(S)
      /\ Len(SubSeq(s, 1, i - 1)) = i - 1 /\ Len(SubSeq(s, i + 1, Len(s))) = Len(s) - i
      /\ \A j \in 1 .. i - 1 : SubSeq(s, 1, i - 1)[j] = s[j]
      /\ \A j \in 1 .. Len(s) - i : SubSeq(s, i + 1, Len(s))[j] = s[i + j]
  OBVIOUS
<1>2. /\ t \in Seq(S) /\ Len(t) = Len(s) - 1
      /\ \A j \in 1 .. Len(s) - 1 : t[j] = IF j < i THEN s[j] ELSE s[j + 1]
  <2> DEFINE a == SubSeq(s, 1, i - 1)
             b == SubSeq(s, i + 1, Len(s))
  <2>1. /\ a \in Seq(S) /\ b \in Seq(S) /\ Len(a) = i - 1 /\ Len(b) = Len(s) - i
        /\ Len(s) \in Nat /\ i \in Nat
        /\ \A j \in 1 .. i - 1 : a[j] = s[j]
        /\ \A j \in 1 .. Len(s) - i : b[j] = s[i + j]
    BY <1>1
  <2>2. t = a \o b
    BY DEF RemoveAt
  <2> HIDE DEF a, b, t
  <2>3. /\ t \in Seq(S) /\ Len(t) = Len(a) + Len(b)
        /\ \A j \in 1 .. Len(a) + Len(b) :
             t[j] = IF j <= Len(a) THEN a[j] ELSE b[j - Len(a)]
    BY <2>1, <2>2, ConcatProperties
  <2>4. ASSUME NEW j \in 1 .. Len(s) - 1, j >= i PROVE t[j] = s[j + 1]
    <3>1. j - (i - 1) \in 1 .. Len(s) - i /\ i + (j - (i - 1)) = j + 1
      BY <2>1, <2>4
    <3>2. t[j] = b[j - (i - 1)]
      <4>1. j \in 1 .. Len(a) + Len(b) /\ ~ j <= Len(a)
        BY <2>1, <2>4
      <4>2. t[j] = b[j - Len(a)]
        BY ONLY <2>3, <4>1
      <4>. QED BY <2>1, <4>2
    <3>3. b[j - (i - 1)] = s[i + (j - (i - 1))]
      BY ONLY <2>1, <3>1
    <3>. QED BY <3>1, <3>2, <3>3
  <2>5. ASSUME NEW j \in 1 .. Len(s) - 1, j < i PROVE t[j] = s[j]
    <3>1. j \in 1 .. Len(a) + Len(b) /\ j <= Len(a) /\ j \in 1 .. i - 1
      BY <2>1, <2>5
    <3>. QED BY <2>1, <2>3, <3>1
  <2>6. Len(t) = Len(s) - 1
    BY <2>1, <2>3
  <2>7. ASSUME NEW j \in 1 .. Len(s) - 1
        PROVE  t[j] = IF j < i THEN s[j] ELSE s[j + 1]
    <3>1. CASE j < i
      BY <2>5, <3>1
    <3>2. CASE ~ j < i
      <4>1. j >= i
        BY <2>1, <3>2
      <4>. QED BY <2>4, <3>2, <4>1
    <3>. QED BY <3>1, <3>2
  <2>. QED BY <2>3, <2>6, <2>7
<1> HIDE DEF t
<1>3. f \in [1 .. Len(t) -> 1 .. Len(s)]
  BY <1>2
<1>4. /\ \A j, l \in 1 .. Len(t) : j < l => f[j] < f[l]
      /\ \A j \in 1 .. Len(t) : t[j] = s[f[j]]
  BY <1>2
<1>5. Thinned(t, s)
  BY <1>3, <1>4 DEF Thinned
<1>. QED BY <1>2, <1>5 DEF t

LEMMA ThinnedBySelf == ASSUME NEW S, NEW s \in Seq(S) PROVE Thinned(s, s)
PROOF
<1> DEFINE f == [j \in 1 .. Len(s) |-> j]
<1>1. /\ f \in [1 .. Len(s) -> 1 .. Len(s)]
      /\ \A j, l \in 1 .. Len(s) : j < l => f[j] < f[l]
      /\ \A j \in 1 .. Len(s) : s[j] = s[f[j]]
  OBVIOUS
<1>. QED BY <1>1 DEF Thinned

\* A map that rises keeps the order both ways.
LEMMA RisingMap ==
  ASSUME NEW m \in Nat, NEW n \in Nat, NEW f \in [1 .. m -> 1 .. n],
         \A i, j \in 1 .. m : i < j => f[i] < f[j]
  PROVE  \A i, j \in 1 .. m : (f[i] = f[j] => i = j) /\ (f[i] < f[j] => i < j)
PROOF
<1> SUFFICES ASSUME NEW i \in 1 .. m, NEW j \in 1 .. m
             PROVE  (f[i] = f[j] => i = j) /\ (f[i] < f[j] => i < j)
  OBVIOUS
<1>1. f[i] \in Int /\ f[j] \in Int /\ (i < j => f[i] < f[j]) /\ (j < i => f[j] < f[i])
  OBVIOUS
<1>. QED BY <1>1

\* Leaving entries or uses out keeps the order, and keeps a cache consistent if
\* what was left out of the entries has expired or was used before the rest.
LEMMA Thinning ==
  ASSUME NEW s, NEW u, NEW k, NEW n, Consistent(s, u, k, n),
         NEW t \in Seq(Entry), NEW v \in Seq(Keys), Thinned(t, s), Thinned(v, u),
         \A i \in 1 .. Len(t) : \E c \in 1 .. Len(v) : v[c] = t[i].key,
         \A c, d \in 1 .. Len(v) :
           (d < c /\ Among(t, v[d]) /\ ~ Among(t, v[c]) /\ Among(s, v[c]) /\ k[v[c]] # 0)
             => n > k[v[c]]
  PROVE  Consistent(t, v, k, n)
PROOF
<1>1. PICK f \in [1 .. Len(t) -> 1 .. Len(s)] :
        /\ \A i, j \in 1 .. Len(t) : i < j => f[i] < f[j]
        /\ \A i \in 1 .. Len(t) : t[i] = s[f[i]]
  BY DEF Thinned
<1>2. PICK g \in [1 .. Len(v) -> 1 .. Len(u)] :
        /\ \A i, j \in 1 .. Len(v) : i < j => g[i] < g[j]
        /\ \A i \in 1 .. Len(v) : v[i] = u[g[i]]
  BY DEF Thinned
<1>3. /\ Len(t) \in Nat /\ Len(v) \in Nat /\ Len(s) \in Nat /\ Len(u) \in Nat
      /\ \A i \in 1 .. Len(t) : f[i] \in 1 .. Len(s) /\ t[i].key = s[f[i]].key
      /\ \A i \in 1 .. Len(v) : g[i] \in 1 .. Len(u)
  <2>1. s \in Seq(Entry) /\ u \in Seq(Keys)
    BY DEF Consistent
  <2>2. /\ Len(t) \in Nat /\ Len(v) \in Nat /\ Len(s) \in Nat /\ Len(u) \in Nat
    BY <2>1
  <2>3. ASSUME NEW i \in 1 .. Len(t) PROVE f[i] \in 1 .. Len(s) /\ t[i] = s[f[i]]
    BY <1>1
  <2>4. ASSUME NEW i \in 1 .. Len(v) PROVE g[i] \in 1 .. Len(u)
    OBVIOUS
  <2>. QED BY <2>2, <2>3, <2>4
<1>4. InUseOrder(t, v)
  <2>1. \A i, j \in 1 .. Len(t) : (f[i] = f[j] => i = j) /\ (f[i] < f[j] => i < j)
    BY <1>1, <1>3, RisingMap
  <2>2. \A i, j \in 1 .. Len(v) : (g[i] = g[j] => i = j) /\ (g[i] < g[j] => i < j)
    BY <1>2, <1>3, RisingMap
  <2>3. /\ \A i, j \in 1 .. Len(s) : s[i].key = s[j].key => i = j
        /\ \A c, d \in 1 .. Len(u) : u[c] = u[d] => c = d
        /\ \A i, j \in 1 .. Len(s) : \A c, d \in 1 .. Len(u) :
             i < j /\ u[c] = s[i].key /\ u[d] = s[j].key => c < d
    BY DEF Consistent, InUseOrder
  <2>4. ASSUME NEW i \in 1 .. Len(t), NEW j \in 1 .. Len(t), t[i].key = t[j].key PROVE i = j
    <3>1. /\ f[i] \in 1 .. Len(s) /\ f[j] \in 1 .. Len(s)
          /\ s[f[i]].key = s[f[j]].key
      BY <1>3, <2>4
    <3>2. f[i] = f[j]
      BY <2>3, <3>1
    <3>. QED BY <2>1, <3>2
  <2>5. ASSUME NEW c \in 1 .. Len(v), NEW d \in 1 .. Len(v), v[c] = v[d] PROVE c = d
    <3>1. /\ g[c] \in 1 .. Len(u) /\ g[d] \in 1 .. Len(u)
          /\ u[g[c]] = u[g[d]]
      BY <1>2, <1>3, <2>5
    <3>2. g[c] = g[d]
      BY <2>3, <3>1
    <3>. QED BY <2>2, <3>2
  <2>6. ASSUME NEW i \in 1 .. Len(t), NEW j \in 1 .. Len(t),
               NEW c \in 1 .. Len(v), NEW d \in 1 .. Len(v),
               i < j, v[c] = t[i].key, v[d] = t[j].key
        PROVE  c < d
    <3>1. /\ f[i] \in 1 .. Len(s) /\ f[j] \in 1 .. Len(s) /\ f[i] < f[j]
          /\ g[c] \in 1 .. Len(u) /\ g[d] \in 1 .. Len(u)
      BY <1>1, <1>3, <2>6
    <3>2. u[g[c]] = s[f[i]].key /\ u[g[d]] = s[f[j]].key
      BY <1>2, <1>3, <2>6
    <3>3. g[c] < g[d]
      BY <2>3, <3>1, <3>2
    <3>. QED BY <2>2, <3>3
  <2>. QED BY <2>4, <2>5, <2>6 DEF InUseOrder
<1>5. RightlyTimed(t, k, n)
  <2>1. ASSUME NEW i \in 1 .. Len(s)
        PROVE  /\ s[i].expires = k[s[i].key] /\ s[i].born <= n
               /\ s[i].expires = s[i].born + CACHE_TTL_SECONDS
    BY DEF Consistent, RightlyTimed
  <2>2. ASSUME NEW i \in 1 .. Len(t)
        PROVE  /\ t[i].expires = k[t[i].key] /\ t[i].born <= n
               /\ t[i].expires = t[i].born + CACHE_TTL_SECONDS
    <3>1. f[i] \in 1 .. Len(s) /\ t[i] = s[f[i]]
      BY <1>1, <1>3
    <3>. QED BY <2>1, <3>1
  <2>. QED BY <2>2 DEF RightlyTimed
<1>6. RightlyGone(t, v, k, n)
  <2> SUFFICES ASSUME NEW c \in 1 .. Len(v), NEW d \in 1 .. Len(v),
                      d < c, Among(t, v[d]), ~ Among(t, v[c]), k[v[c]] # 0
               PROVE  n > k[v[c]]
    BY DEF RightlyGone
  <2>1. CASE Among(s, v[c])
    BY <2>1
  <2>2. CASE ~ Among(s, v[c])
    <3>1. PICK i \in 1 .. Len(t) : t[i].key = v[d]
      BY DEF Among
    <3>2. Among(s, v[d])
      BY <1>3, <3>1 DEF Among
    <3>3. /\ g[d] < g[c] /\ v[c] = u[g[c]] /\ v[d] = u[g[d]]
          /\ g[c] \in 1 .. Len(u) /\ g[d] \in 1 .. Len(u)
      BY <1>2, <1>3
    <3>. QED BY <2>2, <3>2, <3>3 DEF Consistent, RightlyGone
  <2>. QED BY <2>1, <2>2
<1>. QED BY <1>4, <1>5, <1>6 DEF Consistent

Without(s, key) == IF Among(s, key) THEN RemoveAt(s, Place(s, key)) ELSE s

Uttered(u, key) == \E c \in 1 .. Len(u) : u[c] = key
UseOf(u, key) == CHOOSE c \in DOMAIN u : u[c] = key
WithoutUse(u, key) == IF Uttered(u, key) THEN RemoveAt(u, UseOf(u, key)) ELSE u

LEMMA Placed ==
  ASSUME NEW s \in Seq(Entry), NEW key, Among(s, key)
  PROVE  Place(s, key) \in 1 .. Len(s) /\ s[Place(s, key)].key = key
PROOF
<1>1. DOMAIN s = 1 .. Len(s)
  OBVIOUS
<1>. QED BY <1>1 DEF Among, Place

\* What is left of the entries without a key.
LEMMA WithoutKey ==
  ASSUME NEW s \in Seq(Entry), NEW key,
         \A i, j \in 1 .. Len(s) : s[i].key = s[j].key => i = j
  PROVE  /\ Without(s, key) \in Seq(Entry) /\ Thinned(Without(s, key), s)
         /\ ~ Among(Without(s, key), key)
         /\ \A other : other # key /\ Among(s, other) => Among(Without(s, key), other)
         /\ \A other : Among(Without(s, key), other) => Among(s, other)
         /\ Len(Without(s, key)) = IF Among(s, key) THEN Len(s) - 1 ELSE Len(s)
PROOF
<1> DEFINE t == Without(s, key)
           p == Place(s, key)
<1>1. CASE ~ Among(s, key)
  BY <1>1, ThinnedBySelf DEF Without
<1>2. CASE Among(s, key)
  <2>1. p \in 1 .. Len(s) /\ s[p].key = key
    BY <1>2, Placed
  <2>2. t = RemoveAt(s, p)
    BY <1>2 DEF Without
  <2> HIDE DEF p, t
  <2>3. /\ t \in Seq(Entry) /\ Len(t) = Len(s) - 1 /\ Thinned(t, s)
        /\ \A j \in 1 .. Len(s) - 1 : t[j] = IF j < p THEN s[j] ELSE s[j + 1]
    BY <2>1, <2>2, Removing
  <2>4. Len(s) \in Nat
    OBVIOUS
  <2>5. ~ Among(t, key)
    <3>1. SUFFICES ASSUME NEW j \in 1 .. Len(t) PROVE t[j].key # key
      BY DEF Among
    <3>2. /\ j \in 1 .. Len(s) - 1 /\ j \in 1 .. Len(s) /\ j + 1 \in 1 .. Len(s)
          /\ j < p => j # p
          /\ ~ j < p => j + 1 # p
      BY <2>1, <2>3, <2>4
    <3>3. t[j] = IF j < p THEN s[j] ELSE s[j + 1]
      BY <2>3, <3>2
    <3>. QED BY <2>1, <3>2, <3>3
  <2>6. ASSUME NEW other, other # key, Among(s, other) PROVE Among(t, other)
    <3>1. PICK i \in 1 .. Len(s) : s[i].key = other
      BY <2>6 DEF Among
    <3>2. CASE i < p
      <4>1. i \in 1 .. Len(t) /\ t[i] = s[i]
        BY <2>1, <2>3, <2>4, <3>2
      <4>. QED BY <3>1, <4>1 DEF Among
    <3>3. CASE i > p
      <4>1. i - 1 \in 1 .. Len(t) /\ t[i - 1] = s[i]
        BY <2>1, <2>3, <2>4, <3>3
      <4>. QED BY <3>1, <4>1 DEF Among
    <3>. QED BY <2>1, <2>6, <3>1, <3>2, <3>3
  <2>7. ASSUME NEW other, Among(t, other) PROVE Among(s, other)
    BY <2>1, <2>3, <2>4, <2>7 DEF Among
  <2>. QED BY <1>2, <2>3, <2>5, <2>6, <2>7 DEF t
<1>. QED BY <1>1, <1>2

\* The same for the uses.
LEMMA WithoutOneUse ==
  ASSUME NEW u \in Seq(Keys), NEW key,
         \A c, d \in 1 .. Len(u) : u[c] = u[d] => c = d
  PROVE  /\ WithoutUse(u, key) \in Seq(Keys) /\ Thinned(WithoutUse(u, key), u)
         /\ ~ Uttered(WithoutUse(u, key), key)
         /\ \A other : other # key /\ Uttered(u, other) => Uttered(WithoutUse(u, key), other)
PROOF
<1> DEFINE t == WithoutUse(u, key)
           p == UseOf(u, key)
<1>1. CASE ~ Uttered(u, key)
  BY <1>1, ThinnedBySelf DEF WithoutUse
<1>2. CASE Uttered(u, key)
  <2>1. p \in 1 .. Len(u) /\ u[p] = key
    <3>1. DOMAIN u = 1 .. Len(u)
      OBVIOUS
    <3>. QED BY <1>2, <3>1 DEF Uttered, UseOf
  <2>2. t = RemoveAt(u, p)
    BY <1>2 DEF WithoutUse
  <2> HIDE DEF p, t
  <2>3. /\ t \in Seq(Keys) /\ Len(t) = Len(u) - 1 /\ Thinned(t, u)
        /\ \A j \in 1 .. Len(u) - 1 : t[j] = IF j < p THEN u[j] ELSE u[j + 1]
    BY <2>1, <2>2, Removing
  <2>4. Len(u) \in Nat
    OBVIOUS
  <2>5. ~ Uttered(t, key)
    BY <2>1, <2>3, <2>4 DEF Uttered
  <2>6. ASSUME NEW other, other # key, Uttered(u, other) PROVE Uttered(t, other)
    <3>1. PICK i \in 1 .. Len(u) : u[i] = other
      BY <2>6 DEF Uttered
    <3>2. CASE i < p
      <4>1. i \in 1 .. Len(t) /\ t[i] = u[i]
        BY <2>1, <2>3, <2>4, <3>2
      <4>. QED BY <3>1, <4>1 DEF Uttered
    <3>3. CASE i > p
      <4>1. i - 1 \in 1 .. Len(t) /\ t[i - 1] = u[i]
        BY <2>1, <2>3, <2>4, <3>3
      <4>. QED BY <3>1, <4>1 DEF Uttered
    <3>. QED BY <2>1, <2>6, <3>1, <3>2, <3>3
  <2>. QED BY <2>3, <2>5, <2>6 DEF t
<1>. QED BY <1>1, <1>2

\* A key taken out of the entries and of the uses.
LEMMA Forgetting ==
  ASSUME NEW s, NEW u, NEW k, NEW n, NEW key, Consistent(s, u, k, n)
  PROVE  Consistent(Without(s, key), WithoutUse(u, key), k, n)
PROOF
<1> DEFINE t == Without(s, key)
           v == WithoutUse(u, key)
<1>1. /\ s \in Seq(Entry) /\ u \in Seq(Keys)
      /\ \A i, j \in 1 .. Len(s) : s[i].key = s[j].key => i = j
      /\ \A c, d \in 1 .. Len(u) : u[c] = u[d] => c = d
      /\ \A i \in 1 .. Len(s) : \E c \in 1 .. Len(u) : u[c] = s[i].key
  BY DEF Consistent, InUseOrder
<1>2. /\ t \in Seq(Entry) /\ Thinned(t, s) /\ ~ Among(t, key)
      /\ \A other : other # key /\ Among(s, other) => Among(t, other)
      /\ \A other : Among(t, other) => Among(s, other)
  BY <1>1, WithoutKey
<1>3. /\ v \in Seq(Keys) /\ Thinned(v, u) /\ ~ Uttered(v, key)
      /\ \A other : other # key /\ Uttered(u, other) => Uttered(v, other)
  BY <1>1, WithoutOneUse
<1> HIDE DEF t, v
<1>4. ASSUME NEW i \in 1 .. Len(t) PROVE \E c \in 1 .. Len(v) : v[c] = t[i].key
  <2>1. Among(t, t[i].key)
    BY DEF Among
  <2>2. t[i].key # key
    BY <1>2, <2>1
  <2>3. PICK j \in 1 .. Len(s) : s[j].key = t[i].key
    BY <1>2, <2>1 DEF Among
  <2>4. Uttered(u, t[i].key)
    BY <1>1, <2>3 DEF Uttered
  <2>5. Uttered(v, t[i].key)
    BY <1>3, <2>2, <2>4
  <2>. QED BY <2>5 DEF Uttered
<1>5. ASSUME NEW c \in 1 .. Len(v), ~ Among(t, v[c]), Among(s, v[c]) PROVE FALSE
  <2>1. v[c] = key
    BY <1>2, <1>5
  <2>. QED BY <1>3, <2>1 DEF Uttered
<1>6. /\ \A i \in 1 .. Len(t) : \E c \in 1 .. Len(v) : v[c] = t[i].key
      /\ \A c, d \in 1 .. Len(v) :
           (d < c /\ Among(t, v[d]) /\ ~ Among(t, v[c]) /\ Among(s, v[c]) /\ k[v[c]] # 0)
             => n > k[v[c]]
  BY <1>4, <1>5
<1>7. Consistent(t, v, k, n)
  BY <1>2, <1>3, <1>6, Thinning
<1>. QED BY <1>7 DEF t, v

\* A key that was neither there nor in the uses comes in at the end of both.
LEMMA Appending ==
  ASSUME NEW s, NEW u, NEW k, NEW n, NEW e \in Entry, Consistent(s, u, k, n),
         ~ Among(s, e.key), ~ Uttered(u, e.key),
         e.expires = k[e.key], e.expires = e.born + CACHE_TTL_SECONDS, e.born <= n
  PROVE  Consistent(Append(s, e), Append(u, e.key), k, n)
PROOF
<1> DEFINE t == Append(s, e)
           v == Append(u, e.key)
<1>1. s \in Seq(Entry) /\ u \in Seq(Keys) /\ e.key \in Keys
  BY DEF Consistent, Entry
<1>2. /\ t \in Seq(Entry) /\ Len(t) = Len(s) + 1 /\ Len(s) \in Nat
      /\ \A i \in 1 .. Len(s) : t[i] = s[i]
      /\ t[Len(s) + 1] = e
  BY <1>1, AppendProperties
<1>3. /\ v \in Seq(Keys) /\ Len(v) = Len(u) + 1 /\ Len(u) \in Nat
      /\ \A c \in 1 .. Len(u) : v[c] = u[c]
      /\ v[Len(u) + 1] = e.key
  BY <1>1, AppendProperties
<1>4. /\ \A i, j \in 1 .. Len(s) : s[i].key = s[j].key => i = j
      /\ \A c, d \in 1 .. Len(u) : u[c] = u[d] => c = d
      /\ \A i \in 1 .. Len(s) : \E c \in 1 .. Len(u) : u[c] = s[i].key
      /\ \A i, j \in 1 .. Len(s) : \A c, d \in 1 .. Len(u) :
           i < j /\ u[c] = s[i].key /\ u[d] = s[j].key => c < d
      /\ \A i \in 1 .. Len(s) : s[i].key # e.key
      /\ \A c \in 1 .. Len(u) : u[c] # e.key
  BY DEF Consistent, InUseOrder, Among, Uttered
<1> HIDE DEF t, v
<1>5. /\ \A i \in 1 .. Len(t) : \/ i \in 1 .. Len(s) /\ t[i] = s[i]
                                \/ i = Len(s) + 1 /\ t[i] = e
      /\ \A c \in 1 .. Len(v) : \/ c \in 1 .. Len(u) /\ v[c] = u[c]
                                \/ c = Len(u) + 1 /\ v[c] = e.key
      /\ \A c \in 1 .. Len(u) : c \in 1 .. Len(v)
      /\ Len(u) + 1 \in 1 .. Len(v) /\ Len(s) + 1 \in 1 .. Len(t)
  <2>1. \A i \in 1 .. Len(t) : \/ i \in 1 .. Len(s) /\ t[i] = s[i]
                               \/ i = Len(s) + 1 /\ t[i] = e
    BY ONLY <1>2
  <2>2. \A c \in 1 .. Len(v) : \/ c \in 1 .. Len(u) /\ v[c] = u[c]
                               \/ c = Len(u) + 1 /\ v[c] = e.key
    BY ONLY <1>3
  <2>3. /\ \A c \in 1 .. Len(u) : c \in 1 .. Len(v)
        /\ Len(u) + 1 \in 1 .. Len(v) /\ Len(s) + 1 \in 1 .. Len(t)
    BY ONLY <1>2, <1>3
  <2>. QED BY <2>1, <2>2, <2>3
<1>6. InUseOrder(t, v)
  <2>1. \A i, j \in 1 .. Len(t) : t[i].key = t[j].key => i = j
    BY ONLY <1>4, <1>5
  <2>2. \A c, d \in 1 .. Len(v) : v[c] = v[d] => c = d
    BY <1>4, <1>5
  <2>3. ASSUME NEW i \in 1 .. Len(t) PROVE \E c \in 1 .. Len(v) : v[c] = t[i].key
    <3>1. CASE i \in 1 .. Len(s) /\ t[i] = s[i]
      <4>1. PICK c \in 1 .. Len(u) : u[c] = s[i].key
        BY <1>4, <3>1
      <4>2. c \in 1 .. Len(v) /\ v[c] = u[c]
        BY <1>3, <1>5
      <4>. QED BY <3>1, <4>1, <4>2
    <3>2. CASE i = Len(s) + 1 /\ t[i] = e
      BY <1>3, <1>5, <3>2
    <3>. QED BY <1>5, <3>1, <3>2
  <2>4. ASSUME NEW i \in 1 .. Len(t), NEW j \in 1 .. Len(t),
               NEW c \in 1 .. Len(v), NEW d \in 1 .. Len(v),
               i < j, v[c] = t[i].key, v[d] = t[j].key
        PROVE  c < d
    <3>1. i \in 1 .. Len(s) /\ t[i] = s[i]
      BY <1>2, <1>5, <2>4
    <3>2. c \in 1 .. Len(u) /\ v[c] = u[c]
      BY <1>4, <1>5, <2>4, <3>1
    <3>3. CASE j \in 1 .. Len(s) /\ t[j] = s[j]
      <4>1. d \in 1 .. Len(u) /\ v[d] = u[d]
        BY <1>4, <1>5, <2>4, <3>3
      <4>. QED BY <1>4, <2>4, <3>1, <3>2, <3>3, <4>1
    <3>4. CASE j = Len(s) + 1 /\ t[j] = e
      <4>1. d = Len(u) + 1
        BY <1>4, <1>5, <2>4, <3>4
      <4>. QED BY <1>3, <3>2, <4>1
    <3>. QED BY <1>5, <3>3, <3>4
  <2>. QED BY <2>1, <2>2, <2>3, <2>4 DEF InUseOrder
<1>7. RightlyTimed(t, k, n)
  <2>1. \A i \in 1 .. Len(s) : /\ s[i].expires = k[s[i].key] /\ s[i].born <= n
                               /\ s[i].expires = s[i].born + CACHE_TTL_SECONDS
    BY DEF Consistent, RightlyTimed
  <2>2. ASSUME NEW i \in 1 .. Len(t)
        PROVE  /\ t[i].expires = k[t[i].key] /\ t[i].born <= n
               /\ t[i].expires = t[i].born + CACHE_TTL_SECONDS
    BY <1>5, <2>1
  <2>. QED BY <2>2 DEF RightlyTimed
<1>8. RightlyGone(t, v, k, n)
  <2> SUFFICES ASSUME NEW c \in 1 .. Len(v), NEW d \in 1 .. Len(v),
                      d < c, Among(t, v[d]), ~ Among(t, v[c]), k[v[c]] # 0
               PROVE  n > k[v[c]]
    BY DEF RightlyGone
  <2>1. Among(t, e.key) /\ \A key : Among(s, key) => Among(t, key)
    BY <1>2, <1>5 DEF Among
  <2>2. c \in 1 .. Len(u) /\ v[c] = u[c] /\ ~ Among(s, u[c])
    BY <1>5, <2>1
  <2>3. d \in 1 .. Len(u) /\ v[d] = u[d]
    BY <1>3, <1>5, <2>2
  <2>4. Among(s, u[d])
    BY <1>4, <1>5, <2>3 DEF Among
  <2>. QED BY <2>2, <2>3, <2>4 DEF Consistent, RightlyGone
<1>9. Consistent(t, v, k, n)
  BY <1>2, <1>3, <1>6, <1>7, <1>8 DEF Consistent
<1>. QED BY <1>9 DEF t, v

\* What the size limit drops was used before everything that stays.
LEMMA Dropping ==
  ASSUME NEW s, NEW u, NEW k, NEW n, Consistent(s, u, k, n),
         Len(s) <= CACHE_MAX_ENTRIES + 1
  PROVE  Consistent(Evicted(s), u, k, n) /\ Len(Evicted(s)) <= CACHE_MAX_ENTRIES
PROOF
<1>1. s \in Seq(Entry) /\ u \in Seq(Keys) /\ Len(s) \in Nat /\ CACHE_MAX_ENTRIES \in Nat
  BY ServiceAssumption DEF Consistent
<1>2. CASE Len(s) <= CACHE_MAX_ENTRIES
  BY <1>1, <1>2 DEF Evicted
<1>3. CASE Len(s) > CACHE_MAX_ENTRIES
  <2> DEFINE t == SubSeq(s, 2, Len(s))
             f == [j \in 1 .. Len(t) |-> j + 1]
  <2>1. Evicted(s) = t /\ Len(s) = CACHE_MAX_ENTRIES + 1
    <3>1. Len(s) = CACHE_MAX_ENTRIES + 1
      BY <1>1, <1>3
    <3>2. Len(s) - CACHE_MAX_ENTRIES + 1 = 2
      BY <1>1, <3>1
    <3>. QED BY <1>3, <3>1, <3>2 DEF Evicted
  <2>2. /\ t \in Seq(Entry) /\ Len(t) = Len(s) - 1
        /\ \A j \in 1 .. Len(s) - 1 : t[j] = s[j + 1]
    <3>1. \A i \in 2 .. Len(s) : s[i] \in Entry
      BY <1>1
    <3>2. /\ t \in Seq(Entry)
          /\ Len(t) = IF 2 <= Len(s) THEN Len(s) - 2 + 1 ELSE 0
          /\ \A j \in 1 .. Len(s) - 2 + 1 : t[j] = s[2 + j - 1]
      BY <1>1, <3>1, SubSeqProperties
    <3>. QED BY <1>1, <2>1, <3>2
  <2> HIDE DEF t
  <2>3. /\ f \in [1 .. Len(t) -> 1 .. Len(s)]
        /\ \A i, j \in 1 .. Len(t) : i < j => f[i] < f[j]
        /\ \A j \in 1 .. Len(t) : t[j] = s[f[j]]
    BY <1>1, <2>2
  <2> HIDE DEF f
  <2>4. Thinned(t, s) /\ Thinned(u, u)
    <3>1. Thinned(t, s)
      BY <2>3 DEF Thinned
    <3>. QED BY <1>1, <3>1, ThinnedBySelf
  <2>5. \A i \in 1 .. Len(t) : \E c \in 1 .. Len(u) : u[c] = t[i].key
    <3>1. \A i \in 1 .. Len(s) : \E c \in 1 .. Len(u) : u[c] = s[i].key
      BY DEF Consistent, InUseOrder
    <3>2. \A i \in 1 .. Len(t) : i + 1 \in 1 .. Len(s) /\ t[i] = s[i + 1]
      BY <1>1, <2>2
    <3>. QED BY <3>1, <3>2
  <2>6. ASSUME NEW c \in 1 .. Len(u), NEW d \in 1 .. Len(u),
               d < c, Among(t, u[d]), ~ Among(t, u[c]), Among(s, u[c])
        PROVE  FALSE
    <3>1. PICK i \in 1 .. Len(s) : s[i].key = u[c]
      BY <2>6 DEF Among
    <3>2. PICK j \in 1 .. Len(t) : t[j].key = u[d]
      BY <2>6 DEF Among
    <3>3. j + 1 \in 1 .. Len(s) /\ s[j + 1].key = u[d] /\ 1 < j + 1
      <4>1. j \in 1 .. Len(s) - 1 /\ t[j] = s[j + 1]
        BY <2>2
      <4>2. j + 1 \in 1 .. Len(s) /\ 1 < j + 1
        BY <1>1, <4>1
      <4>. QED BY <3>2, <4>1, <4>2
    <3>4. i = 1
      <4>1. i # 1 => i - 1 \in 1 .. Len(t) /\ t[i - 1] = s[i]
        BY <1>1, <2>2
      <4>. QED BY <2>6, <3>1, <4>1 DEF Among
    <3>5. c < d
      BY <3>1, <3>3, <3>4 DEF Consistent, InUseOrder
    <3>. QED BY <2>6, <3>5
  <2>7. Consistent(t, u, k, n)
    <3>1. \A c, d \in 1 .. Len(u) :
            (d < c /\ Among(t, u[d]) /\ ~ Among(t, u[c]) /\ Among(s, u[c]) /\ k[u[c]] # 0)
              => n > k[u[c]]
      BY <2>6
    <3>. QED BY <1>1, <2>2, <2>4, <2>5, <3>1, Thinning
  <2>. QED BY <1>1, <2>1, <2>2, <2>7
<1>. QED BY <1>1, <1>2, <1>3

\* An entry found to have expired may go, whatever was used before it.
LEMMA Expiring ==
  ASSUME NEW s, NEW u, NEW k, NEW n, NEW key, Consistent(s, u, k, n),
         Among(s, key), n > s[Place(s, key)].expires
  PROVE  Consistent(Deleted(s, key), u, k, n)
PROOF
<1> DEFINE t == Without(s, key)
<1>1. /\ s \in Seq(Entry) /\ u \in Seq(Keys)
      /\ \A i, j \in 1 .. Len(s) : s[i].key = s[j].key => i = j
      /\ \A i \in 1 .. Len(s) : \E c \in 1 .. Len(u) : u[c] = s[i].key
      /\ \A i \in 1 .. Len(s) : s[i].expires = k[s[i].key]
  BY DEF Consistent, InUseOrder, RightlyTimed
<1>2. /\ t \in Seq(Entry) /\ Thinned(t, s)
      /\ \A other : other # key /\ Among(s, other) => Among(t, other)
      /\ \A other : Among(t, other) => Among(s, other)
  BY <1>1, WithoutKey
<1>3. t = Deleted(s, key)
  BY DEF Without, Deleted
<1>4. n > k[key]
  BY <1>1, Placed
<1> HIDE DEF t
<1>5. ASSUME NEW i \in 1 .. Len(t) PROVE \E c \in 1 .. Len(u) : u[c] = t[i].key
  <2>1. Among(s, t[i].key)
    BY <1>2 DEF Among
  <2>. QED BY <1>1, <2>1 DEF Among
<1>6. \A c, d \in 1 .. Len(u) :
        (d < c /\ Among(t, u[d]) /\ ~ Among(t, u[c]) /\ Among(s, u[c]) /\ k[u[c]] # 0)
          => n > k[u[c]]
  BY <1>2, <1>4
<1>7. Thinned(u, u)
  BY <1>1, ThinnedBySelf
<1>. QED BY <1>1, <1>2, <1>3, <1>5, <1>6, <1>7, Thinning

----------------------------------------------------------------------------
(* The cache in every state                                                 *)

UsedIfKept == \A key \in Keys : kept[key] # 0 => Uttered(uses, key)

FreshInv ==
  /\ TimeInv /\ now <= Horizon
  /\ Consistent(store, uses, kept, now)
  /\ Len(store) <= CACHE_MAX_ENTRIES
  /\ kept \in [Keys -> Nat] /\ UsedIfKept
  /\ reply.source \in {"none", "ai", "cache", "fallback"}
  /\ ServedFresh

\* The uses with the last of a key moved to the end.
LEMMA UsedIs ==
  ASSUME NEW key, uses \in Seq(Keys), Used(key)
  PROVE  uses' = Append(WithoutUse(uses, key), key)
PROOF
<1>1. DOMAIN uses = 1 .. Len(uses)
  OBVIOUS
<1>2. key \in Range(uses) <=> Uttered(uses, key)
  BY <1>1 DEF Range, Uttered
<1>3. LastUse(key) = UseOf(uses, key)
  BY DEF LastUse, UseOf
<1>. QED BY <1>2, <1>3 DEF Used, WithoutUse

\* An entry assigned and moved to the end: what is left without its key, then it.
LEMMA SetIs ==
  ASSUME NEW s \in Seq(Entry), NEW e \in Entry,
         \A i, j \in 1 .. Len(s) : s[i].key = s[j].key => i = j
  PROVE  MovedToEnd(Assigned(s, e), e) = Append(Without(s, e.key), e)
PROOF
<1> DEFINE a == Assigned(s, e)
           p == Place(s, e.key)
           q == Place(a, e.key)
<1>1. Len(s) \in Nat /\ DOMAIN s = 1 .. Len(s)
  OBVIOUS
<1>2. (\E i \in DOMAIN s : s[i].key = e.key) <=> Among(s, e.key)
  BY <1>1 DEF Among
<1>3. CASE Among(s, e.key)
  <2>1. p \in 1 .. Len(s) /\ s[p].key = e.key
    BY <1>3, Placed
  <2>2. a = [s EXCEPT ![p] = e]
    BY <1>2, <1>3 DEF Assigned
  <2>3. /\ a \in Seq(Entry) /\ Len(a) = Len(s) /\ a[p] = e
        /\ \A i \in 1 .. Len(s) : i # p => a[i] = s[i]
    BY <1>1, <2>1, <2>2
  <2>4. q \in 1 .. Len(s) /\ a[q].key = e.key
    <3>1. Among(a, e.key)
      BY <2>1, <2>3 DEF Among
    <3>. QED BY <2>3, <3>1, Placed
  <2> HIDE DEF a, p
  <2>5. q = p
    BY <2>1, <2>3, <2>4
  <2>6. RemoveAt(a, p) = RemoveAt(s, p)
    <3>1. /\ RemoveAt(a, p) \in Seq(Entry) /\ Len(RemoveAt(a, p)) = Len(s) - 1
          /\ \A j \in 1 .. Len(s) - 1 :
               RemoveAt(a, p)[j] = IF j < p THEN a[j] ELSE a[j + 1]
      BY <2>1, <2>3, Removing
    <3>2. /\ RemoveAt(s, p) \in Seq(Entry) /\ Len(RemoveAt(s, p)) = Len(s) - 1
          /\ \A j \in 1 .. Len(s) - 1 :
               RemoveAt(s, p)[j] = IF j < p THEN s[j] ELSE s[j + 1]
      BY <2>1, Removing
    <3>3. ASSUME NEW j \in 1 .. Len(s) - 1 PROVE RemoveAt(a, p)[j] = RemoveAt(s, p)[j]
      <4>1. CASE j < p
        <5>1. j \in 1 .. Len(s) /\ j # p
          BY <1>1, <2>1, <4>1
        <5>. QED BY <2>3, <3>1, <3>2, <4>1, <5>1
      <4>2. CASE ~ (j < p)
        <5>1. j + 1 \in 1 .. Len(s) /\ j + 1 # p
          BY <1>1, <2>1, <4>2
        <5>. QED BY <2>3, <3>1, <3>2, <4>2, <5>1
      <4>. QED BY <4>1, <4>2
    <3>. QED BY <3>1, <3>2, <3>3, SeqEqual
  <2>. QED BY <1>3, <2>5, <2>6 DEF MovedToEnd, Deleted, Without, a, p
<1>4. CASE ~ Among(s, e.key)
  <2>1. a = Append(s, e)
    BY <1>2, <1>4 DEF Assigned
  <2>2. /\ a \in Seq(Entry) /\ Len(a) = Len(s) + 1
        /\ \A i \in 1 .. Len(s) : a[i] = s[i]
        /\ a[Len(s) + 1] = e
    BY <2>1, AppendProperties
  <2>3. q = Len(s) + 1
    <3>1. Among(a, e.key)
      BY <1>1, <2>2 DEF Among
    <3>2. q \in 1 .. Len(s) + 1 /\ a[q].key = e.key
      BY <2>2, <3>1, Placed
    <3>3. ASSUME q \in 1 .. Len(s) PROVE FALSE
      BY <1>4, <2>2, <3>2, <3>3 DEF Among
    <3>. QED BY <1>1, <3>2, <3>3
  <2> HIDE DEF a
  <2>4. RemoveAt(a, Len(s) + 1) = s
    <3>1. Len(s) + 1 \in 1 .. Len(a)
      BY <1>1, <2>2
    <3>2. /\ RemoveAt(a, Len(s) + 1) \in Seq(Entry)
          /\ Len(RemoveAt(a, Len(s) + 1)) = Len(a) - 1
          /\ \A j \in 1 .. Len(a) - 1 :
               RemoveAt(a, Len(s) + 1)[j] = IF j < Len(s) + 1 THEN a[j] ELSE a[j + 1]
      BY <2>2, <3>1, Removing
    <3>3. Len(a) - 1 = Len(s) /\ \A j \in 1 .. Len(s) : j < Len(s) + 1
      BY <1>1, <2>2
    <3>4. \A j \in 1 .. Len(s) : RemoveAt(a, Len(s) + 1)[j] = s[j]
      BY <2>2, <3>2, <3>3
    <3>. QED BY <3>2, <3>3, <3>4, SeqEqual
  <2>. QED BY <1>4, <2>3, <2>4 DEF MovedToEnd, Deleted, Without, a
<1>. QED BY <1>3, <1>4

\* Setting an entry, now, keeps the cache in order and within its size.
LEMMA Setting ==
  ASSUME FreshInv, NEW key \in Keys, CacheSet(key)
  PROVE  /\ Consistent(store', uses', kept', now)
         /\ Len(store') <= CACHE_MAX_ENTRIES
         /\ kept' \in [Keys -> Nat] /\ UsedIfKept'
PROOF
<1> DEFINE e == [key |-> key, born |-> now, expires |-> now + CACHE_TTL_SECONDS]
           s == Without(store, key)
           u == WithoutUse(uses, key)
<1>1. /\ store \in Seq(Entry) /\ uses \in Seq(Keys) /\ now \in Nat
      /\ \A i, j \in 1 .. Len(store) : store[i].key = store[j].key => i = j
      /\ \A c, d \in 1 .. Len(uses) : uses[c] = uses[d] => c = d
      /\ kept \in [Keys -> Nat] /\ Len(store) \in Nat /\ Len(store) <= CACHE_MAX_ENTRIES
      /\ CACHE_TTL_SECONDS \in Nat /\ CACHE_MAX_ENTRIES \in Nat
  BY ServiceAssumption DEF FreshInv, Consistent, InUseOrder, TimeInv, Timed
<1>2. /\ e \in Entry /\ e.key = key /\ e.born = now
      /\ e.expires = now + CACHE_TTL_SECONDS /\ e.expires \in Nat
  BY <1>1 DEF Entry
<1>3. /\ store' = Evicted(MovedToEnd(Assigned(store, e), e))
      /\ kept' = [kept EXCEPT ![key] = e.expires]
      /\ Used(key)
  BY DEF CacheSet
<1> HIDE DEF e
<1>4. store' = Evicted(Append(s, e))
  <2>1. MovedToEnd(Assigned(store, e), e) = Append(Without(store, e.key), e)
    BY <1>1, <1>2, SetIs
  <2>. QED BY <1>2, <1>3, <2>1
<1>5. uses' = Append(u, e.key)
  BY <1>1, <1>2, <1>3, UsedIs
<1>6. /\ s \in Seq(Entry) /\ ~ Among(s, key) /\ Len(s) <= Len(store) /\ Len(s) \in Nat
  <2>1. /\ s \in Seq(Entry) /\ ~ Among(s, key)
        /\ Len(s) = IF Among(store, key) THEN Len(store) - 1 ELSE Len(store)
    BY <1>1, WithoutKey
  <2>. QED BY <1>1, <2>1
<1>7. /\ u \in Seq(Keys) /\ ~ Uttered(u, key)
      /\ \A other : other # key /\ Uttered(uses, other) => Uttered(u, other)
  BY <1>1, WithoutOneUse
<1>8. Consistent(s, u, kept, now)
  BY Forgetting DEF FreshInv
<1> HIDE DEF s, u
<1>9. Consistent(s, u, kept', now)
  <2>1. /\ \A i \in 1 .. Len(s) : s[i].key # key /\ s[i].key \in Keys
        /\ \A c \in 1 .. Len(u) : u[c] # key /\ u[c] \in Keys
    <3>1. ASSUME NEW i \in 1 .. Len(s) PROVE s[i].key # key /\ s[i].key \in Keys
      <4>1. s[i] \in Entry
        BY <1>6
      <4>. QED BY <1>6, <4>1 DEF Among, Entry
    <3>2. ASSUME NEW c \in 1 .. Len(u) PROVE u[c] # key /\ u[c] \in Keys
      BY <1>7 DEF Uttered
    <3>. QED BY <3>1, <3>2
  <2>2. \A other \in Keys : other # key => kept'[other] = kept[other]
    BY <1>1, <1>3
  <2>3. RightlyTimed(s, kept', now)
    BY <1>8, <2>1, <2>2 DEF Consistent, RightlyTimed
  <2>4. RightlyGone(s, u, kept', now)
    BY <1>8, <2>1, <2>2 DEF Consistent, RightlyGone
  <2>. QED BY <1>8, <2>3, <2>4 DEF Consistent
<1>10. kept'[key] = e.expires /\ kept' \in [Keys -> Nat]
  BY <1>1, <1>2, <1>3
<1>11. Consistent(Append(s, e), Append(u, e.key), kept', now)
  <2>1. e.born <= now /\ e.expires = kept'[e.key] /\ e.expires = e.born + CACHE_TTL_SECONDS
    BY <1>1, <1>2, <1>10
  <2>2. ~ Among(s, e.key) /\ ~ Uttered(u, e.key)
    BY <1>2, <1>6, <1>7
  <2>. QED BY <1>2, <1>9, <2>1, <2>2, Appending
<1>12. Len(Append(s, e)) <= CACHE_MAX_ENTRIES + 1
  BY <1>1, <1>2, <1>6, AppendProperties
<1>13. UsedIfKept'
  <2> SUFFICES ASSUME NEW other \in Keys, kept'[other] # 0 PROVE Uttered(uses', other)
    BY DEF UsedIfKept, Uttered
  <2>1. /\ Len(uses') = Len(u) + 1 /\ Len(u) \in Nat
        /\ \A c \in 1 .. Len(u) : uses'[c] = u[c]
        /\ uses'[Len(u) + 1] = key
    BY <1>2, <1>5, <1>7, AppendProperties
  <2>2. CASE other = key
    BY <2>1, <2>2 DEF Uttered
  <2>3. CASE other # key
    <3>1. Uttered(u, other)
      BY <1>1, <1>3, <1>7, <2>3 DEF FreshInv, UsedIfKept
    <3>. QED BY <2>1, <3>1 DEF Uttered
  <2>. QED BY <2>2, <2>3
<1>. QED BY <1>4, <1>5, <1>10, <1>11, <1>12, <1>13, Dropping

\* A hit moves the entry and the use, and a miss deletes what has expired.
LEMMA Getting ==
  ASSUME FreshInv, NEW key \in Keys, Holds(key), CacheGet(key, store[Place(store, key)]),
         kept' = kept
  PROVE  /\ Consistent(store', uses', kept', now)
         /\ Len(store') <= CACHE_MAX_ENTRIES
         /\ kept' \in [Keys -> Nat] /\ UsedIfKept'
         /\ store[Place(store, key)] \in Entry
         /\ store[Place(store, key)].key = key
         /\ store[Place(store, key)].born <= now
         /\ store[Place(store, key)].expires
              = store[Place(store, key)].born + CACHE_TTL_SECONDS
PROOF
<1> DEFINE e == store[Place(store, key)]
           s == Without(store, key)
           u == WithoutUse(uses, key)
<1>1. /\ store \in Seq(Entry) /\ uses \in Seq(Keys) /\ now \in Nat
      /\ \A i, j \in 1 .. Len(store) : store[i].key = store[j].key => i = j
      /\ \A c, d \in 1 .. Len(uses) : uses[c] = uses[d] => c = d
      /\ \A i \in 1 .. Len(store) : /\ store[i].expires = kept[store[i].key]
                                    /\ store[i].expires = store[i].born + CACHE_TTL_SECONDS
                                    /\ store[i].born <= now
      /\ kept \in [Keys -> Nat] /\ Len(store) \in Nat /\ Len(store) <= CACHE_MAX_ENTRIES
      /\ CACHE_TTL_SECONDS \in Nat /\ CACHE_MAX_ENTRIES \in Nat
  BY ServiceAssumption DEF FreshInv, Consistent, InUseOrder, RightlyTimed, TimeInv, Timed
<1>2. Among(store, key)
  <2>1. DOMAIN store = 1 .. Len(store)
    BY <1>1
  <2>. QED BY <2>1 DEF Holds, Among
<1>3. Place(store, key) \in 1 .. Len(store) /\ e.key = key
  BY <1>1, <1>2, Placed
<1>4. /\ e \in Entry /\ e.expires = kept[key] /\ e.born <= now
      /\ e.expires = e.born + CACHE_TTL_SECONDS
  BY <1>1, <1>3
<1>5. /\ s = Deleted(store, key) /\ s \in Seq(Entry) /\ ~ Among(s, key)
      /\ Len(s) = Len(store) - 1
  BY <1>1, <1>2, WithoutKey DEF Without, Deleted
<1> HIDE DEF e, s, u
<1>6. CASE Expired(e)
  <2>1. store' = s /\ uses' = uses
    BY <1>5, <1>6 DEF CacheGet, e
  <2>2. now > store[Place(store, key)].expires
    BY <1>6 DEF Expired, e
  <2>3. Consistent(s, uses, kept, now)
    BY <1>2, <1>5, <2>2, Expiring DEF FreshInv
  <2>4. UsedIfKept'
    BY <2>1 DEF FreshInv, UsedIfKept
  <2>5. Len(s) <= CACHE_MAX_ENTRIES
    BY <1>1, <1>5
  <2>. QED BY <1>1, <1>3, <1>4, <2>1, <2>3, <2>4, <2>5 DEF e
<1>7. CASE ~ Expired(e)
  <2>1. store' = Append(s, e) /\ Used(key)
    <3>1. store' = MovedToEnd(store, e) /\ Used(key)
      BY <1>7 DEF CacheGet, e
    <3>. QED BY <1>3, <1>5, <3>1 DEF MovedToEnd
  <2>2. uses' = Append(u, e.key)
    BY <1>1, <1>3, <2>1, UsedIs DEF u
  <2>3. /\ u \in Seq(Keys) /\ ~ Uttered(u, key)
        /\ \A other : other # key /\ Uttered(uses, other) => Uttered(u, other)
    BY <1>1, WithoutOneUse DEF u
  <2>4. Consistent(s, u, kept, now)
    BY Forgetting DEF FreshInv, s, u
  <2>5. Consistent(Append(s, e), Append(u, e.key), kept, now)
    BY <1>3, <1>4, <1>5, <2>3, <2>4, Appending
  <2>6. Len(Append(s, e)) <= CACHE_MAX_ENTRIES
    BY <1>1, <1>4, <1>5, AppendProperties
  <2>7. UsedIfKept'
    <3> SUFFICES ASSUME NEW other \in Keys, kept[other] # 0 PROVE Uttered(uses', other)
      BY DEF UsedIfKept, Uttered
    <3>1. /\ Len(uses') = Len(u) + 1 /\ Len(u) \in Nat
          /\ \A c \in 1 .. Len(u) : uses'[c] = u[c]
          /\ uses'[Len(u) + 1] = key
      BY <1>3, <2>2, <2>3, AppendProperties
    <3>2. CASE other = key
      BY <3>1, <3>2 DEF Uttered
    <3>3. CASE other # key
      <4>1. Uttered(u, other)
        BY <2>3, <3>3 DEF FreshInv, UsedIfKept
      <4>. QED BY <3>1, <4>1 DEF Uttered
    <3>. QED BY <3>2, <3>3
  <2>. QED BY <1>1, <1>3, <1>4, <2>1, <2>2, <2>5, <2>6, <2>7 DEF e
<1>. QED BY <1>6, <1>7

LEMMA FreshInit == Init => FreshInv
PROOF
<1> SUFFICES ASSUME Init PROVE FreshInv
  OBVIOUS
<1>1. store = <<>> /\ uses = <<>> /\ now = 0 /\ kept = [k \in Keys |-> 0] /\ reply = NoReply
  BY DEF Init
<1>2. Len(store) = 0 /\ Len(uses) = 0 /\ store \in Seq(Entry) /\ uses \in Seq(Keys)
  BY <1>1
<1>3. 1 .. 0 = {}
  OBVIOUS
<1>4. Consistent(store, uses, kept, now)
  BY <1>2, <1>3 DEF Consistent, InUseOrder, RightlyTimed, RightlyGone
<1>5. UsedIfKept
  BY <1>1 DEF UsedIfKept
<1>. QED BY <1>1, <1>2, <1>4, <1>5, TimeInit, ServiceAssumption
         DEF FreshInv, ServedFresh, NoReply

\* Steps that leave the cache alone, later perhaps: what has expired stays so.
LEMMA Untouched ==
  ASSUME FreshInv, CacheUntouched, now' \in Nat, now <= now'
  PROVE  /\ Consistent(store', uses', kept', now')
         /\ Len(store') <= CACHE_MAX_ENTRIES
         /\ kept' \in [Keys -> Nat] /\ UsedIfKept'
PROOF
<1>1. store' = store /\ uses' = uses /\ kept' = kept
  BY DEF CacheUntouched
<1>2. /\ now \in Nat /\ store \in Seq(Entry) /\ uses \in Seq(Keys) /\ kept \in [Keys -> Nat]
      /\ InUseOrder(store, uses) /\ RightlyTimed(store, kept, now)
      /\ RightlyGone(store, uses, kept, now)
  BY DEF FreshInv, Consistent, TimeInv, Timed
<1>3. \A i \in 1 .. Len(store) : store[i].born \in Nat
  <2>1. \A i \in 1 .. Len(store) : store[i] \in Entry
    BY <1>2
  <2>. QED BY <2>1 DEF Entry
<1>4. RightlyTimed(store, kept, now')
  BY <1>2, <1>3 DEF RightlyTimed
<1>5. RightlyGone(store, uses, kept, now')
  <2> SUFFICES ASSUME NEW c \in 1 .. Len(uses), NEW d \in 1 .. Len(uses),
                      d < c, Among(store, uses[d]), ~ Among(store, uses[c]), kept[uses[c]] # 0
               PROVE  now' > kept[uses[c]]
    BY DEF RightlyGone
  <2>1. now > kept[uses[c]]
    BY <1>2 DEF RightlyGone
  <2>2. uses[c] \in Keys /\ kept[uses[c]] \in Nat
    BY <1>2
  <2>. QED BY <1>2, <2>1, <2>2
<1>6. UsedIfKept'
  BY <1>1 DEF FreshInv, UsedIfKept
<1>. QED BY <1>1, <1>2, <1>4, <1>5, <1>6 DEF Consistent, FreshInv

LEMMA FreshStep == FreshInv /\ [Next]_vars => FreshInv'
PROOF
<1> SUFFICES ASSUME FreshInv, [Next]_vars PROVE FreshInv'
  OBVIOUS
<1> DEFINE Cached == /\ Consistent(store', uses', kept', now')
                     /\ Len(store') <= CACHE_MAX_ENTRIES
                     /\ kept' \in [Keys -> Nat] /\ UsedIfKept'
           Told == /\ reply'.source \in {"none", "ai", "cache", "fallback"}
                   /\ ServedFresh'
<1>1. TimeInv'
  BY TimeStep DEF FreshInv
<1>2. now \in Nat /\ now <= Horizon /\ Horizon \in Nat
  BY ServiceAssumption DEF FreshInv, TimeInv, Timed
<1>3. ASSUME now' = now, Cached, Told PROVE FreshInv'
  BY <1>1, <1>2, <1>3 DEF FreshInv
<1>4. ASSUME reply'.source \in {"none", "ai", "fallback"} PROVE Told
  BY <1>4 DEF ServedFresh
<1>5. NoReply.source = "none"
  BY DEF NoReply
<1>6. ASSUME CacheUntouched, now' = now PROVE Cached
  BY <1>2, <1>6, Untouched
<1>7. ASSUME NEW key \in Keys, CacheSet(key), now' = now PROVE Cached
  BY <1>7, Setting
<1>8. ASSUME NEW h, NEW source \in {"ai", "fallback"}, NEW of, NEW age, Answers(h, source, of, age)
      PROVE  reply'.source \in {"none", "ai", "fallback"}
  BY <1>8 DEF Answers
<1> HIDE DEF Cached, Told
<1>9. ASSUME NEW h \in Handlers, NEW key \in Keys, AskPrediction(h, key) PROVE FreshInv'
  <2>1. now' = now
    BY <1>9 DEF AskPrediction
  <2>2. CASE ~ Holds(key)
    <3>1. Miss(h, key) /\ store' = store /\ uses' = uses
      BY <1>9, <2>2 DEF AskPrediction
    <3>2. CacheUntouched /\ reply' = NoReply
      BY <3>1 DEF Miss, Silent, CacheUntouched
    <3>. QED BY <1>3, <1>4, <1>5, <1>6, <2>1, <3>2
  <2>3. CASE Holds(key)
    <3> DEFINE e == store[Place(store, key)]
    <3>1. /\ CacheGet(key, e)
          /\ IF Expired(e) THEN Miss(h, key)
             ELSE /\ reply' = [NoReply EXCEPT !.source = "cache", !.key = key,
                                 !.of = e.key, !.age = now - e.born]
                  /\ UNCHANGED <<req, kept>>
      BY <1>9, <2>3 DEF AskPrediction
    <3>2. kept' = kept
      BY <3>1 DEF Miss
    <3>3. /\ Consistent(store', uses', kept', now)
          /\ Len(store') <= CACHE_MAX_ENTRIES
          /\ kept' \in [Keys -> Nat] /\ UsedIfKept'
          /\ e \in Entry /\ e.key = key /\ e.born <= now
          /\ e.expires = e.born + CACHE_TTL_SECONDS
      BY <2>3, <3>1, <3>2, Getting
    <3> HIDE DEF e
    <3>4. Cached
      BY <2>1, <3>3 DEF Cached
    <3>5. CASE Expired(e)
      <4>1. reply' = NoReply
        BY <3>1, <3>5 DEF Miss, Silent
      <4>. QED BY <1>3, <1>4, <1>5, <2>1, <3>4, <4>1
    <3>6. CASE ~ Expired(e)
      <4>1. /\ reply'.source = "cache" /\ reply'.key = key
            /\ reply'.of = key /\ reply'.age = now - e.born
        BY <3>1, <3>3, <3>6 DEF NoReply
      <4>2. now <= e.expires /\ e.born \in Nat /\ e.expires \in Nat
        BY <1>2, <3>3, <3>6 DEF Expired, Entry
      <4>3. reply'.age <= CACHE_TTL_SECONDS
        BY <1>2, <3>3, <4>1, <4>2, ServiceAssumption
      <4>4. Told
        BY <4>1, <4>3 DEF Told, ServedFresh
      <4>. QED BY <1>3, <2>1, <3>4, <4>4
    <3>. QED BY <3>5, <3>6
  <2>. QED BY <2>2, <2>3
<1>10. ASSUME NEW h \in Handlers, AskHint(h) PROVE FreshInv'
  BY <1>3, <1>4, <1>5, <1>6, <1>10 DEF AskHint, Silent
<1>11. ASSUME NEW h \in Handlers, Valid(h) PROVE FreshInv'
  <2>1. now' = now /\ Told
    BY <1>4, <1>8, <1>11 DEF Valid
  <2>2. req[h].key \in Keys \cup {None}
    BY DEF FreshInv, TimeInv, Timed, Request
  <2>3. Cached
    BY <1>6, <1>7, <1>11, <2>1, <2>2 DEF Valid
  <2>. QED BY <1>3, <2>1, <2>3
<1>12. ASSUME NEW h \in Handlers, Invalid(h) PROVE FreshInv'
  <2>1. now' = now /\ CacheUntouched
    BY <1>12 DEF Invalid
  <2>2. Told
    BY <1>4, <1>5, <1>8, <1>12 DEF Invalid, Silent
  <2>. QED BY <1>3, <1>6, <2>1, <2>2
<1>13. ASSUME NEW h \in Handlers, SdkRetries(h) PROVE FreshInv'
  BY <1>3, <1>4, <1>5, <1>6, <1>13 DEF SdkRetries, Silent
<1>14. ASSUME NEW h \in Handlers, CallFails(h) PROVE FreshInv'
  BY <1>3, <1>4, <1>6, <1>8, <1>14 DEF CallFails
<1>15. CASE Tick
  <2>1. now' = now + 1 /\ now < Horizon /\ CacheUntouched /\ reply' = NoReply
    BY <1>15 DEF Tick, Silent
  <2>2. now' \in Nat /\ now <= now' /\ now' <= Horizon
    BY <1>2, <2>1
  <2>3. Cached
    BY <2>1, <2>2, Untouched DEF Cached
  <2>4. Told
    BY <1>4, <1>5, <2>1
  <2>. QED BY <1>1, <2>2, <2>3, <2>4 DEF FreshInv, Cached, Told
<1>16. CASE UNCHANGED vars
  <2>1. CacheUntouched /\ now' = now /\ reply' = reply
    BY <1>16 DEF vars, CacheUntouched
  <2>2. Told
    BY <2>1 DEF FreshInv, Told, ServedFresh
  <2>. QED BY <1>3, <1>6, <2>1, <2>2
<1>. QED BY <1>9, <1>10, <1>11, <1>12, <1>13, <1>14, <1>15, <1>16 DEF Next

\* The invariant says what the run checks.
LEMMA FreshIsSafe == FreshInv => CacheIsFresh
PROOF
<1> SUFFICES ASSUME FreshInv PROVE CacheIsFresh
  OBVIOUS
<1>1. /\ store \in Seq(Entry) /\ uses \in Seq(Keys) /\ now \in Nat /\ now <= Horizon
      /\ DOMAIN store = 1 .. Len(store) /\ DOMAIN uses = 1 .. Len(uses) /\ Len(store) \in Nat
      /\ Horizon \in Nat
  BY ServiceAssumption DEF FreshInv, Consistent, TimeInv, Timed
<1>2. TypeOK
  <2>1. now \in 0 .. Horizon
    BY <1>1
  <2>2. ASSUME NEW i \in DOMAIN store PROVE store[i].key \in Keys /\ store[i].born <= now
    <3>1. store[i] \in Entry
      BY <1>1
    <3>. QED BY <1>1, <3>1 DEF FreshInv, Consistent, RightlyTimed, Entry
  <2>3. req \in [Handlers -> [stage : {"idle", "first", "second"}, key : Keys \cup {None},
                             since : 0 .. now, began : 0 .. now, tries : 0 .. SDK_RETRIES]]
    <3>1. ASSUME NEW h \in Handlers
          PROVE  req[h] \in [stage : {"idle", "first", "second"}, key : Keys \cup {None},
                             since : 0 .. now, began : 0 .. now, tries : 0 .. SDK_RETRIES]
      <4>1. req[h] \in Request /\ req[h].since <= now /\ req[h].began <= now
        BY DEF FreshInv, TimeInv, Timed
      <4>. QED BY <1>1, <4>1 DEF Request
    <3>. QED BY <3>1 DEF FreshInv, TimeInv, Timed
  <2>. QED BY <2>1, <2>2, <2>3 DEF TypeOK, FreshInv
<1>3. RecentStays
  <2> DEFINE present == {store[i].key : i \in DOMAIN store}
  <2>1. Len(store) = Cardinality(present)
    <3> DEFINE f == [i \in 1 .. Len(store) |-> store[i].key]
    <3>1. f \in Bijection(1 .. Len(store), present)
      <4>1. f \in [1 .. Len(store) -> present]
        BY <1>1
      <4>2. \A i, j \in 1 .. Len(store) : f[i] = f[j] => i = j
        BY DEF FreshInv, Consistent, InUseOrder
      <4>3. \A key \in present : \E i \in 1 .. Len(store) : f[i] = key
        BY <1>1
      <4>. QED BY <4>1, <4>2, <4>3, Fun_IsBij
    <3>2. ExistsBijection(1 .. Len(store), present)
      BY <3>1 DEF ExistsBijection
    <3> HIDE DEF f, present
    <3>. QED BY <1>1, <3>2, FS_CountingElements
  <2>2. ASSUME NEW gone \in Keys \ present, NEW key \in present,
               kept[gone] # 0, LastUse(gone) > LastUse(key)
        PROVE  now > kept[gone]
    <3>1. Uttered(uses, gone)
      BY <2>2 DEF FreshInv, UsedIfKept
    <3>2. LastUse(gone) \in 1 .. Len(uses) /\ uses[LastUse(gone)] = gone
      BY <1>1, <3>1 DEF Uttered, LastUse
    <3>3. Among(store, key) /\ ~ Among(store, gone)
      BY <1>1 DEF Among
    <3>4. Uttered(uses, key)
      BY <3>3 DEF Among, Uttered, FreshInv, Consistent, InUseOrder
    <3>5. LastUse(key) \in 1 .. Len(uses) /\ uses[LastUse(key)] = key
      BY <1>1, <3>4 DEF Uttered, LastUse
    <3>6. LastUse(key) < LastUse(gone)
      BY <2>2, <3>2, <3>5
    <3>. QED BY <2>2, <3>2, <3>3, <3>5, <3>6 DEF FreshInv, Consistent, RightlyGone
  <2>. QED BY <2>1, <2>2 DEF RecentStays, FreshInv
<1>. QED BY <1>2, <1>3 DEF CacheIsFresh, FreshInv

\* TTLLRUCache, with requests interleaved in any way: what it serves is of the
\* key asked for and within its time to live, it never holds more than its size
\* or a key twice, and the size limit drops the least recently used entry.
THEOREM CacheFresh == Spec => []CacheIsFresh
PROOF
<1>. QED BY FreshInit, FreshStep, FreshIsSafe, PTL DEF Spec
=============================================================================
