-------------------------- MODULE FeedbackService --------------------------
(***************************************************************************)
(* The AI service between its requests: the feedback cache they share, and *)
(* the bounded number of model calls, on bounded time, each of them makes. *)
(* Time is in the model because both are about it. Handlers run on one     *)
(* event loop: between two awaits nothing else runs.                       *)
(***************************************************************************)
EXTENDS Integers, Sequences, SequencesExt, FiniteSets

CONSTANTS
  Keys,                    \* cache keys
  Handlers,                \* bound: requests in progress at once
  None,
  CACHE_TTL_SECONDS, CACHE_MAX_ENTRIES,
  request_timeout_seconds, retry_budget_seconds,
  SDK_RETRIES,             \* attempts the client library adds to a call
  Horizon                  \* bound: the time of a behaviour

ASSUME ServiceAssumption ==
  /\ CACHE_TTL_SECONDS \in Nat /\ CACHE_MAX_ENTRIES \in Nat
  /\ request_timeout_seconds \in Nat \ {0} /\ retry_budget_seconds \in Nat \ {0}
  /\ SDK_RETRIES \in Nat /\ Horizon \in Nat
  /\ None \notin Keys

VARIABLES
  now,    \* the clock
  store,  \* the cache: entries from the least to the most recently used
  req,    \* what each handler is waiting for
  reply,  \* the answer given in this step, if any
  uses,   \* history: the keys used, the last use of each in order
  kept    \* history: when the last entry of each key expires

vars == <<now, store, req, reply, uses, kept>>

Idle == [stage |-> "idle", key |-> None, since |-> 0, began |-> 0, tries |-> 0]
NoReply == [source |-> "none", key |-> None, of |-> None, age |-> 0, took |-> 0, calls |-> 0]

Init ==
  /\ now = 0
  /\ store = <<>>
  /\ req = [h \in Handlers |-> Idle]
  /\ reply = NoReply
  /\ uses = <<>>
  /\ kept = [k \in Keys |-> 0]

----------------------------------------------------------------------------
(* Deliberately wrong variants, none of them used by an action.            *)

\* A use does not move the entry.
LeftInPlace(entries, entry) == entries

\* The retry runs on the timeout of a first call.
TimeoutForEveryCall(stage) == request_timeout_seconds

----------------------------------------------------------------------------
(* TTLLRUCache                                                             *)

Holds(key) == \E i \in DOMAIN store : store[i].key = key
Expired(entry) == now > entry.expires

\* Where a key is, in a sequence that holds it once.
Place(entries, key) == CHOOSE i \in DOMAIN entries : entries[i].key = key
Deleted(entries, key) == RemoveAt(entries, Place(entries, key))
MovedToEnd(entries, entry) == Append(Deleted(entries, entry.key), entry)

\* An assignment to a key that is there already leaves it where it is.
Assigned(entries, entry) ==
  IF \E i \in DOMAIN entries : entries[i].key = entry.key
    THEN [entries EXCEPT ![Place(entries, entry.key)] = entry]
    ELSE Append(entries, entry)

Evicted(entries) ==
  IF Len(entries) > CACHE_MAX_ENTRIES
    THEN SubSeq(entries, Len(entries) - CACHE_MAX_ENTRIES + 1, Len(entries))
    ELSE entries

LastUse(key) == CHOOSE i \in DOMAIN uses : uses[i] = key
Used(key) ==
  uses' = Append(IF key \in Range(uses) THEN RemoveAt(uses, LastUse(key)) ELSE uses, key)

\* get: an expired entry is deleted, a live one becomes the most recent.
CacheGet(key, entry) ==
  IF Expired(entry)
    THEN store' = Deleted(store, key) /\ UNCHANGED uses
    ELSE store' = MovedToEnd(store, entry) /\ Used(key)

CacheSet(key) ==
  LET entry == [key |-> key, born |-> now, expires |-> now + CACHE_TTL_SECONDS]
  IN /\ store' = Evicted(MovedToEnd(Assigned(store, entry), entry))
     /\ Used(key)
     /\ kept' = [kept EXCEPT ![key] = entry.expires]

CacheUntouched == UNCHANGED <<store, uses, kept>>

----------------------------------------------------------------------------
(* Requests                                                                *)

\* A handler answers, from its own call, from the cache, or with a fallback.
Answers(h, source, of, age) ==
  /\ reply' = [source |-> source, key |-> req[h].key, of |-> of, age |-> age,
               took |-> now - req[h].since,
               calls |-> IF req[h].stage = "first" THEN 1 ELSE 2]
  /\ req' = [req EXCEPT ![h] = Idle]

Calls(h, stage, key, since) ==
  req' = [req EXCEPT ![h] = [stage |-> stage, key |-> key, since |-> since,
                             began |-> now, tries |-> 0]]

Silent == reply' = NoReply

Miss(h, key) == Calls(h, "first", key, now) /\ Silent /\ UNCHANGED kept

\* Feedback on a prediction: _prepare_prediction looks in the cache first.
AskPrediction(h, key) ==
  /\ req[h].stage = "idle"
  /\ IF ~ Holds(key)
     THEN Miss(h, key) /\ UNCHANGED <<store, uses>>
     ELSE LET entry == store[Place(store, key)]
          IN /\ CacheGet(key, entry)
             /\ IF Expired(entry) THEN Miss(h, key)
                ELSE /\ reply' = [NoReply EXCEPT !.source = "cache", !.key = key,
                                    !.of = entry.key, !.age = now - entry.born]
                     /\ UNCHANGED <<req, kept>>
  /\ UNCHANGED now

\* A hint, an answer to a question, a grade: not cached, and retried once.
AskHint(h) ==
  /\ req[h].stage = "idle"
  /\ Calls(h, "first", None, now)
  /\ UNCHANGED now /\ Silent /\ CacheUntouched

\* Which requests may retry: those that are not predictions (allow_retry).
mayRetry(r) == r.key = None /\ r.stage = "first"

timeLimit(stage) == IF stage = "first" THEN request_timeout_seconds ELSE retry_budget_seconds

\* A valid response; one of a prediction is cached.
Valid(h) ==
  /\ req[h].stage # "idle"
  /\ Answers(h, "ai", req[h].key, 0)
  /\ IF req[h].key = None THEN CacheUntouched ELSE CacheSet(req[h].key)
  /\ UNCHANGED now

\* A response that breaks a rule, or was cut off at the token limit.
Invalid(h) ==
  /\ req[h].stage # "idle"
  /\ IF mayRetry(req[h])
       THEN Calls(h, "second", None, req[h].since) /\ Silent
       ELSE Answers(h, "fallback", None, 0)
  /\ UNCHANGED now /\ CacheUntouched

\* An attempt fails or times out. The library tries again by itself, except
\* on a budgeted call, whose max_retries is 0.
SdkRetries(h) ==
  /\ req[h].stage = "first"
  /\ req[h].tries < SDK_RETRIES
  /\ req' = [req EXCEPT ![h].began = now, ![h].tries = @ + 1]
  /\ UNCHANGED now /\ Silent /\ CacheUntouched

CallFails(h) ==
  /\ req[h].stage # "idle"
  /\ req[h].stage = "first" => req[h].tries = SDK_RETRIES
  /\ Answers(h, "fallback", None, 0)
  /\ UNCHANGED now /\ CacheUntouched

\* Time passes, but no call is waited for beyond its limit.
Tick ==
  /\ now < Horizon
  /\ \A h \in Handlers : req[h].stage # "idle" => now < req[h].began + timeLimit(req[h].stage)
  /\ now' = now + 1
  /\ UNCHANGED req /\ Silent /\ CacheUntouched

Next ==
  \/ Tick
  \/ \E h \in Handlers :
       \/ \E key \in Keys : AskPrediction(h, key)
       \/ AskHint(h) \/ Valid(h) \/ Invalid(h) \/ SdkRetries(h) \/ CallFails(h)

Spec == Init /\ [][Next]_vars

----------------------------------------------------------------------------
(* Properties                                                              *)

TypeOK ==
  /\ now \in 0..Horizon
  /\ \A i \in DOMAIN store : store[i].key \in Keys /\ store[i].born <= now
  /\ req \in [Handlers -> [stage : {"idle", "first", "second"}, key : Keys \cup {None},
                           since : 0..now, began : 0..now, tries : 0..SDK_RETRIES]]
  /\ reply.source \in {"none", "ai", "cache", "fallback"}

\* Feedback served from the cache is of the key asked for and no older than
\* the time to live, however often it has been used since.
ServedFresh ==
  reply.source = "cache" =>
    reply.of = reply.key /\ reply.age <= CACHE_TTL_SECONDS

\* The size limit drops the least recently used entry: one that is gone
\* although it was used after one that is there has expired. The cache never
\* holds more than its size, nor a key twice, whichever requests interleave.
RecentStays ==
  LET present == {store[i].key : i \in DOMAIN store}
  IN /\ Len(store) = Cardinality(present)
     /\ Len(store) <= CACHE_MAX_ENTRIES
     /\ \A gone \in Keys \ present, key \in present :
          kept[gone] # 0 /\ LastUse(gone) > LastUse(key) => now > kept[gone]

\* No request makes more than two calls of its own, and a second call costs a
\* student its budget at most, on top of what the library makes of the first.
TimeIsBounded ==
  /\ reply.calls <= 2
  /\ reply.took <= (SDK_RETRIES + 1) * request_timeout_seconds
                     + (IF reply.calls = 2 THEN retry_budget_seconds ELSE 0)

\* The cache serves nothing that has expired and drops the least recent first.
CacheIsFresh == TypeOK /\ ServedFresh /\ RecentStays

=============================================================================
