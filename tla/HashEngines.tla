----------------------------- MODULE HashEngines -----------------------------
(***************************************************************************)
(* The engines of the hash table (hashTable.ts), with chaining and with     *)
(* linear probing.  A slot of a probing table is a chain of one entry.  The *)
(* table a search or a deletion works on is built without questions.        *)
(***************************************************************************)
EXTENDS Lesson

CONSTANTS
    KeyLists,       \* the keys put in
    HashTargets,    \* the keys looked for
    HashCapacity    \* buckets

ChainInsert == "Hash Insert (chaining)"
ChainSearch == "Hash Search (chaining)"
ChainDelete == "Hash Delete (chaining)"
ProbeInsert == "Hash Insert (probing)"
ProbeSearch == "Hash Search (probing)"
ProbeDelete == "Hash Delete (probing)"
Chainings == {ChainInsert, ChainSearch, ChainDelete}
Probings == {ProbeInsert, ProbeSearch, ProbeDelete}
HashInserts == {ChainInsert, ProbeInsert}
Hashes == Chainings \cup Probings

HashInit ==
    \E t \in Hashes, keys \in KeyLists :
        \E target \in IF t \in HashInserts THEN {0} ELSE HashTargets :
            Begin(t, [input |-> keys, target |-> target, k |-> 1, slot |-> 0,
                      buckets |-> [x \in 0 .. HashCapacity - 1 |-> <<>>],
                      warned |-> FALSE, found |-> FALSE, pc |-> "next"])

HashAt(ts, p) == topic \in ts /\ ds.pc = p
hashOf(key) == key % HashCapacity
Probed(key, d) == (hashOf(key) + d) % HashCapacity
Taken(buckets) == Cardinality({x \in DOMAIN buckets : buckets[x] # <<>>})
TableFull == Taken(ds.buckets) = HashCapacity

KeysLeft == ds.k <= Len(ds.input)
Key == ds.input[ds.k]
IsLastKey == Key = ds.input[Len(ds.input)]   \* by value, so also an equal one

\* The load factor is above, or below, 0.7.
Crowded(n) == 10 * n > 7 * HashCapacity
Roomy(n) == 10 * n < 7 * HashCapacity

\* null and undefined are Nowhere: chaining searches ask without the answer.
AskBucket(hashResult) ==
    Ask("HASH_BUCKET", [hashResult |-> hashResult, capacity |-> HashCapacity])
Bucket(x) == <<"bucket", x>>

NoHashKeys ==
    /\ HashAt(HashInserts, "next") /\ ds.input = <<>>
    /\ Go([ds EXCEPT !.pc = "ended"], Final, NoTile)

KeyHash ==
    /\ HashAt(HashInserts, "next") /\ KeysLeft /\ (topic = ProbeInsert => ~TableFull)
    /\ Go([ds EXCEPT !.slot = hashOf(Key), !.pc = "hashed"], AskBucket(hashOf(Key)), NoTile)

TableOverflow ==
    /\ HashAt({ProbeInsert}, "next") /\ KeysLeft /\ TableFull
    /\ Go([ds EXCEPT !.pc = "ended"], Final, NoTile)

ChainCollide ==
    /\ HashAt({ChainInsert}, "hashed") /\ ds.buckets[ds.slot] # <<>>
    /\ Go([ds EXCEPT !.pc = "collided"], Ask("COLLISION_RESOLVE", <<>>), Bucket(ds.slot))

AfterKey == IF ds.k = Len(ds.input) THEN "ended" ELSE "next"

ChainPlace ==
    /\ \/ HashAt({ChainInsert}, "hashed") /\ ds.buckets[ds.slot] = <<>>
       \/ HashAt({ChainInsert}, "collided")
    /\ Go([ds EXCEPT !.buckets[ds.slot] = Append(@, Key), !.k = @ + 1, !.pc = AfterKey],
          IF IsLastKey THEN Final ELSE Say,
          IF ds.pc = "hashed" THEN Bucket(ds.slot) ELSE <<"back-of-chain">>)

\* Carried out by the step that follows a question about the slot.
SlotTile == IF ds.pc = "hashed" THEN Bucket(ds.slot) ELSE <<"i-plus-1-mod">>

ProbeOn ==
    /\ topic = ProbeInsert /\ ds.pc \in {"hashed", "probe"} /\ ds.buckets[ds.slot] # <<>>
    /\ Go([ds EXCEPT !.slot = (@ + 1) % HashCapacity, !.pc = "probe"],
          Ask("PROBE_NEXT", <<>>), SlotTile)

ProbePlace ==
    /\ topic = ProbeInsert /\ ds.pc \in {"hashed", "probe"} /\ ds.buckets[ds.slot] = <<>>
    /\ LET n == Taken(ds.buckets) + 1
           warn == Crowded(n) /\ ~ds.warned
       IN  Go([ds EXCEPT !.buckets[ds.slot] = <<Key>>,
                         !.k = IF warn THEN @ ELSE @ + 1,
                         !.pc = IF warn THEN "crowded" ELSE AfterKey],
              IF IsLastKey /\ Roomy(n) THEN Final ELSE Say, SlotTile)

LoadFactor ==
    /\ HashAt({ProbeInsert}, "crowded")
    /\ Go([ds EXCEPT !.warned = TRUE, !.k = @ + 1, !.pc = AfterKey],
          IF IsLastKey THEN AskLast("LOAD_FACTOR", <<>>) ELSE Ask("LOAD_FACTOR", <<>>), NoTile)

(***************************************************************************)
(* Search and deletion                                                     *)
(***************************************************************************)

\* The first of the slots on the way of a key from its home.
FirstProbed(key, slots) ==
    Probed(key, Least({d \in 0 .. HashCapacity - 1 : Probed(key, d) \in slots}))
EmptySlots == {x \in DOMAIN ds.buckets : ds.buckets[x] = <<>>}

Build ==
    /\ topic \in Hashes \ HashInserts /\ ds.pc = "next" /\ KeysLeft
    /\ topic \in Probings => ~TableFull
    /\ LET x == IF topic \in Chainings THEN hashOf(Key) ELSE FirstProbed(Key, EmptySlots)
       IN  Go([ds EXCEPT !.buckets[x] = Append(@, Key), !.k = @ + 1], Say, NoTile)

TargetHash ==
    /\ topic \in Hashes \ HashInserts /\ ds.pc = "next"
    /\ ~KeysLeft \/ (topic \in Probings /\ TableFull)
    /\ Go([ds EXCEPT !.slot = hashOf(ds.target), !.pc = "look"],
          AskBucket(IF topic \in Chainings THEN Nowhere ELSE hashOf(ds.target)), NoTile)

Contains(chain, key) == \E k \in DOMAIN chain : chain[k] = key

ChainLook ==
    /\ HashAt({ChainSearch, ChainDelete}, "look")
    /\ LET other(key) == key # ds.target
       IN  Go([ds EXCEPT !.found = Contains(ds.buckets[ds.slot], ds.target),
                         !.buckets[ds.slot] = IF topic = ChainDelete THEN SelectSeq(@, other)
                                                                     ELSE @,
                         !.pc = "ended"],
              Final, Bucket(ds.slot))

\* The probe stops at the target or at an empty slot, and goes round once.
ProbeLook ==
    /\ HashAt({ProbeSearch, ProbeDelete}, "look")
    /\ LET stops == EmptySlots
                       \cup {y \in DOMAIN ds.buckets : Contains(ds.buckets[y], ds.target)}
           x == IF stops = {} THEN ds.slot ELSE FirstProbed(ds.target, stops)
           found == Contains(ds.buckets[x], ds.target)
       IN  Go([ds EXCEPT !.found = found,
                         !.buckets[x] = IF topic = ProbeDelete /\ found THEN <<>> ELSE @,
                         !.pc = "ended"],
              Final, Bucket(ds.slot))

\* The engines: each runs its steps, and those it shares, for its own topic.

hashInsertChainingEngine ==
    /\ topic = ChainInsert
    /\ \/ NoHashKeys \/ KeyHash \/ ChainCollide \/ ChainPlace

hashSearchChainingEngine == topic = ChainSearch /\ (Build \/ TargetHash \/ ChainLook)

hashDeleteChainingEngine == topic = ChainDelete /\ (Build \/ TargetHash \/ ChainLook)

hashInsertLinearProbingEngine ==
    /\ topic = ProbeInsert
    /\ \/ NoHashKeys \/ KeyHash \/ TableOverflow \/ ProbeOn \/ ProbePlace \/ LoadFactor

hashSearchLinearProbingEngine == topic = ProbeSearch /\ (Build \/ TargetHash \/ ProbeLook)

hashDeleteLinearProbingEngine == topic = ProbeDelete /\ (Build \/ TargetHash \/ ProbeLook)

HashNext ==
    \/ hashInsertChainingEngine \/ hashSearchChainingEngine \/ hashDeleteChainingEngine
    \/ hashInsertLinearProbingEngine \/ hashSearchLinearProbingEngine
    \/ hashDeleteLinearProbingEngine

(***************************************************************************)
(* What must be true of the table                                           *)
(***************************************************************************)

Put == SubSeq(ds.input, 1, ds.k - 1)

\* A chain holds the keys of its bucket in the order they came; a deletion
\* removes every entry of its key and no other (hashInsertChainingEngine,
\* hashDeleteChainingEngine).  A probing table keeps every key it took, each at
\* the end of a run of slots that are or were taken from its home on, where a
\* search will come by; and a search answers whether the key was put in.
TableIsRight ==
    /\ topic \in Chainings /\ ds.pc \in {"next", "ended"} =>
          \A x \in DOMAIN ds.buckets :
              LET here(key) == /\ hashOf(key) = x
                               /\ ds.pc = "ended" /\ topic = ChainDelete => key # ds.target
              IN  ds.buckets[x] = SelectSeq(Put, here)
    /\ topic \in Probings /\ ds.pc \in {"next", "ended"} =>
          \A x \in DOMAIN ds.buckets : ds.buckets[x] # <<>> =>
              \A d \in 0 .. (x - hashOf(ds.buckets[x][1])) % HashCapacity :
                  \/ ds.buckets[Probed(ds.buckets[x][1], d)] # <<>>
                  \/ topic = ProbeDelete /\ ds.found
    /\ topic \in Hashes \ HashInserts /\ ds.pc = "ended" =>
          ds.found = Contains(Put, ds.target)
    /\ topic \in Probings /\ ds.pc \in {"next", "ended"} =>
          Taken(ds.buckets) = Len(Put) - (IF topic = ProbeDelete /\ ds.found THEN 1 ELSE 0)

=============================================================================
