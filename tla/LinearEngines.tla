---------------------------- MODULE LinearEngines ----------------------------
(***************************************************************************)
(* The engines of the linear structures: array operations, stack, queue,    *)
(* circular queue and deque (arrayOperations.ts, stack.ts, queue.ts).  Most *)
(* carry an operation out and then ask what the structure holds.            *)
(***************************************************************************)
EXTENDS Lesson, TLC

CONSTANTS
    Rows,       \* the arrays an operation is applied to
    NewValue,   \* the value inserted or pushed
    Capacity,   \* slots of the stack, the queues and the deque
    OpLists     \* scripts of "in" and "out" for the circular queue

ArrayAccess == "Array Access"
ArrayInsert == "Array Insert"
ArrayDelete == "Array Delete"
StackPush == "Stack Push"
StackPop == "Stack Pop"
QueueEnqueue == "Queue Enqueue"
QueueDequeue == "Queue Dequeue"
CircularQueue == "Circular Queue"
Deque == "Deque"

Linears == {ArrayAccess, ArrayInsert, ArrayDelete, StackPush, StackPop,
            QueueEnqueue, QueueDequeue, CircularQueue, Deque}

AsSeq(a) == [k \in 1 .. Size(a) |-> a[k - 1]]

(***************************************************************************)
(* Array operations                                                        *)
(***************************************************************************)

ArrayInit ==
    \E t \in {ArrayAccess, ArrayInsert, ArrayDelete}, a \in Rows :
        \E p \in 0 .. Size(a) :
            /\ t = ArrayDelete => p < Size(a) \/ Size(a) = 0
            /\ Begin(t, [input |-> a, array |-> a, target |-> p, i |-> 0,
                         pc |-> "start"])

AN == Size(ds.input)

AccessOutOfBounds ==
    /\ At(ArrayAccess, "start") /\ ds.target >= AN
    /\ Go([ds EXCEPT !.pc = "ended"], Final, NoTile)

AccessAsk ==
    /\ At(ArrayAccess, "start") /\ ds.target < AN
    /\ Go([ds EXCEPT !.pc = "read"],
          Ask("INDEX_ACCESS", [array |-> ds.array, targetIndex |-> ds.target]), NoTile)

AccessRead ==
    /\ At(ArrayAccess, "read")
    /\ Go([ds EXCEPT !.pc = "ended"], Final, <<"idx", ds.target>>)

\* An insertion makes the array one longer first, repeating the last element.
InsertStart ==
    /\ At(ArrayInsert, "start") /\ AN > 0
    /\ Go([ds EXCEPT !.array = [x \in 0 .. AN |-> ds.input[IF x < AN THEN x ELSE AN - 1]],
                     !.i = AN - 1, !.pc = "shift"],
          Say, NoTile)

InsertIntoEmpty ==
    /\ At(ArrayInsert, "start") /\ AN = 0
    /\ Go([ds EXCEPT !.array = (0 :> NewValue), !.pc = "ended"], Final, NoTile)

InsertShift ==
    /\ At(ArrayInsert, "shift") /\ ds.i >= ds.target
    /\ Go([ds EXCEPT !.array[ds.i + 1] = ds.array[ds.i], !.i = @ - 1], Say, NoTile)

InsertPlace ==
    /\ At(ArrayInsert, "shift") /\ ds.i < ds.target
    /\ LET placed == [ds.array EXCEPT ![ds.target] = NewValue]
       IN  Go([ds EXCEPT !.array = placed, !.pc = "ended"],
              AskLast("INSERT_POSITION", [array |-> placed, targetIndex |-> ds.target]),
              NoTile)

DeleteFromEmpty ==
    /\ At(ArrayDelete, "start") /\ AN = 0
    /\ Go([ds EXCEPT !.pc = "ended"], Final, NoTile)

DeleteStart ==
    /\ At(ArrayDelete, "start") /\ AN > 0
    /\ Go([ds EXCEPT !.i = ds.target, !.pc = "shift"], Say, NoTile)

DeleteShift ==
    /\ At(ArrayDelete, "shift") /\ ds.i < AN - 1
    /\ Go([ds EXCEPT !.array[ds.i] = ds.array[ds.i + 1], !.i = @ + 1], Say, NoTile)

DeleteShrink ==
    /\ At(ArrayDelete, "shift") /\ ds.i = AN - 1
    /\ LET shrunk == [x \in 0 .. AN - 2 |-> ds.array[x]]
       IN  Go([ds EXCEPT !.array = shrunk, !.pc = "ended"],
              AskLast("DELETE_SHIFT", [array |-> shrunk, targetIndex |-> ds.target,
                                       operationValue |-> ds.input[ds.target]]),
              NoTile)

(***************************************************************************)
(* Stack: the top is the last item.                                         *)
(***************************************************************************)

\* A learner pushes a list onto an empty stack, or one value onto the seed.
StackInit ==
    \/ \E a \in Rows, seed \in Rows :
          /\ Size(a) > 0 /\ (Size(seed) = 0 \/ Size(a) = 1)
          /\ Size(seed) <= Capacity
          /\ Begin(StackPush, [input |-> AsSeq(seed), items |-> AsSeq(seed),
                               todo |-> AsSeq(a), pc |-> "next"])
    \/ \E seed \in Rows :
          Begin(StackPop, [input |-> AsSeq(seed), items |-> AsSeq(seed),
                           todo |-> <<NewValue>>, pc |-> "next"])

IsLast == Len(ds.todo) = 1
AskThen(last, j, state) == IF last THEN AskLast(j, state) ELSE Ask(j, state)
Then(last) == IF last THEN "ended" ELSE "next"

Push ==
    /\ At(StackPush, "next") /\ Len(ds.items) < Capacity
    /\ LET items == Append(ds.items, Head(ds.todo))
       IN  Go([ds EXCEPT !.items = items, !.todo = Tail(@), !.pc = Then(IsLast)],
              AskThen(IsLast, "STACK_PUSH_RESULT",
                      [items |-> items, lastOperationValue |-> Head(ds.todo)]),
              NoTile)

\* An overflow ends the run whatever was still to be pushed.
Overflow ==
    /\ At(StackPush, "next") /\ Len(ds.items) >= Capacity
    /\ Go([ds EXCEPT !.pc = "ended"], AskLast("OVERFLOW_CHECK", <<>>), NoTile)

Pop ==
    /\ At(StackPop, "next") /\ ds.items # <<>>
    /\ LET items == SubSeq(ds.items, 1, Len(ds.items) - 1)
       IN  Go([ds EXCEPT !.items = items, !.pc = "ended"],
              AskLast("STACK_POP_RESULT",
                      [items |-> items,
                       lastOperationValue |-> ds.items[Len(ds.items)]]),
              NoTile)

Underflow ==
    /\ At(StackPop, "next") /\ ds.items = <<>>
    /\ Go([ds EXCEPT !.pc = "ended"], AskLast("UNDERFLOW_CHECK", <<>>), NoTile)

(***************************************************************************)
(* Queue in an array: the front moves up and its slots are never reused.    *)
(***************************************************************************)

Slots(a) == [k \in 1 .. Size(a) |-> [value |-> a[k - 1], index |-> k - 1]]

QueueInit ==
    \/ \E a \in Rows, seed \in Rows :
          /\ Size(a) > 0 /\ (Size(seed) = 0 \/ Size(a) = 1)
          /\ Size(seed) <= Capacity
          /\ Begin(QueueEnqueue,
                   [items |-> Slots(seed), todo |-> AsSeq(a), cap |-> Capacity,
                    front |-> IF Size(seed) > 0 THEN 0 ELSE Nowhere,
                    rear |-> Size(seed) - 1, pc |-> "next"])
    \/ \E seed \in Rows :
          Begin(QueueDequeue,
                [input |-> AsSeq(seed), items |-> Slots(seed), todo |-> <<NewValue>>,
                 cap |-> Greatest({1, Size(seed)}),
                 front |-> IF Size(seed) > 0 THEN 0 ELSE Nowhere,
                 rear |-> Size(seed) - 1, pc |-> "next"])

Enqueue ==
    /\ At(QueueEnqueue, "next") /\ Len(ds.items) < ds.cap
    /\ LET rear == ds.rear + 1
           front == IF ds.front = Nowhere THEN rear ELSE ds.front
       IN  Go([ds EXCEPT !.items = Append(@, [value |-> Head(ds.todo), index |-> rear]),
                         !.rear = rear, !.front = front, !.todo = Tail(@),
                         !.pc = Then(IsLast)],
              AskThen(IsLast, "QUEUE_REAR",
                      [rearIndex |-> rear, frontIndex |-> front, capacity |-> ds.cap]),
              NoTile)

QueueFull ==
    /\ At(QueueEnqueue, "next") /\ Len(ds.items) >= ds.cap
    /\ Go([ds EXCEPT !.pc = "ended"], Final, NoTile)

\* The last dequeue is the final step unless half of the array is lost by then,
\* which is asked about in a step of its own.
Dequeue ==
    /\ At(QueueDequeue, "next") /\ ds.items # <<>>
    /\ LET items == Tail(ds.items)
           half == 2 * (ds.front + 1) >= ds.cap
       IN  Go([ds EXCEPT !.items = items, !.front = @ + 1, !.todo = Tail(@),
                         !.pc = IF half THEN "wasted" ELSE "ended"],
              AskThen(~half, "QUEUE_FRONT",
                      [items |-> items, lastOperationValue |-> Head(ds.items).value]),
              NoTile)

WastedSpace ==
    /\ At(QueueDequeue, "wasted")
    /\ Go([ds EXCEPT !.pc = "ended"],
          AskLast("LOAD_FACTOR",
                  [frontIndex |-> IF ds.items = <<>> THEN Nowhere ELSE ds.front,
                   capacity |-> ds.cap]),
          NoTile)

QueueEmpty ==
    /\ At(QueueDequeue, "next") /\ ds.items = <<>>
    /\ Go([ds EXCEPT !.pc = "ended"], Final, NoTile)

(***************************************************************************)
(* Circular queue: the slots are reused, the rear wraps to the first one.   *)
(***************************************************************************)

RingInit ==
    \E ops \in OpLists :
        Begin(CircularQueue,
              [items |-> <<>>, todo |-> ops, cap |-> Capacity, front |-> Nowhere,
               rear |-> Nowhere, size |-> 0, count |-> 0, pc |-> "next"])

SayThen(last) == IF last THEN Final ELSE Say
RingOp(op) == At(CircularQueue, "next") /\ ds.todo # <<>> /\ Head(ds.todo) = op
Done == [ds EXCEPT !.todo = Tail(@), !.pc = Then(IsLast)]

RingRefuse ==
    /\ \/ RingOp("in") /\ ds.size >= ds.cap
       \/ RingOp("out") /\ ds.size = 0
    /\ Go(Done, SayThen(IsLast), NoTile)

RingWrap ==
    /\ RingOp("in") /\ ds.size < ds.cap /\ ds.rear = ds.cap - 1
    /\ Go([ds EXCEPT !.pc = "wrap"], Ask("CIRCULAR_WRAP", [capacity |-> ds.cap]), NoTile)

RingEnqueue ==
    /\ topic = CircularQueue
    /\ \/ RingOp("in") /\ ds.size < ds.cap /\ ds.rear # ds.cap - 1
       \/ ds.pc = "wrap"
    /\ LET rear == (ds.rear + 1) % ds.cap
       IN  Go([Done EXCEPT !.items = Append(@, [value |-> ds.count, index |-> rear]),
                           !.rear = rear, !.size = @ + 1, !.count = @ + 1,
                           !.front = IF @ = Nowhere THEN rear ELSE @],
              SayThen(IsLast), IF ds.pc = "wrap" THEN <<"idx", rear>> ELSE NoTile)

\* Wrong: the front runs past the end of the ring.
RingDequeueUnwrapped ==
    /\ RingOp("out") /\ ds.size > 0
    /\ LET gone == CHOOSE k \in DOMAIN ds.items : ds.items[k].index = ds.front
           atFront(item) == item.index # ds.front
           items == SelectSeq(ds.items, atFront)
       IN  Go([Done EXCEPT !.items = items, !.size = @ - 1,
                           !.front = IF ds.size > 1 THEN @ + 1 ELSE Nowhere],
              AskThen(IsLast, "QUEUE_FRONT",
                      [items |-> items, lastOperationValue |-> ds.items[gone].value]),
              NoTile)

RingDequeue ==
    /\ RingOp("out") /\ ds.size > 0
    /\ LET gone == CHOOSE k \in DOMAIN ds.items : ds.items[k].index = ds.front
           atFront(item) == item.index # ds.front
           items == SelectSeq(ds.items, atFront)
       IN  Go([Done EXCEPT !.items = items, !.size = @ - 1,
                           !.front = IF ds.size > 1 THEN (@ + 1) % ds.cap ELSE Nowhere],
              AskThen(IsLast, "QUEUE_FRONT",
                      [items |-> items, lastOperationValue |-> ds.items[gone].value]),
              NoTile)

(***************************************************************************)
(* Deque: each operation is asked about before it is carried out.           *)
(***************************************************************************)

DequeOps == {"pushFront", "pushBack", "popFront", "popBack"}

\* The default operations of a deque, and one more.
DequeInit ==
    \E op \in DequeOps, seed \in UNION {[1 .. k -> {"pushFront", "pushBack"}] : k \in 0 .. 3} :
        Begin(Deque, [items |-> <<>>, todo |-> Append(seed, op), cap |-> Capacity,
                      count |-> 0, pc |-> "next"])

IsPush(op) == op \in {"pushFront", "pushBack"}
Refused(op) == IF IsPush(op) THEN Len(ds.items) >= ds.cap ELSE ds.items = <<>>

DequeRefuse ==
    /\ At(Deque, "next") /\ Refused(Head(ds.todo))
    /\ Go(Done, SayThen(IsLast), NoTile)

DequeAsk ==
    /\ At(Deque, "next") /\ ~Refused(Head(ds.todo))
    /\ Go([ds EXCEPT !.pc = "act"], Ask("DEQUE_END", [asksAbout |-> Head(ds.todo)]),
          NoTile)

DequeAct ==
    /\ At(Deque, "act")
    /\ LET op == Head(ds.todo)
           items == CASE op = "pushFront" -> <<ds.count>> \o ds.items
                      [] op = "pushBack" -> Append(ds.items, ds.count)
                      [] op = "popFront" -> Tail(ds.items)
                      [] OTHER -> SubSeq(ds.items, 1, Len(ds.items) - 1)
       IN  Go([Done EXCEPT !.items = items, !.count = @ + 1], SayThen(IsLast),
              IF Len(items) = 0 \/ Len(ds.items) = 0 THEN NoTile
              ELSE IF items[Len(items)] = ds.items[Len(ds.items)]
                   THEN <<"front">> ELSE <<"back">>)

LinearInit == ArrayInit \/ StackInit \/ QueueInit \/ RingInit \/ DequeInit

\* The engines: each runs its steps, and those it shares, for its own topic.

arrayAccessEngine == topic = ArrayAccess /\ (AccessOutOfBounds \/ AccessAsk \/ AccessRead)

arrayInsertEngine ==
    /\ topic = ArrayInsert
    /\ \/ InsertStart \/ InsertIntoEmpty \/ InsertShift \/ InsertPlace

arrayDeleteEngine ==
    /\ topic = ArrayDelete
    /\ \/ DeleteFromEmpty \/ DeleteStart \/ DeleteShift \/ DeleteShrink

stackPushEngine == topic = StackPush /\ (Push \/ Overflow)

stackPopEngine == topic = StackPop /\ (Pop \/ Underflow)

queueEnqueueEngine == topic = QueueEnqueue /\ (Enqueue \/ QueueFull)

queueDequeueEngine == topic = QueueDequeue /\ (Dequeue \/ WastedSpace \/ QueueEmpty)

circularQueueEngine ==
    /\ topic = CircularQueue
    /\ \/ RingRefuse \/ RingWrap \/ RingEnqueue \/ RingDequeue

dequeEngine == topic = Deque /\ (DequeRefuse \/ DequeAsk \/ DequeAct)

LinearNext ==
    \/ arrayAccessEngine \/ arrayInsertEngine \/ arrayDeleteEngine \/ stackPushEngine
    \/ stackPopEngine \/ queueEnqueueEngine \/ queueDequeueEngine \/ circularQueueEngine
    \/ dequeEngine

(***************************************************************************)
(* What must be true of the structures                                      *)
(***************************************************************************)

\* The items of a circular queue lie in consecutive slots from the front to the
\* rear, oldest first, whatever has been wrapped, emptied and refused.
RingIsFifo ==
    topic = CircularQueue =>
        /\ ds.size = Len(ds.items) /\ ds.size <= ds.cap
        /\ ds.size = 0 <=> ds.front = Nowhere
        /\ ds.size > 0 => ds.front = ds.items[1].index /\ ds.rear = ds.items[ds.size].index
        /\ \A k \in DOMAIN ds.items :
              /\ ds.items[k].index = (ds.front + k - 1) % ds.cap
              /\ ds.items[k].value = ds.count - ds.size + k - 1

\* Inserting and deleting keep every other element, in order.
ArrayIsRight ==
    step.final =>
        /\ topic = ArrayInsert =>
              ds.array = [x \in 0 .. AN |-> IF x < ds.target THEN ds.input[x]
                                            ELSE IF x = ds.target THEN NewValue
                                            ELSE ds.input[x - 1]]
        /\ topic = ArrayDelete /\ AN > 0 =>
              ds.array = [x \in 0 .. AN - 2 |->
                             IF x < ds.target THEN ds.input[x] ELSE ds.input[x + 1]]

=============================================================================
