----------------------------- MODULE WorkQueue ------------------------------
(***************************************************************************)
(* The work queues of an instance.  A WorkQueue gives at most              *)
(* _maxOutstanding of its items at a time to the threads of the job queue  *)
(* and holds at most _maxSize of them.  An item that runs may end, hand    *)
(* itself to a queue (transfer), come back to its own queue after a delay  *)
(* (reschedule) or use a reservation made for it elsewhere (replication).  *)
(*                                                                         *)
(* Every critical section of _mutex is one action.  A thread that has left *)
(* one and still has to call release() or spawn() on a queue is a unit of  *)
(* toRelease or toSpawn: any other thread may run in between.              *)
(***************************************************************************)
EXTENDS Integers, FiniteSets, Sequences

CONSTANTS Queues, Items,
          NoQueue,        \* the empty weak_ptr<WorkQueue>
          MaxOutstanding, \* _maxOutstanding of each queue
          MaxSize,        \* _maxSize of each queue
          Route,          \* pairs <<a, b>>: items that run on a may hand themselves to b
          Reservable,     \* queues where places are reserved from outside
          MaxCalls,       \* bound: calls of spawn() due on a queue when another one is added
          MaxRecords      \* bound: entries of one queue in a context (MAX_QUEUES of record())

ASSUME QueueAssumption ==
  /\ NoQueue \notin Queues
  /\ IsFiniteSet(Items)
  /\ MaxOutstanding \in [Queues -> Nat \ {0}]
  /\ MaxSize \in [Queues -> Nat \ {0}]
  /\ Route \subseteq Queues \X Queues
  /\ Reservable \subseteq Queues
  /\ MaxCalls \in Nat \ {0} /\ MaxRecords \in Nat \ {0}

VARIABLES fresh,       \* items that nobody has enqueued yet
          workq,       \* _workQueue
          overflow,    \* _overflowQueue, the items of its pairs
          from,        \* from[x]: the queue that the pair of x names
          active,      \* active[q]: the items of q that are given to the job queue
          timer,       \* timer[x]: the queue that the reschedule timer of x brings it back to
          resv,        \* resv[x]: the queue where a place is reserved for x
          ctx,         \* ctx[x][q]: how often the SerializationCtx of x has recorded q
          outstanding, \* _outstanding
          reserved,    \* _reserved
          started,     \* _isStarted
          toRelease,   \* toRelease[q]: calls of release() that are due on q
          toSpawn,     \* toSpawn[q]: calls of spawn() that are due on q
          source,      \* ghost: source[x], the queue that handed x to the one where it waits
          ahead        \* ghost: ahead[x], what that queue handed there before and still waits

itemVars == <<fresh, from, active, timer, resv, ctx>>
queueVars == <<workq, overflow, outstanding, reserved, started>>
ghostVars == <<source, ahead>>
vars == <<itemVars, queueVars, toRelease, toSpawn, ghostVars>>

SomeQueue == Queues \cup {NoQueue}
Tally == [Queues -> 0 .. MaxRecords]
NoRecord == [q \in Queues |-> 0]

TypeOK ==
  /\ fresh \subseteq Items
  /\ workq \in [Queues -> Seq(Items)] /\ overflow \in [Queues -> Seq(Items)]
  /\ from \in [Items -> SomeQueue] /\ resv \in [Items -> SomeQueue]
  /\ timer \in [Items -> SomeQueue] /\ source \in [Items -> SomeQueue]
  /\ active \in [Queues -> SUBSET Items]
  /\ ctx \in [Items -> Tally]
  /\ outstanding \in [Queues -> Nat] /\ reserved \in [Queues -> Nat]
  /\ started \in [Queues -> BOOLEAN]
  /\ toRelease \in [Queues -> Nat] /\ toSpawn \in [Queues -> Nat]
  /\ ahead \in [Items -> SUBSET Items]

Init ==
  /\ fresh = Items
  /\ workq = [q \in Queues |-> <<>>] /\ overflow = [q \in Queues |-> <<>>]
  /\ from = [x \in Items |-> NoQueue] /\ resv = [x \in Items |-> NoQueue]
  /\ timer = [x \in Items |-> NoQueue] /\ source = [x \in Items |-> NoQueue]
  /\ active = [q \in Queues |-> {}]
  /\ ctx = [x \in Items |-> NoRecord]
  /\ outstanding = [q \in Queues |-> 0] /\ reserved = [q \in Queues |-> 0]
  /\ started = [q \in Queues |-> TRUE]
  /\ toRelease = [q \in Queues |-> 0] /\ toSpawn = [q \in Queues |-> 0]
  /\ ahead = [x \in Items |-> {}]

Size(q) == outstanding[q] + reserved[q] + Len(workq[q])
Fits(q) == Size(q) + 1 <= MaxSize[q]

\* One more call due for each of the queues in S
Due(calls, S) == [q \in Queues |-> calls[q] + IF q \in S THEN 1 ELSE 0]

\* As many more calls due on each queue as the tally n has entries of it
DueEach(calls, n) == [q \in Queues |-> calls[q] + n[q]]

Push(x, q) == workq' = [workq EXCEPT ![q] = Append(@, x)]

\* A caller of spawn() on q, within the bound on concurrent calls
CallSpawn(q) ==
  /\ toSpawn[q] < MaxCalls
  /\ toSpawn' = Due(toSpawn, {q})

-----------------------------------------------------------------------------
\* Calls from outside a queue.  Those that find no room throw and change nothing.

Enqueue(x, q) ==
  /\ x \in fresh /\ Fits(q)
  /\ fresh' = fresh \ {x}
  /\ Push(x, q)
  /\ CallSpawn(q)
  /\ UNCHANGED <<from, active, timer, resv, ctx, overflow, outstanding, reserved, started,
                 toRelease, ghostVars>>

\* MUTANT of Reserve: the room is not checked
ReserveUnchecked(x, q) ==
  /\ x \in fresh /\ resv[x] = NoQueue /\ q \in Reservable
  /\ resv' = [resv EXCEPT ![x] = q]
  /\ reserved' = [reserved EXCEPT ![q] = @ + 1]
  /\ UNCHANGED <<fresh, from, active, timer, ctx, workq, overflow, outstanding, started,
                 toRelease, toSpawn, ghostVars>>

\* The Reservation that travels with an item
Reserve(x, q) ==
  /\ x \in fresh /\ resv[x] = NoQueue /\ q \in Reservable /\ Fits(q)
  /\ resv' = [resv EXCEPT ![x] = q]
  /\ reserved' = [reserved EXCEPT ![q] = @ + 1]
  /\ UNCHANGED <<fresh, from, active, timer, ctx, workq, overflow, outstanding, started,
                 toRelease, toSpawn, ghostVars>>

\* The Reservation is destroyed unused.
Unreserve(x) ==
  /\ x \in fresh /\ resv[x] # NoQueue
  /\ fresh' = fresh \ {x}
  /\ resv' = [resv EXCEPT ![x] = NoQueue]
  /\ reserved' = [reserved EXCEPT ![resv[x]] = @ - 1]
  /\ UNCHANGED <<from, active, timer, ctx, workq, overflow, outstanding, started,
                 toRelease, toSpawn, ghostVars>>

\* enqueueReserved at the end of the delay of a rescheduled item
Timeout(x) ==
  /\ timer[x] # NoQueue
  /\ timer' = [timer EXCEPT ![x] = NoQueue]
  /\ reserved' = [reserved EXCEPT ![timer[x]] = @ - 1]
  /\ Push(x, timer[x])
  /\ CallSpawn(timer[x])
  /\ UNCHANGED <<fresh, from, active, resv, ctx, overflow, outstanding, started, toRelease,
                 ghostVars>>

\* MUTANT of Start: without the spawn() at its end
StartOnly(q) ==
  /\ ~started[q]
  /\ started' = [started EXCEPT ![q] = TRUE]
  /\ UNCHANGED <<itemVars, workq, overflow, outstanding, reserved, toRelease, toSpawn, ghostVars>>

Start(q) ==
  /\ ~started[q]
  /\ started' = [started EXCEPT ![q] = TRUE]
  /\ CallSpawn(q)
  /\ UNCHANGED <<itemVars, workq, overflow, outstanding, reserved, toRelease, ghostVars>>

Stop(q) ==
  /\ started[q]
  /\ started' = [started EXCEPT ![q] = FALSE]
  /\ UNCHANGED <<itemVars, workq, overflow, outstanding, reserved, toRelease, toSpawn, ghostVars>>

-----------------------------------------------------------------------------
\* The calls that are due

\* MUTANT of Release: without the spawn() at its end
ReleaseOnly(q) ==
  /\ toRelease[q] > 0
  /\ toRelease' = [toRelease EXCEPT ![q] = @ - 1]
  /\ outstanding' = [outstanding EXCEPT ![q] = @ - 1]
  /\ UNCHANGED <<itemVars, workq, overflow, reserved, started, toSpawn, ghostVars>>

Release(q) ==
  /\ toRelease[q] > 0
  /\ toRelease' = [toRelease EXCEPT ![q] = @ - 1]
  /\ outstanding' = [outstanding EXCEPT ![q] = @ - 1]
  /\ toSpawn' = Due(toSpawn, {q})
  /\ UNCHANGED <<itemVars, workq, overflow, reserved, started, ghostVars>>

Least(m, n) == IF m <= n THEN m ELSE n
Room(q) == IF Size(q) < MaxSize[q] THEN MaxSize[q] - Size(q) ELSE 0
Elements(s) == {s[k] : k \in 1 .. Len(s)}

\* spawn() on a started queue: overflow items move up, and the queues they came
\* from are released; items move on to the job queue.
Spawn(q) ==
  LET up      == Least(Room(q), Len(overflow[q]))
      movedUp == Elements(SubSeq(overflow[q], 1, up))
      queue   == workq[q] \o SubSeq(overflow[q], 1, up)
      out     == Least(MaxOutstanding[q] - outstanding[q], Len(queue))
      movedOn == Elements(SubSeq(queue, 1, out))
  IN  /\ toSpawn[q] > 0 /\ started[q]
      /\ toSpawn' = [toSpawn EXCEPT ![q] = @ - 1]
      /\ overflow' = [overflow EXCEPT ![q] = SubSeq(@, up + 1, Len(@))]
      /\ from' = [x \in Items |-> IF x \in movedUp THEN NoQueue ELSE from[x]]
      /\ toRelease' = [a \in Queues |->
                         toRelease[a] + Cardinality({x \in movedUp : from[x] = a})]
      /\ workq' = [workq EXCEPT ![q] = SubSeq(queue, out + 1, Len(queue))]
      /\ outstanding' = [outstanding EXCEPT ![q] = @ + out]
      /\ active' = [active EXCEPT ![q] = @ \cup movedOn]
      /\ source' = [x \in Items |-> IF x \in movedOn THEN NoQueue ELSE source[x]]
      /\ ahead' = [x \in Items |-> IF x \in movedOn THEN {} ELSE ahead[x] \ movedOn]
      /\ UNCHANGED <<fresh, timer, resv, ctx, reserved, started>>

SpawnStopped(q) ==
  /\ toSpawn[q] > 0 /\ ~started[q]
  /\ toSpawn' = [toSpawn EXCEPT ![q] = @ - 1]
  /\ UNCHANGED <<itemVars, queueVars, toRelease, ghostVars>>

-----------------------------------------------------------------------------
\* What an item that runs may do

\* The item leaves q, and its context lives on only if kept: release() is due
\* on q, and on the queues recorded in a context that is destroyed.
Leave(x, q, kept) ==
  /\ active' = [active EXCEPT ![q] = @ \ {x}]
  /\ toRelease' = DueEach(Due(toRelease, {q}), IF kept THEN NoRecord ELSE ctx[x])
  /\ ctx' = IF kept THEN ctx ELSE [ctx EXCEPT ![x] = NoRecord]

\* One more entry of queue a in the context of x, which may have recorded it before
Record(x, a) ==
  /\ ctx[x][a] < MaxRecords
  /\ ctx' = [ctx EXCEPT ![x][a] = @ + 1]

Finish(x, q) ==
  /\ x \in active[q] /\ resv[x] = NoQueue
  /\ Leave(x, q, FALSE)
  /\ UNCHANGED <<fresh, from, timer, resv, queueVars, toSpawn, ghostVars>>

\* reschedule(): reserve(fromQueue) on the own queue, which may be full.  The
\* timer may end before the item has left the queue.
Reschedule(x, q) ==
  /\ x \in active[q] /\ resv[x] = NoQueue
  /\ timer' = [timer EXCEPT ![x] = q]
  /\ reserved' = [reserved EXCEPT ![q] = @ + 1]
  /\ Leave(x, q, TRUE)
  /\ UNCHANGED <<fresh, from, resv, workq, overflow, outstanding, started, toSpawn, ghostVars>>

Pending(b) == workq[b] \o overflow[b]

HandOver(x, a, b) ==
  /\ source' = [source EXCEPT ![x] = a]
  /\ ahead' = [ahead EXCEPT ![x] = {y \in Elements(Pending(b)) : source[y] = a}]

\* Reservation::enqueue: the item, on queue q, uses the place reserved for it.
Forward(x, q) ==
  /\ x \in active[q] /\ resv[x] # NoQueue
  /\ resv' = [resv EXCEPT ![x] = NoQueue]
  /\ reserved' = [reserved EXCEPT ![resv[x]] = @ - 1]
  /\ Push(x, resv[x])
  /\ CallSpawn(resv[x])
  /\ HandOver(x, q, resv[x])
  /\ Leave(x, q, FALSE)
  /\ UNCHANGED <<fresh, from, timer, overflow, outstanding, started>>

\* reEnqueue and reEnqueueSerialized from queue a to b, where there is room
ReEnqueue(x, a, b, serialized) ==
  /\ x \in active[a] /\ resv[x] = NoQueue /\ <<a, b>> \in Route /\ Fits(b)
  /\ Push(x, b)
  /\ CallSpawn(b)
  /\ IF a = b THEN UNCHANGED ghostVars ELSE HandOver(x, a, b)
  /\ \/ serialized /\ a = b /\ Leave(x, a, TRUE)
     \/ ~serialized /\ Leave(x, a, FALSE)
     \/ /\ serialized /\ a # b
        /\ Record(x, a)
        /\ active' = [active EXCEPT ![a] = @ \ {x}]
        /\ UNCHANGED toRelease
  /\ UNCHANGED <<fresh, from, timer, resv, overflow, outstanding, reserved, started>>

\* On the own queue, which is full: the item gives up its turn.
ReEnqueueSelf(x, q, serialized) ==
  /\ x \in active[q] /\ resv[x] = NoQueue /\ <<q, q>> \in Route /\ ~Fits(q)
  /\ Push(x, q)
  /\ outstanding' = [outstanding EXCEPT ![q] = @ - 1]
  /\ active' = [active EXCEPT ![q] = @ \ {x}]
  /\ toRelease' = DueEach(toRelease, IF serialized THEN NoRecord ELSE ctx[x])
  /\ ctx' = IF serialized THEN ctx ELSE [ctx EXCEPT ![x] = NoRecord]
  /\ UNCHANGED <<fresh, from, timer, resv, overflow, reserved, started, toSpawn, ghostVars>>

\* MUTANT of PushBack: fromQueue releases the item at once
PushBackReleased(x, a, b, serialized) ==
  /\ x \in active[a] /\ resv[x] = NoQueue /\ <<a, b>> \in Route /\ a # b /\ ~Fits(b)
  /\ overflow' = [overflow EXCEPT ![b] = Append(@, x)]
  /\ HandOver(x, a, b)
  /\ Leave(x, a, serialized)
  /\ UNCHANGED <<fresh, from, timer, resv, workq, outstanding, reserved, started, toSpawn>>

\* To another queue, which is full: a is not released before there is room in b.
PushBack(x, a, b, serialized) ==
  /\ x \in active[a] /\ resv[x] = NoQueue /\ <<a, b>> \in Route /\ a # b /\ ~Fits(b)
  /\ overflow' = [overflow EXCEPT ![b] = Append(@, x)]
  /\ HandOver(x, a, b)
  /\ active' = [active EXCEPT ![a] = @ \ {x}]
  /\ \/ /\ serialized /\ Record(x, a)
        /\ UNCHANGED <<from, toRelease>>
     \/ /\ ~serialized
        /\ from' = [from EXCEPT ![x] = a]
        /\ toRelease' = DueEach(toRelease, ctx[x])
        /\ ctx' = [ctx EXCEPT ![x] = NoRecord]
  /\ UNCHANGED <<fresh, timer, resv, workq, outstanding, reserved, started, toSpawn>>

-----------------------------------------------------------------------------
Next ==
  \/ \E x \in Items : Unreserve(x) \/ Timeout(x)
  \/ \E q \in Queues : Start(q) \/ Stop(q) \/ Release(q) \/ Spawn(q) \/ SpawnStopped(q)
  \/ \E x \in Items, q \in Queues :
       \/ Enqueue(x, q) \/ Reserve(x, q) \/ Finish(x, q) \/ Reschedule(x, q) \/ Forward(x, q)
       \/ \E s \in BOOLEAN :
            \/ ReEnqueueSelf(x, q, s)
            \/ \E b \in Queues : ReEnqueue(x, q, b, s) \/ PushBack(x, q, b, s)

Spec == Init /\ [][Next]_vars

\* Threads finish the calls they are in, timers expire, items end, and an item that
\* runs again and again (a query that waits for a lock) ends some time.
Fairness ==
  /\ \A q \in Queues : WF_vars(Release(q)) /\ WF_vars(Spawn(q) \/ SpawnStopped(q))
  /\ \A x \in Items : WF_vars(Timeout(x))
  /\ \A x \in Items, q \in Queues : SF_vars(Finish(x, q) \/ Forward(x, q))

FairSpec == Spec /\ Fairness

-----------------------------------------------------------------------------
\* The asserts of reserve, unreserve, enqueueReserved, reEnqueueInternal, release
\* and spawn on the counters.
AssertsHold ==
  \A q \in Queues :
    /\ outstanding[q] <= MaxOutstanding[q]
    /\ Size(q) <= MaxSize[q] + outstanding[q]
    /\ toRelease[q] > 0 => outstanding[q] > 0
    /\ (\E x \in Items : q \in {resv[x], timer[x]}) => reserved[q] > 0
    /\ active[q] # {} => outstanding[q] > 0

\* No lost wakeup: a started queue that has an item and a free turn has a call of
\* spawn() under way.
NoLostSpawn ==
  \A q \in Queues :
    started[q] /\ workq[q] # <<>> /\ outstanding[q] < MaxOutstanding[q] => toSpawn[q] > 0

\* Items that a single-threaded queue hands to another one run there in the order
\* they ran here ("the order of replicas is important"), also when some of them
\* find that queue full and others do not.
KeepsOrder ==
  \A b \in Queues : \A l \in 1 .. Len(Pending(b)) :
    LET x == Pending(b)[l]
    IN  source[x] # NoQueue /\ MaxOutstanding[source[x]] = 1 =>
          \A y \in ahead[x] : \E k \in 1 .. l - 1 : Pending(b)[k] = y

\* Once the queues stay started, every item that was accepted is executed.
EveryItemRuns ==
  <>[](\A q \in Queues : started[q]) =>
    \A x \in Items, q \in Queues : x \in Elements(Pending(q)) ~> x \in active[q]
=============================================================================
