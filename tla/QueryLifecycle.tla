--------------------------- MODULE QueryLifecycle ---------------------------
(***************************************************************************)
(* One Query object on one instance, and the threads that drive it:        *)
(*   "main"   the job that prepares and executes it (a client job on the   *)
(*            coordinator, the mtPreparePhysicalPlan job on a worker);     *)
(*   "error"  the thread that serves the query's serial error queue;       *)
(*   "other"  the job of another query that runs the operator cancel().    *)
(* The network threads set errors and put items on the error queue in      *)
(* steps of their own.  A critical section under Query::errorMutex is one  *)
(* step; error handlers and finalizers run outside of it, one per step.    *)
(***************************************************************************)
EXTENDS Integers, Sequences, SequencesExt

CONSTANTS Profiles   \* bound: the kinds of queries to look at

ASSUME ProfilesAssumption == Profiles \subseteq {"reader", "writer", "remover", "worker"}

VARIABLES profile,       \* what the query does, fixed at the start
          status,        \* _completionStatus
          commit,        \* _commitState
          error,         \* _error: none, a failure, or QUERY_ALREADY_COMMITED
          autoCommit,    \* _isAutoCommit
          errorHandlers, \* _errorHandlers, oldest first
          finalizers,    \* _finalizers, oldest first
          registered,    \* in Query::_queries
          errorQueue,    \* _errorQueue: the items waiting
          queueOpen,     \* _errorQueue is there and started
          pc,            \* pc[t]: where thread t is
          work,          \* work[t]: callbacks on the stack of thread t, next one first
          ran,           \* callbacks that took effect, in order (history)
          peer           \* the client of a coordinator, the coordinator of a worker

queryVars == <<status, commit, error, autoCommit, errorHandlers, finalizers>>
tableVars == <<registered, errorQueue, queueOpen>>
vars == <<profile, queryVars, tableVars, pc, work, ran, peer>>

Thread == {"main", "error", "other"}
IsCoordinator == profile # "worker"

Callback == {"broadcastAbort", "undo", "destroy", "close", "broadcastCommit",
             "releaseLocks", "record"}
Finalizer == Callback \ {"broadcastAbort", "undo"}

\* The main routine, between start() and stop() or done()
Executing == {"parsing", "locking", "locked", "starting", "pushed", "running", "ran", "finishing"}

\* Where an exception of the main routine ends in done(e)
Raising == (Executing \ {"finishing"}) \cup {"created"}

MainPc == Executing \cup {"attached", "created", "prepared", "commit", "reply",
                          "unwind", "abortOnDone", "lookup", "abort", "end"}

TypeOK ==
  /\ profile \in Profiles
  /\ status \in {"INIT", "START", "OK", "ERROR"}
  /\ commit \in {"UNKNOWN", "COMMITTED", "ABORTED"}
  /\ error \in {"none", "failure", "committed"}
  /\ autoCommit \in BOOLEAN
  /\ errorHandlers \in Seq(Callback \ Finalizer) /\ finalizers \in Seq(Finalizer)
  /\ registered \in BOOLEAN /\ queueOpen \in BOOLEAN
  /\ errorQueue \in Seq({"cancel", "disconnect", "complete", "mtAbort", "mtCommit"})
  /\ pc["main"] \in MainPc
  /\ pc["error"] \in {"idle", "abort", "commit"}
  /\ pc["other"] \in {"idle", "abort", "end"}
  /\ work \in [Thread -> Seq(Callback)]
  /\ ran \in Seq(Callback)
  /\ peer \in {"waiting", "answered", "completed", "gone", "missed", "commit", "abort"}

\* Query::init pushes these before anybody else can see the query.
Init ==
  /\ profile \in Profiles
  /\ status = "INIT" /\ commit = "UNKNOWN" /\ error = "none" /\ autoCommit = FALSE
  /\ errorHandlers = IF IsCoordinator THEN <<"broadcastAbort">> ELSE <<>>
  /\ finalizers = IF IsCoordinator THEN <<"destroy", "broadcastCommit">> ELSE <<"destroy">>
  /\ registered = ~IsCoordinator
  /\ errorQueue = <<>> /\ queueOpen = TRUE
  /\ pc = [main |-> IF IsCoordinator THEN "attached" ELSE "created",
           error |-> "idle", other |-> "idle"]
  /\ work = [t \in Thread |-> <<>>]
  /\ ran = <<>>
  /\ peer = "waiting"

Idle(t) == work[t] = <<>>
At(t, label) == Idle(t) /\ pc[t] = label
Goto(t, label) == pc' = [pc EXCEPT ![t] = label]

\* checkNoError does not raise
NoError ==
  \/ error = "none"
  \/ autoCommit /\ commit = "COMMITTED" /\ error = "committed"

-----------------------------------------------------------------------------
\* The main routine of a coordinator: prepareClientQuery or executeClientQuery
\* attached the identifier to the connection and now create the query.
Create ==
  /\ At("main", "attached")
  /\ registered' = TRUE
  /\ Goto("main", "created")
  /\ UNCHANGED <<profile, queryVars, errorQueue, queueOpen, work, ran, peer>>

\* Query::start, with the calls of validate() that precede it
Start(from, to) ==
  /\ At("main", from)
  /\ NoError
  /\ status' = "START"
  /\ Goto("main", to)
  /\ UNCHANGED <<profile, commit, error, autoCommit, errorHandlers, finalizers, tableVars,
                 work, ran, peer>>

Prepare == Start("created", IF IsCoordinator THEN "parsing" ELSE "starting")

\* executeQuery, on a message of its own or right after the preparation
Execute == registered /\ Start("prepared", "starting")

\* Query::pushFinalizer
PushFinalizer(from, to, f) ==
  /\ At("main", from)
  /\ NoError
  /\ finalizers' = Append(finalizers, f)
  /\ Goto("main", to)
  /\ UNCHANGED <<profile, status, commit, error, autoCommit, errorHandlers, tableVars,
                 work, ran, peer>>

\* A step of the main routine that changes nothing but where it is
Continue(from, to) ==
  /\ At("main", from)
  /\ Goto("main", to)
  /\ UNCHANGED <<profile, queryVars, tableVars, work, ran, peer>>

AcquireLocks == PushFinalizer("parsing", "locking", "releaseLocks")

\* acquireLocksInternal got all the locks, in the first or in a later attempt
Locked == NoError /\ Continue("locking", "locked")

\* Query::stop at the end of prepareQueryAfterLocking
Stop ==
  /\ At("main", "locked")
  /\ NoError
  /\ status' = "INIT"
  /\ Goto("main", "prepared")
  /\ UNCHANGED <<profile, commit, error, autoCommit, errorHandlers, finalizers, tableVars,
                 work, ran, peer>>

\* preSingleExecute on a coordinator, execute() on a worker: whoever changes
\* something installs a handler that undoes it.
PushErrorHandler ==
  /\ At("main", "starting")
  /\ profile = "reader" \/ NoError
  /\ errorHandlers' = IF profile = "reader" THEN errorHandlers ELSE Append(errorHandlers, "undo")
  /\ Goto("main", "pushed")
  /\ UNCHANGED <<profile, status, commit, error, autoCommit, finalizers, tableVars, work, ran, peer>>

\* setAutoCommit takes no lock and checks nothing.
SetAutoCommit ==
  /\ profile = "remover"
  /\ At("main", "pushed")
  /\ autoCommit' = TRUE
  /\ Goto("main", "running")
  /\ UNCHANGED <<profile, status, commit, error, errorHandlers, finalizers, tableVars, work, ran, peer>>

Run ==
  \/ profile \in {"reader", "writer"} /\ Continue("pushed", "running")
  \/ profile = "worker" /\ PushFinalizer("pushed", "running", "releaseLocks")

\* The local part is executed, everybody answered, and the last validate() passed.
Executed == NoError /\ Continue("running", "ran")

PostSingleExecute ==
  \/ profile = "writer" /\ PushFinalizer("ran", "finishing", "record")
  \/ profile # "writer" /\ Continue("ran", "finishing")

\* MUTANT of Done: done() does not look at the error
DoneUnchecked ==
  /\ At("main", "finishing")
  /\ status' = "OK"
  /\ commit' = IF autoCommit THEN "COMMITTED" ELSE commit
  /\ Goto("main", IF autoCommit THEN "commit" ELSE "reply")
  /\ UNCHANGED <<profile, error, autoCommit, errorHandlers, finalizers, tableVars,
                 work, ran, peer>>

\* Query::done().  An autoCommit query commits whatever error came meanwhile.
Done ==
  LET failed == ~autoCommit /\ error # "none"
  IN  /\ At("main", "finishing")
      /\ status' = IF failed THEN "ERROR" ELSE "OK"
      /\ commit' = IF autoCommit THEN "COMMITTED" ELSE commit
      /\ Goto("main", IF failed THEN "unwind" ELSE IF autoCommit THEN "commit" ELSE "reply")
      /\ UNCHANGED <<profile, error, autoCommit, errorHandlers, finalizers, tableVars,
                     work, ran, peer>>

\* An exception leaves the main routine: checkNoError() raises an error that
\* somebody else set, or the query is no longer found.
Raise ==
  \/ pc["main"] \in Raising /\ ~NoError /\ Continue(pc["main"], "unwind")
  \/ ~NoError /\ registered /\ Continue("prepared", "unwind")
  \/ ~registered /\ Continue("prepared", "lookup")

\* The exception is a failure of the routine itself.
Fail ==
  \/ pc["main"] \in Raising /\ Continue(pc["main"], "unwind")
  \/ Continue("attached", "lookup")

\* MUTANT of DoneWithException: a pending abort is not completed
DoneWithExceptionNoAbort ==
  /\ At("main", "unwind")
  /\ error' = IF error = "none" THEN "failure" ELSE error
  /\ status' = "ERROR"
  /\ Goto("main", IF IsCoordinator THEN "lookup" ELSE "end")
  /\ UNCHANGED <<profile, commit, autoCommit, errorHandlers, finalizers, tableVars, work, ran, peer>>

\* Query::done(unwindException)
DoneWithException ==
  /\ At("main", "unwind")
  /\ error' = IF error = "none" THEN "failure" ELSE error
  /\ status' = "ERROR"
  /\ Goto("main", IF commit # "UNKNOWN" THEN "abortOnDone"
                  ELSE IF IsCoordinator THEN "lookup" ELSE "end")
  /\ UNCHANGED <<profile, commit, autoCommit, errorHandlers, finalizers, tableVars, work, ran, peer>>

\* handleExecuteOrPrepareError: cancelQuery, unless the query is not found
Lookup == Continue("lookup", IF registered THEN "abort" ELSE "end")

\* postExecuteQueryInternal on a coordinator, the mtQueryResult of a worker
Reply ==
  /\ At("main", "reply")
  /\ IF IsCoordinator /\ ~NoError
     THEN /\ Goto("main", "lookup")
          /\ UNCHANGED peer
     ELSE /\ Goto("main", "end")
          /\ peer' = IF peer = "waiting" /\ IsCoordinator THEN "answered" ELSE peer
  /\ UNCHANGED <<profile, queryVars, tableVars, work, ran>>

\* The request queue of a worker is full: the job of the plan is never run.
PlanDropped ==
  /\ ~IsCoordinator
  /\ At("main", "created")
  /\ error' = IF error = "none" THEN "failure" ELSE error
  /\ Goto("main", "end")
  /\ UNCHANGED <<profile, status, commit, autoCommit, errorHandlers, finalizers, tableVars,
                 work, ran, peer>>

-----------------------------------------------------------------------------
\* handleAbort and handleCommit, called by thread t

\* MUTANT of AbortRefused: an autoCommit query may be aborted while it runs
AbortRefusedOnlyAfterCommit == commit = "COMMITTED"

AbortRefused ==
  \/ commit = "COMMITTED"
  \/ autoCommit /\ status = "START"

\* MUTANT of InProgress: handleAbort does not wait for done()
NeverInProgress == FALSE

\* handleAbort leaves the callbacks to done() when the query still executes
InProgress == status = "START"

\* MUTANT of Lifo: the callbacks are run in the order in which they were pushed
Fifo(stack) == stack

\* invokeErrorHandlers and invokeFinalizers walk the deque backwards
Lifo(stack) == Reverse(stack)

AfterAbort(t) ==
  IF t = "error" THEN "idle"
  ELSE IF pc[t] = "abortOnDone" /\ IsCoordinator THEN "lookup" ELSE "end"

\* Both stacks are swapped into local variables of thread t
TakeAll(t) ==
  /\ work' = [work EXCEPT ![t] = Lifo(errorHandlers) \o Lifo(finalizers)]
  /\ errorHandlers' = <<>> /\ finalizers' = <<>>

HandleAbort(t) ==
  /\ At(t, "abort") \/ At(t, "abortOnDone")
  /\ Goto(t, AfterAbort(t))
  /\ IF AbortRefused
     THEN UNCHANGED <<commit, error, errorHandlers, finalizers, work>>
     ELSE /\ commit' = "ABORTED"
          /\ error' = IF error = "none" THEN "failure" ELSE error
          /\ IF InProgress
             THEN UNCHANGED <<errorHandlers, finalizers, work>>
             ELSE TakeAll(t)
  /\ UNCHANGED <<profile, status, autoCommit, tableVars, ran, peer>>

HandleCommit(t) ==
  /\ At(t, "commit")
  /\ Goto(t, IF t = "main" THEN "reply" ELSE "idle")
  /\ IF status # "OK" \/ commit = "ABORTED"
     THEN UNCHANGED <<commit, error, errorHandlers, finalizers, work>>
     ELSE /\ commit' = "COMMITTED"
          /\ error' = IF error = "none" THEN "committed" ELSE error
          /\ errorHandlers' = <<>> /\ finalizers' = <<>>
          /\ work' = [work EXCEPT ![t] = Lifo(finalizers)]
  /\ UNCHANGED <<profile, status, autoCommit, tableVars, ran, peer>>

\* MUTANT of TakesEffect: the finalizers do not ask wasCommitted()
TakesEffectAlways(cb) == TRUE

\* recordPersistent and broadcastCommitFinalizer do nothing for an aborted query.
TakesEffect(cb) == cb \in {"record", "broadcastCommit"} => commit = "COMMITTED"

\* Thread t runs the next error handler or finalizer.  Query::destroy takes the
\* query out of the table before it locks errorMutex again to drop the queue.
RunCallback(t) ==
  /\ work[t] # <<>>
  /\ LET cb == Head(work[t])
     IN  /\ work' = [work EXCEPT ![t] = IF cb = "destroy" THEN <<"close">> \o Tail(@) ELSE Tail(@)]
         /\ ran' = IF TakesEffect(cb) THEN Append(ran, cb) ELSE ran
         /\ registered' = (registered /\ cb # "destroy")
         /\ queueOpen' = (queueOpen /\ cb # "close")
         /\ errorQueue' = IF cb = "close" THEN <<>> ELSE errorQueue
  /\ UNCHANGED <<profile, queryVars, pc, peer>>

-----------------------------------------------------------------------------
\* The error queue: one item at a time.  The items of a client look the query
\* up again; those of the network carry a pointer to it.
TakeItem ==
  /\ At("error", "idle")
  /\ queueOpen /\ errorQueue # <<>>
  /\ LET item == Head(errorQueue)
         lost == item \in {"cancel", "complete"} /\ ~registered
     IN  Goto("error", IF lost THEN "idle"
                       ELSE IF item \in {"complete", "mtCommit"} THEN "commit" ELSE "abort")
  /\ errorQueue' = Tail(errorQueue)
  /\ UNCHANGED <<profile, queryVars, registered, queueOpen, work, ran, peer>>

\* What the network threads do with an item for a query that is not there: nothing
Enqueue(item) ==
  errorQueue' = IF registered /\ queueOpen THEN Append(errorQueue, item) ELSE errorQueue

\* PhysicalCancel::execute of another query, in the thread of that query
CancelFromOperator ==
  /\ At("other", "idle")
  /\ registered
  /\ Goto("other", "abort")
  /\ UNCHANGED <<profile, queryVars, tableVars, work, ran, peer>>

\* handleError: an mtError message, a broken connection, a changed liveness
HandleError ==
  /\ registered
  /\ error = "none"
  /\ error' = "failure"
  /\ UNCHANGED <<profile, status, commit, autoCommit, errorHandlers, finalizers, tableVars,
                 pc, work, ran, peer>>

\* mtCompleteQuery from the client that was answered
ClientComplete ==
  /\ peer = "answered"
  /\ peer' = "completed"
  /\ Enqueue("complete")
  /\ UNCHANGED <<profile, queryVars, registered, queueOpen, pc, work, ran>>

\* mtCancelQuery, from this client or another; one at a time is waiting.
ClientCancel ==
  /\ IsCoordinator /\ commit = "UNKNOWN" /\ registered /\ queueOpen
  /\ ~Contains(errorQueue, "cancel")
  /\ Enqueue("cancel")
  /\ UNCHANGED <<profile, queryVars, registered, queueOpen, pc, work, ran, peer>>

\* handleClientDisconnect; it finds no query that is not yet inserted
ClientDisconnect ==
  /\ IsCoordinator /\ peer \notin {"gone", "missed"}
  /\ peer' = IF pc["main"] = "attached" THEN "missed" ELSE "gone"
  /\ Enqueue("disconnect")
  /\ UNCHANGED <<profile, queryVars, registered, queueOpen, pc, work, ran>>

\* handleLivenessNotification on a worker whose coordinator is dead or restarted
CoordinatorSuspected ==
  /\ ~IsCoordinator /\ commit = "UNKNOWN" /\ registered /\ queueOpen
  /\ ~Contains(errorQueue, "mtAbort")
  /\ error' = IF error = "none" THEN "failure" ELSE error
  /\ Enqueue("mtAbort")
  /\ UNCHANGED <<profile, status, commit, autoCommit, errorHandlers, finalizers, registered,
                 queueOpen, pc, work, ran, peer>>

\* mtCommit, which a coordinator sends only when the result has come, or mtAbort
CoordinatorDecides ==
  /\ ~IsCoordinator /\ peer = "waiting"
  /\ \/ peer' = "abort" /\ Enqueue("mtAbort")
     \/ pc["main"] = "end" /\ status = "OK" /\ peer' = "commit" /\ Enqueue("mtCommit")
  /\ UNCHANGED <<profile, queryVars, registered, queueOpen, pc, work, ran>>

-----------------------------------------------------------------------------
\* What the main routine does on its own, without a client or a lock
MainStep ==
  \/ Create \/ Prepare \/ AcquireLocks \/ Stop \/ PushErrorHandler \/ SetAutoCommit \/ Run
  \/ Executed \/ PostSingleExecute \/ Done \/ Raise \/ DoneWithException \/ Lookup \/ Reply

CallbackStep(t) == HandleAbort(t) \/ HandleCommit(t) \/ RunCallback(t)

Next ==
  \/ MainStep \/ Locked \/ Execute \/ Fail \/ PlanDropped
  \/ \E t \in Thread : CallbackStep(t)
  \/ TakeItem \/ CancelFromOperator \/ HandleError
  \/ ClientComplete \/ ClientCancel \/ ClientDisconnect
  \/ CoordinatorSuspected \/ CoordinatorDecides

Spec == Init /\ [][Next]_vars

\* Threads make progress, and a coordinator decides or is replaced by one that does.
Fairness ==
  /\ WF_vars(MainStep)
  /\ \A t \in Thread : WF_vars(CallbackStep(t))
  /\ WF_vars(TakeItem)
  /\ WF_vars(CoordinatorDecides)

FairSpec == Spec /\ Fairness

\* As FairSpec, and no query waits for its locks forever
PatientSpec == FairSpec /\ WF_vars(Locked)

-----------------------------------------------------------------------------
Did(cb) == Contains(ran, cb)
Before(a, b) == \A i, j \in 1..Len(ran) : ran[i] = b /\ ran[j] = a => j < i

\* No callback is run twice.
RunsOnce == \A i, j \in 1..Len(ran) : ran[i] = ran[j] => i = j

\* invokeFinalizers asserts checkFinalState(): when the finalizers are run, no
\* other is left to run and the query is over, or failed before it started.
FinalState ==
  \A t \in Thread :
    work[t] # <<>> /\ work[t][1] \in Finalizer =>
      /\ finalizers = <<>>
      /\ \/ status = "INIT" /\ error # "none"
         \/ status \in {"OK", "ERROR"}

\* No error handler and no finalizer runs while the main routine is between
\* start() and stop() or done() (Query.h, pushErrorHandler and pushFinalizer), and
\* the finalizers only in a final state.
RunsAfterMain ==
  /\ TypeOK /\ FinalState
  /\ pc["main"] \in Executing => \A t \in Thread : Idle(t)

\* However often and from however many threads the query is aborted or committed,
\* each callback takes effect at most once; the changes are undone or recorded while
\* the locks are held, the workers are told to commit only after that, and the query
\* goes away last.
CleanupOrder ==
  /\ RunsOnce
  /\ Before("undo", "releaseLocks") /\ Before("record", "releaseLocks")
  /\ Before("record", "broadcastCommit") /\ Before("releaseLocks", "broadcastCommit")
  /\ \A cb \in Callback \ {"destroy", "close"} : Before(cb, "destroy")

\* All or nothing: a query whose changes were undone records no version and no
\* commit is broadcast for it, and one that is committed undoes nothing; a
\* committed writer that left the table has recorded its version.
AllOrNothing ==
  /\ Did("undo") => ~Did("record") /\ ~Did("broadcastCommit") /\ commit = "ABORTED"
  /\ Did("destroy") /\ commit = "COMMITTED" /\ profile = "writer" => Did("record")
  /\ Did("destroy") /\ commit = "ABORTED" => ~Did("record") /\ ~Did("broadcastCommit")

\* handleCommit asserts that it is never called for a query that was aborted or
\* that did not succeed.
CommitPossible == \A t \in Thread : At(t, "commit") => status = "OK" /\ commit # "ABORTED"

\* The same as long as no other query runs cancel() on this one: what comes through
\* the error queue is serialised with what the coordinator or the client decides.
CommitPossibleInQueue == pc["other"] = "idle" => CommitPossible

\* handleAbort asserts that it is never called for a query that was committed.
AbortPossible ==
  \A t \in Thread : At(t, "abort") \/ At(t, "abortOnDone") => commit # "COMMITTED"

\* A query keeps the promise of QueryOutcome.
Outcome ==
  INSTANCE QueryOutcome WITH
    verdict <- commit,
    announced <- IF Did("broadcastCommit") THEN "COMMITTED"
                 ELSE IF Did("broadcastAbort") THEN "ABORTED" ELSE "UNKNOWN",
    left <- Did("destroy")

ImplementsOutcome == Outcome!Spec

\* A query that the client completed or abandoned, that the coordinator decided,
\* or that reached a verdict by itself leaves the table: with it go its locks.
Decided == peer \in {"completed", "gone", "commit", "abort"} \/ commit # "UNKNOWN"
Over == ~registered /\ pc["main"] # "attached"
Settles == Decided ~> Over

\* The same for a client that went away before its query was inserted: all queries
\* attached to the connection are aborted (comment in NetworkManager::reconnect).
SettlesUnseen == peer = "missed" ~> Over
=============================================================================
