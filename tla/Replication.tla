---------------------------- MODULE Replication -----------------------------
(***************************************************************************)
(* Replication of chunks from one instance to another.  The threads of a   *)
(* query hand their replicas to the ReplicationManager, which keeps one    *)
(* queue per destination and moves it, in order, into the bounded channel  *)
(* of the connection.  The channel sends what the receiver has announced   *)
(* room for.  At its end a query sends an eof and waits for its ack.       *)
(*                                                                         *)
(* A step of a thread inside ReplicationManager is one critical section of *)
(* _repMutex, except for the loop of wait(), which holds it (owner) while  *)
(* the network thread empties the channel.                                 *)
(***************************************************************************)
EXTENDS Integers, FiniteSets, Sequences

CONSTANTS Queries,                \* a store runs in one thread
          ChunksOf,               \* bound: ChunksOf[q], the chunks that q may write
          SendLimit,              \* _sendQueueLimit of the channel
          ReceiveHint,            \* getReceiveQueueHint: _remoteSize before the receiver tells
          SoftLimit, NumInst,     \* of getAvailableRepSlots and _getAvailable
          MaxControl,             \* bound: messages to the sender when a control message is added
          MaxFaults,              \* bound: errors and broken connections
          ConnectionsBreak,       \* whether broken connections are among them
          NoThread

ASSUME ReplicationAssumption ==
  /\ NoThread \notin Queries
  /\ ChunksOf \in [Queries -> Nat]
  /\ {SendLimit, SoftLimit, NumInst, MaxControl} \subseteq Nat \ {0} /\ ReceiveHint \in Nat
  /\ MaxFaults \in Nat /\ ConnectionsBreak \in BOOLEAN

\* Chunks 1, 2, ... of a query and its eof, 0
Items == UNION {{q} \X (0 .. ChunksOf[q]) : q \in Queries}
Owner(x) == x[1]
IsEof(x) == x[2] = 0

VARIABLES pc,         \* of the thread of each query
          chunks,     \* how many chunks it has replicated
          item,       \* item[q]: the number of its current item
          state,      \* of each item: _isDone and _error
          repq,       \* _repQueue of the destination
          owner,      \* the thread that is in the loop of wait() and holds _repMutex
          valid,      \* the query has no error on the sender
          msgQ,       \* _msgQ of the channel
          remoteSize, localSn, snOnPeer, gen, \* of the channel; gen: _localGenId
          status,     \* "space": _statusesToPublish says that the channel has space again
          wire,       \* from the sender to the receiver
          wireBack,   \* from the receiver to the sender
          acked,      \* queries whose semaphore the ack has released
          inbound,    \* inbound[q]: queued replicas of q on the receiver
          rvalid,     \* the query has no error on the receiver
          stored,     \* replicas that are in the receiver's storage
          knownSn, knownGen, \* _remoteSeqNum and _remoteGenId of the receiver's channel
          faults

threadVars == <<pc, chunks, item, state, repq, owner, valid>>
channelVars == <<msgQ, remoteSize, localSn, snOnPeer, gen, status>>
receiverVars == <<inbound, rvalid, stored, knownSn, knownGen>>
vars == <<threadVars, channelVars, wire, wireBack, acked, receiverVars, faults>>

Messages == [kind : {"chunk"}, item : Items] \cup [kind : {"control"}, gen : Nat, sn : Nat]
Answers == [kind : {"ack"}, query : Queries]
             \cup [kind : {"control"}, gen : Nat, sn : Nat, avail : Nat]

TypeOK ==
  /\ pc \in [Queries -> {"idle", "run", "written", "loop", "blocked", "woken", "ack", "done", "threw"}]
  /\ \A f \in {chunks, item} : f \in [Queries -> Nat] /\ \A q \in Queries : f[q] <= ChunksOf[q]
  /\ state \in [Items -> {"new", "pending", "sent", "failed"}]
  /\ repq \in Seq(Items) /\ msgQ \in Seq(Items)
  /\ owner \in Queries \cup {NoThread}
  /\ valid \in [Queries -> BOOLEAN] /\ rvalid \in [Queries -> BOOLEAN]
  /\ remoteSize \in Nat /\ localSn \in Nat /\ snOnPeer \in Nat /\ gen \in Nat
  /\ status \in {"none", "space"}
  /\ wire \in Seq(Messages) /\ wireBack \in Seq(Answers)
  /\ acked \subseteq Queries
  /\ inbound \in [Queries -> Seq(Items)]
  /\ stored \subseteq Items
  /\ knownSn \in Nat /\ knownGen \in Nat /\ faults \in 0 .. MaxFaults

Init ==
  /\ pc = [q \in Queries |-> "idle"]
  /\ chunks = [q \in Queries |-> 0] /\ item = [q \in Queries |-> 0]
  /\ state = [x \in Items |-> "new"]
  /\ repq = <<>> /\ msgQ = <<>> /\ owner = NoThread
  /\ valid = [q \in Queries |-> TRUE] /\ rvalid = [q \in Queries |-> TRUE]
  /\ remoteSize = ReceiveHint /\ localSn = 0 /\ snOnPeer = 0 /\ gen = 1
  /\ status = "none" /\ wire = <<>> /\ wireBack = <<>> /\ acked = {}
  /\ inbound = [q \in Queries |-> <<>>]
  /\ stored = {} /\ knownSn = 0 /\ knownGen = 0 /\ faults = 0

Item(q) == <<q, item[q]>>
IsDone(x) == state[x] \in {"sent", "failed"}
Started(q) == pc[q] # "idle"

-----------------------------------------------------------------------------
\* The channel

HasSpace == Len(msgQ) < SendLimit

\* pushBack into a channel with space; the status that it is used up replaces an earlier one,
\* and nobody listens to it.
PushBack(x) ==
  /\ HasSpace
  /\ msgQ' = Append(msgQ, x)
  /\ status' = IF Len(msgQ) + 1 = SendLimit THEN "none" ELSE status
  /\ UNCHANGED <<remoteSize, localSn, snOnPeer, gen>>

\* Mutant: the messages in flight are not counted.
WindowIgnoringFlight == IF remoteSize < Len(msgQ) THEN remoteSize ELSE Len(msgQ)

\* How many messages popFront may take
Window ==
  LET open == remoteSize - (localSn - snOnPeer)
  IN  IF open <= 0 THEN 0 ELSE IF open < Len(msgQ) THEN open ELSE Len(msgQ)

\* Mutant: a pop from a full channel gives no status.
PushNextMessageSilent(k) ==
  /\ k \in 1 .. Window
  /\ msgQ' = SubSeq(msgQ, k + 1, Len(msgQ))
  /\ localSn' = localSn + k
  /\ wire' = wire \o [i \in 1 .. k |-> [kind |-> "chunk", item |-> msgQ[i]]]
                  \o <<[kind |-> "control", gen |-> gen, sn |-> localSn + k]>>
  /\ UNCHANGED <<threadVars, remoteSize, snOnPeer, gen, status, wireBack, acked, receiverVars, faults>>

\* pushNextMessage: a batch of messages, and a control message at its end
PushNextMessage(k) ==
  /\ k \in 1 .. Window
  /\ msgQ' = SubSeq(msgQ, k + 1, Len(msgQ))
  /\ localSn' = localSn + k
  /\ status' = IF HasSpace THEN status ELSE "space"
  /\ wire' = wire \o [i \in 1 .. k |-> [kind |-> "chunk", item |-> msgQ[i]]]
                  \o <<[kind |-> "control", gen |-> gen, sn |-> localSn + k]>>
  /\ UNCHANGED <<threadVars, remoteSize, snOnPeer, gen, wireBack, acked, receiverVars, faults>>

\* The same for an mtAlive that waits in the other channel.  One that would repeat what the
\* receiver has been told is left out: it changes nothing there.
PushAlive ==
  /\ wire = <<>> /\ <<gen, localSn>> # <<knownGen, knownSn>>
  /\ wire' = Append(wire, [kind |-> "control", gen |-> gen, sn |-> localSn])
  /\ UNCHANGED <<threadVars, channelVars, wireBack, acked, receiverVars, faults>>

\* publishQueueSize and handleConnectionStatus: _repEvent.signal() wakes everyone.
PublishQueueSize ==
  /\ status = "space" /\ owner = NoThread
  /\ status' = "none"
  /\ pc' = [q \in Queries |-> IF pc[q] = "blocked" THEN "woken" ELSE pc[q]]
  /\ UNCHANGED <<chunks, item, state, repq, owner, valid, msgQ, remoteSize, localSn, snOnPeer, gen,
                 wire, wireBack, acked, receiverVars, faults>>

\* setRemoteState, from the head of wireBack
SetRemoteState(m) ==
  LET sn == IF m.gen < gen THEN 0 ELSE m.sn
  IN  IF m.gen > gen \/ sn > localSn
      THEN UNCHANGED <<remoteSize, snOnPeer>>
      ELSE remoteSize' = m.avail /\ snOnPeer' = sn

HandleControlMessage ==
  /\ wireBack # <<>> /\ Head(wireBack).kind = "control"
  /\ wireBack' = Tail(wireBack)
  /\ SetRemoteState(Head(wireBack))
  /\ UNCHANGED <<threadVars, msgQ, localSn, gen, status, wire, acked, receiverVars, faults>>

\* replicationAck
HandleReplicaSyncResponse ==
  /\ wireBack # <<>> /\ Head(wireBack).kind = "ack"
  /\ wireBack' = Tail(wireBack)
  /\ acked' = IF valid[Head(wireBack).query] THEN acked \cup {Head(wireBack).query} ELSE acked
  /\ UNCHANGED <<threadVars, channelVars, wire, receiverVars, faults>>

-----------------------------------------------------------------------------
\* ReplicationManager

\* sendItem on the queue rq, whose head is x: the four ways it can go
AlreadyDone(rq) ==
  IsDone(Head(rq)) /\ repq' = Tail(rq) /\ UNCHANGED <<state, channelVars>>

QueryFailed(rq) ==
  /\ ~IsDone(Head(rq)) /\ ~valid[Owner(Head(rq))]
  /\ state' = [state EXCEPT ![Head(rq)] = "failed"]
  /\ repq' = Tail(rq) /\ UNCHANGED channelVars

Pushed(rq) ==
  /\ ~IsDone(Head(rq)) /\ valid[Owner(Head(rq))]
  /\ PushBack(Head(rq))
  /\ state' = [state EXCEPT ![Head(rq)] = "sent"]
  /\ repq' = Tail(rq)

Overflows(rq) == ~IsDone(Head(rq)) /\ valid[Owner(Head(rq))] /\ ~HasSpace

SendItem(rq) == AlreadyDone(rq) \/ QueryFailed(rq) \/ Pushed(rq)

\* A store starts, on both instances.
Begin(q) ==
  /\ ~Started(q)
  /\ pc' = [pc EXCEPT ![q] = "run"]
  /\ UNCHANGED <<chunks, item, state, repq, owner, valid, channelVars, wire, wireBack, acked,
                 receiverVars, faults>>

\* send(): only the first item of the queue is tried at once.
Send(q, n) ==
  /\ pc[q] = "run" /\ owner = NoThread
  /\ item' = [item EXCEPT ![q] = n]
  /\ pc' = [pc EXCEPT ![q] = "written"]
  /\ LET x == <<q, n>> IN
       \/ repq = <<>> /\ SendItem(<<x>>)
       \/ /\ repq # <<>> \/ Overflows(<<x>>)
          /\ repq' = Append(repq, x)
          /\ state' = [state EXCEPT ![x] = "pending"]
          /\ UNCHANGED channelVars
  /\ UNCHANGED <<owner, valid, wire, wireBack, acked, receiverVars, faults>>

\* writeChunk replicates a chunk; replicationSync, after the last one, the eof.
Replicate(q) ==
  /\ chunks[q] < ChunksOf[q]
  /\ chunks' = [chunks EXCEPT ![q] = @ + 1]
  /\ Send(q, chunks[q] + 1)

ReplicationSync(q) ==
  /\ Send(q, 0)
  /\ UNCHANGED chunks

\* Where a thread goes on when wait() returns or throws
AfterWait(q, s) ==
  IF s # "sent" THEN "threw" ELSE IF IsEof(Item(q)) THEN "ack" ELSE "run"

\* wait() is entered, or goes on after _repEvent.wait().
Wait(q) ==
  /\ pc[q] \in {"written", "woken"} /\ owner = NoThread
  /\ IF IsDone(Item(q))
     THEN pc' = [pc EXCEPT ![q] = AfterWait(q, state[Item(q)])] /\ UNCHANGED owner
     ELSE pc' = [pc EXCEPT ![q] = "loop"] /\ owner' = q
  /\ UNCHANGED <<chunks, item, state, repq, valid, channelVars, wire, wireBack, acked, receiverVars,
                 faults>>

\* The loop of wait(): the head of the queue goes, whoever it belongs to.
WaitSends(q) ==
  /\ owner = q
  /\ SendItem(repq)
  /\ IF Head(repq) = Item(q)
     THEN owner' = NoThread /\ pc' = [pc EXCEPT ![q] = AfterWait(q, state'[Item(q)])]
     ELSE UNCHANGED <<owner, pc>>
  /\ UNCHANGED <<chunks, item, valid, wire, wireBack, acked, receiverVars, faults>>

\* It cannot go: checkItemState throws for a failed query, or the thread blocks.
WaitBlocks(q) ==
  /\ owner = q
  /\ Overflows(repq)
  /\ owner' = NoThread
  /\ IF valid[q]
     THEN pc' = [pc EXCEPT ![q] = "blocked"] /\ UNCHANGED state
     ELSE /\ pc' = [pc EXCEPT ![q] = "threw"]
          /\ state' = [state EXCEPT ![Item(q)] = "failed"]
  /\ UNCHANGED <<chunks, item, repq, valid, channelVars, wire, wireBack, acked, receiverVars, faults>>

\* The periodic checkItemState of a blocked thread
WaitChecks(q) ==
  /\ pc[q] = "blocked" /\ owner = NoThread
  /\ \/ /\ IsDone(Item(q))
        /\ pc' = [pc EXCEPT ![q] = "woken"]
        /\ UNCHANGED state
     \/ /\ ~IsDone(Item(q)) /\ ~valid[q]
        /\ pc' = [pc EXCEPT ![q] = "threw"]
        /\ state' = [state EXCEPT ![Item(q)] = "failed"]
  /\ UNCHANGED <<chunks, item, repq, owner, valid, channelVars, wire, wireBack, acked, receiverVars,
                 faults>>

\* The chunk cannot be written locally: abortReplicas leaves the item in the queue.
AbortReplicas(q) ==
  /\ faults < MaxFaults /\ faults' = faults + 1
  /\ pc[q] = "written" /\ ~IsEof(Item(q)) /\ owner = NoThread
  /\ pc' = [pc EXCEPT ![q] = "threw"]
  /\ state' = [state EXCEPT ![Item(q)] = IF IsDone(Item(q)) THEN @ ELSE "failed"]
  /\ UNCHANGED <<chunks, item, repq, owner, valid, channelVars, wire, wireBack, acked, receiverVars>>

\* The semaphore of replicationSync
Synced(q) ==
  /\ pc[q] = "ack"
  /\ \/ q \in acked /\ pc' = [pc EXCEPT ![q] = "done"]
     \/ ~valid[q] /\ pc' = [pc EXCEPT ![q] = "threw"]
  /\ UNCHANGED <<chunks, item, state, repq, owner, valid, channelVars, wire, wireBack, acked,
                 receiverVars, faults>>

\* An operation of a failed query throws: validateQueryPtr.
Invalidated(q) ==
  /\ pc[q] = "run" /\ ~valid[q]
  /\ pc' = [pc EXCEPT ![q] = "threw"]
  /\ UNCHANGED <<chunks, item, state, repq, owner, valid, channelVars, wire, wireBack, acked,
                 receiverVars, faults>>

-----------------------------------------------------------------------------
\* The receiver

Count == Cardinality({<<q, i>> \in Queries \X (1 .. Cardinality(Items)) : i <= Len(inbound[q])})

\* Mutant: the share of an instance is rounded down, with no lot.
GetAvailableNoLot ==
  LET slots == IF Count < SoftLimit THEN SoftLimit - Count ELSE 0
  IN  {slots \div NumInst}

\* _getAvailable: the shares of the free slots; with fewer slots than instances,
\* the lot of _randInstanceIndx decides.
GetAvailable ==
  LET slots == IF Count < SoftLimit THEN SoftLimit - Count ELSE 0
  IN  IF slots > 0 /\ slots < NumInst THEN {0, 1} ELSE {slots \div NumInst}

\* registerMessage and enqueueInbound
ReceiveChunk ==
  /\ wire # <<>> /\ Head(wire).kind = "chunk"
  /\ wire' = Tail(wire)
  /\ LET x == Head(wire).item
     IN  inbound' = [inbound EXCEPT ![Owner(x)] = Append(@, x)]
  /\ UNCHANGED <<threadVars, channelVars, wireBack, acked, rvalid, stored, knownSn,
                 knownGen, faults>>

\* The sender's control message: setRemoteState of the receiver's own channel
ReceiveControl ==
  /\ wire # <<>> /\ Head(wire).kind = "control"
  /\ wire' = Tail(wire)
  /\ knownSn' = Head(wire).sn /\ knownGen' = Head(wire).gen
  /\ UNCHANGED <<threadVars, channelVars, wireBack, acked, inbound, rvalid, stored, faults>>

\* getControlMessage, in the network thread that also runs the two actions above
SendControl(avail) ==
  /\ Len(wireBack) < MaxControl
  /\ avail \in GetAvailable
  /\ wireBack' = Append(wireBack, [kind |-> "control", gen |-> knownGen, sn |-> knownSn,
                                   avail |-> avail])
  /\ UNCHANGED <<threadVars, channelVars, wire, acked, receiverVars, faults>>

\* Mutant: the query is not validated before the eof is acked.
HandleReplicaChunkUnvalidated(q) ==
  /\ inbound[q] # <<>>
  /\ inbound' = [inbound EXCEPT ![q] = Tail(@)]
  /\ IF IsEof(Head(inbound[q]))
     THEN /\ wireBack' = Append(wireBack, [kind |-> "ack", query |-> q])
          /\ UNCHANGED stored
     ELSE stored' = stored \cup {Head(inbound[q])} /\ UNCHANGED wireBack
  /\ UNCHANGED <<threadVars, channelVars, wire, acked, rvalid, knownSn, knownGen, faults>>

\* handleReplicaChunk: store the chunk, or answer the eof.  It may come as late as
\* enableInboundQueue does.
HandleReplicaChunk(q) ==
  /\ rvalid[q] /\ inbound[q] # <<>>
  /\ inbound' = [inbound EXCEPT ![q] = Tail(@)]
  /\ IF IsEof(Head(inbound[q]))
     THEN /\ wireBack' = Append(wireBack, [kind |-> "ack", query |-> q])
          /\ UNCHANGED stored
     ELSE stored' = stored \cup {Head(inbound[q])} /\ UNCHANGED wireBack
  /\ UNCHANGED <<threadVars, channelVars, wire, acked, rvalid, knownSn, knownGen, faults>>

\* The chunk cannot be stored: run() fails the query.
ReplicaChunkFails(q) ==
  /\ faults < MaxFaults /\ faults' = faults + 1
  /\ rvalid[q] /\ inbound[q] # <<>>
  /\ inbound' = [inbound EXCEPT ![q] = Tail(@)]
  /\ rvalid' = [rvalid EXCEPT ![q] = FALSE]
  /\ UNCHANGED <<threadVars, channelVars, wire, wireBack, acked, stored, knownSn, knownGen>>

\* Queued replicas of a failed query: run() does not get past validateQueryPtr, and the
\* queue goes with the query.
DropReplicaChunk(q) ==
  /\ ~rvalid[q] /\ inbound[q] # <<>>
  /\ inbound' = [inbound EXCEPT ![q] = Tail(@)]
  /\ UNCHANGED <<threadVars, channelVars, wire, wireBack, acked, rvalid, stored, knownSn,
                 knownGen, faults>>

-----------------------------------------------------------------------------
\* Errors

\* An error of the query on the sender: an exception of a thread, a cancel, an abort message
QueryError(q) ==
  /\ faults < MaxFaults /\ faults' = faults + 1
  /\ Started(q) /\ valid[q] /\ pc[q] # "done"
  /\ valid' = [valid EXCEPT ![q] = FALSE]
  /\ UNCHANGED <<pc, chunks, item, state, repq, owner, channelVars, wire, wireBack, acked, receiverVars>>

\* The abort that follows an error on the sender reaches the receiver ...
ErrorToReceiver(q) ==
  /\ ~valid[q] /\ rvalid[q]
  /\ rvalid' = [rvalid EXCEPT ![q] = FALSE]
  /\ UNCHANGED <<threadVars, channelVars, wire, wireBack, acked, inbound, stored, knownSn,
                 knownGen, faults>>

\* ... and the error message of the receiver the sender.
ErrorToSender(q) ==
  /\ ~rvalid[q] /\ valid[q]
  /\ valid' = [valid EXCEPT ![q] = FALSE]
  /\ UNCHANGED <<pc, chunks, item, state, repq, owner, channelVars, wire, wireBack, acked, receiverVars,
                 faults>>

\* An exception of a thread ends its query: Query::done.
ThreadError(q) ==
  /\ pc[q] = "threw" /\ valid[q]
  /\ valid' = [valid EXCEPT ![q] = FALSE]
  /\ UNCHANGED <<pc, chunks, item, state, repq, owner, channelVars, wire, wireBack, acked, receiverVars,
                 faults>>

\* Mutant: the new connection has the generation of the old one.
ReconnectSenderSameGen(k) ==
  /\ ConnectionsBreak
  /\ faults < MaxFaults /\ faults' = faults + 1
  /\ k \in 0 .. Len(wire)
  /\ wire' = SubSeq(wire, 1, k)
  /\ msgQ' = <<>> /\ localSn' = 0 /\ snOnPeer' = 0 /\ remoteSize' = ReceiveHint
  /\ gen' = gen /\ status' = "none"
  /\ valid' = [q \in Queries |-> valid[q] /\ ~Started(q)]
  /\ UNCHANGED <<pc, chunks, item, state, repq, owner, wireBack, acked, receiverVars>>

\* reconnect on the sender: the new connection starts afresh, what was not read is lost,
\* and every query of this instance is aborted.  (Not so when the other instance is
\* marked dead, isDead: then the liveness aborts the queries that use it.  Here both
\* instances are alive.)
ReconnectSender(k) ==
  /\ ConnectionsBreak
  /\ faults < MaxFaults /\ faults' = faults + 1
  /\ k \in 0 .. Len(wire)
  /\ wire' = SubSeq(wire, 1, k)
  /\ msgQ' = <<>> /\ localSn' = 0 /\ snOnPeer' = 0 /\ remoteSize' = ReceiveHint
  /\ gen' = gen + 1 /\ status' = "none"
  /\ valid' = [q \in Queries |-> valid[q] /\ ~Started(q)]
  /\ UNCHANGED <<pc, chunks, item, state, repq, owner, wireBack, acked, receiverVars>>

\* reconnect on the receiver
ReconnectReceiver(k) ==
  /\ ConnectionsBreak
  /\ faults < MaxFaults /\ faults' = faults + 1
  /\ k \in 0 .. Len(wireBack)
  /\ wireBack' = SubSeq(wireBack, 1, k)
  /\ knownSn' = 0 /\ knownGen' = 0
  /\ rvalid' = [q \in Queries |-> rvalid[q] /\ ~Started(q)]
  /\ UNCHANGED <<threadVars, channelVars, wire, acked, inbound, stored>>

-----------------------------------------------------------------------------
ThreadStep(q) ==
  \/ Replicate(q) \/ ReplicationSync(q) \/ Synced(q)
  \/ Wait(q) \/ WaitSends(q) \/ WaitBlocks(q) \/ WaitChecks(q)
  \/ Invalidated(q) \/ ThreadError(q)

ReceiverStep(q) == HandleReplicaChunk(q) \/ DropReplicaChunk(q)

ErrorStep(q) == ErrorToReceiver(q) \/ ErrorToSender(q)

Next ==
  \/ \E q \in Queries : \/ Begin(q) \/ ThreadStep(q) \/ ReceiverStep(q) \/ ErrorStep(q)
                        \/ AbortReplicas(q) \/ ReplicaChunkFails(q) \/ QueryError(q)
  \/ \E k \in 1 .. Len(msgQ) : PushNextMessage(k)
  \/ PushAlive \/ PublishQueueSize
  \/ HandleControlMessage \/ HandleReplicaSyncResponse
  \/ ReceiveChunk \/ ReceiveControl
  \/ \E avail \in GetAvailable : SendControl(avail)
  \/ \E k \in 0 .. Len(wire) : ReconnectSender(k)
  \/ \E k \in 0 .. Len(wireBack) : ReconnectReceiver(k)

Spec == Init /\ [][Next]_vars

\* Threads run, the network thread serves its queue, the alive timer fires, and the lot of
\* _randInstanceIndx falls on every instance again and again.  setRemoteQueueState posts
\* pushNextMessage each time it opens the window.  Nothing has to fail.
Fairness ==
  /\ \A q \in Queries : WF_vars(ThreadStep(q)) /\ WF_vars(ReceiverStep(q)) /\ WF_vars(ErrorStep(q))
  /\ SF_vars(\E k \in 1 .. Len(msgQ) : PushNextMessage(k))
  /\ WF_vars(PushAlive) /\ WF_vars(PublishQueueSize)
  /\ WF_vars(HandleControlMessage \/ HandleReplicaSyncResponse)
  /\ WF_vars(ReceiveChunk \/ ReceiveControl)
  /\ SF_vars(\E avail \in GetAvailable \ {0} : SendControl(avail))

FairSpec == Spec /\ Fairness

-----------------------------------------------------------------------------
\* When replicationSync of a query has returned, every chunk that it replicated is in the
\* receiver's storage.
SyncedIsStored ==
  \A q \in Queries : pc[q] = "done" =>
    \A n \in 1 .. chunks[q] : <<q, n>> \in stored

\* The replicas that are on the wire or registered on the receiver are never more than one
\* connection's worth of slots for each connection there has been: enqueueInbound need not
\* overflow.
WindowRespected ==
  LET flying == {i \in 1 .. Len(wire) : wire[i].kind = "chunk"}
      slots == IF ReceiveHint < SoftLimit THEN SoftLimit ELSE ReceiveHint
  IN  Count + Cardinality(flying) <= gen * slots

\* A thread of a sound query that sleeps in wait() with its item unsent, while the channel has
\* space, is about to be signalled: getNewStatus reports every end of a shortage, and no
\* later status hides it while it lasts.
NoLostSignal ==
  \A q \in Queries :
    pc[q] = "blocked" /\ valid[q] /\ ~IsDone(Item(q)) /\ HasSpace => status = "space"

\* The assertions of the code: wait() finds its item in the queue, and no control message
\* tells of a connection or of a message that the sender does not know.
AssertsHold ==
  /\ TypeOK
  /\ owner # NoThread => /\ ~IsDone(Item(owner))
                         /\ \E i \in 1 .. Len(repq) : repq[i] = Item(owner)
  /\ localSn >= snOnPeer
  /\ \A i \in 1 .. Len(wireBack) : wireBack[i].kind = "control" =>
       /\ wireBack[i].gen <= gen
       /\ wireBack[i].gen = gen => wireBack[i].sn <= localSn

\* Every store that has begun gets through replicationSync or fails: no thread stays in
\* wait(), whatever is lost or aborted on the way.
EverySyncEnds == []<>(\A q \in Queries : Started(q) => pc[q] \in {"done", "threw"})

=============================================================================
