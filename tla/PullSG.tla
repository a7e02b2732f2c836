------------------------------- MODULE PullSG -------------------------------
(***************************************************************************)
(* Redistribution of an array by pulling.  Every instance is a source (its *)
(* PullSGContext serves fetch requests from the operator queue of the      *)
(* query) and a puller (its PullSGArray merges one stream per source; the  *)
(* chunk messages come in on the receive queue).  Three threads work on    *)
(* each instance: the one that pulls, the one that serves fetches and the  *)
(* one that handles the answers.  A critical section is one step.          *)
(*                                                                         *)
(* Fetch identifiers are only ever compared with the last position-only    *)
(* request of their stream.  A message therefore carries, instead of its   *)
(* number, whether it is at least that request ("new"), and sending the    *)
(* next position-only request turns everything before it old (Age).        *)
(***************************************************************************)
EXTENDS Integers, Sequences, FiniteSets, SequencesExt

CONSTANTS NumInst,       \* instances of the query
          Attrs,         \* attributes that are pulled
          NumPos,        \* bound: chunk positions, in row-major order
          SinglePass,    \* the input has to be consumed horizontally
          SendQueue,     \* _perAttributeMaxSize of the source
          Layouts        \* inputs, distributions and receive queues to look at

Instances == 0 .. NumInst - 1
InvalidInstance == NumInst
AllInstances == NumInst + 1
NoPos == 0
Positions == 1 .. NumPos

ASSUME SizesAssumption ==
  /\ NumInst \in Nat \ {0} /\ NumPos \in Nat
  /\ SendQueue \in Nat \ {0}
  /\ SinglePass \in BOOLEAN
ASSUME AttrsAssumption == Attrs \subseteq Nat \ {NoPos}
ASSUME LayoutsAssumption ==
  Layouts \subseteq [rows: [Instances -> Seq(Positions)],
                     place: [Positions -> Instances \cup {AllInstances}],
                     queue: Nat \ {0}]

VARIABLES layout,  \* rows[i]: positions of the chunks on i; place[p]: where p goes;
                   \* queue: _maxChunksPerAttribute of the pullers
          ctx,     \* ctx[i]: the operator context of i is "none", "set", "unset"
          src,     \* src[i][a]: cache, iterator and requests of a source
          unavail, \* unavail[i]: _unavailableAttributes
          req,     \* req[s][d]: requests of d waiting at s, in order
          rep,     \* rep[d][s]: answers of s waiting at d, in order
          stream,  \* stream[d][a][s]: StreamState
          common,  \* common[d][a]: _commonChunks
          call,    \* call[d]: attributes whose callback is about to be invoked
          signals, \* signals[d]: _activeAttributes of the SyncCtx
          merge,   \* merge[d][a]: state of the MultiStreamArray
          pull,    \* pull[d]: where the pulling thread of d is
          acks,    \* acks[d]: the semaphore of syncSG
          got      \* got[d][a]: chunks handed out, in order

srcVars == <<src, unavail>>
pullVars == <<merge, pull, acks, got>>
vars == <<layout, ctx, srcVars, req, rep, stream, common, call, signals, pullVars>>

\* The shares of a stream and of the common pool in the cache of an attribute
ReceiveQueue == layout.queue
MaxPerStream == (ReceiveQueue \div NumInst) \div 2
MaxCommon == ReceiveQueue - MaxPerStream * NumInst

Lowest(S) == CHOOSE x \in S : \A y \in S : x <= y
AtLeast(n, m) == IF n < m THEN m ELSE n

Rows(i) == layout.rows[i]

\* getInstanceForChunk, and what a replicated chunk looks like from d
Target(p, d) == IF layout.place[p] = AllInstances THEN d ELSE layout.place[p]

Eof == [kind |-> "eof", pos |-> NoPos, dest |-> InvalidInstance, next |-> NoPos,
        nextDest |-> InvalidInstance]
Position(p, d) == [Eof EXCEPT !.kind = "pos", !.pos = p, !.dest = d]
Body(p, d, np, nd) == [kind |-> "body", pos |-> p, dest |-> d, next |-> np, nextDest |-> nd]

Cached(msgs) == Cardinality({i \in DOMAIN msgs : msgs[i].kind = "body"})

StreamStates == [msgs: Seq([kind: {"body", "pos", "eof"}, pos: Positions \cup {NoPos},
                            dest: 0 .. NumInst, next: Positions \cup {NoPos},
                            nextDest: 0 .. NumInst]),
                 asked: Nat, answered: BOOLEAN, pending: BOOLEAN]

PullPc == {"start", "idle", "request", "position", "bodyRequest", "body", "prefetch",
           "syncing", "done"}

TypeOK ==
  /\ layout \in Layouts
  /\ ctx \in [Instances -> {"none", "set", "unset"}]
  /\ \A i \in Instances, a \in Attrs :
       /\ src[i][a].row \in 1 .. NumPos + 1 /\ src[i][a].eof \in BOOLEAN
       /\ src[i][a].size \in Nat /\ src[i][a].shallow \in Nat
       /\ src[i][a].cache \in [Instances -> Seq(Positions \cup {NoPos})]
       /\ src[i][a].want \in [Instances -> Nat] /\ src[i][a].new \in [Instances -> BOOLEAN]
       /\ stream[i][a] \in [Instances -> StreamStates]
       /\ common[i][a] \in Nat
       /\ merge[i][a].ready \subseteq [pos: Positions, from: Instances, dest: 0 .. NumInst]
       /\ merge[i][a].notReady \in Seq(Instances) /\ merge[i][a].partial \in Seq(Instances)
       /\ merge[i][a].minPos \in Positions \cup {NoPos}
       /\ merge[i][a].parts \subseteq Instances \X Positions
       /\ got[i][a] \in Seq(SUBSET (Instances \X Positions))
  /\ unavail \in [Instances -> SUBSET Attrs]
  /\ \A i \in Instances :
       /\ pull[i].pc \in PullPc
       /\ call[i] \subseteq Attrs /\ signals[i] \subseteq Attrs
       /\ acks[i] \in 0 .. NumInst

Init ==
  /\ layout \in Layouts
  /\ ctx = [i \in Instances |-> "none"]
  /\ src = [i \in Instances |-> [a \in Attrs |->
              [row |-> 1, eof |-> FALSE, size |-> 0, shallow |-> 0,
               cache |-> [d \in Instances |-> <<>>], want |-> [d \in Instances |-> 0],
               new |-> [d \in Instances |-> TRUE]]]]
  /\ unavail = [i \in Instances |-> {}]
  /\ req = [s \in Instances |-> [d \in Instances |-> <<>>]]
  /\ rep = [d \in Instances |-> [s \in Instances |-> <<>>]]
  /\ stream = [d \in Instances |-> [a \in Attrs |-> [s \in Instances |->
                 [msgs |-> <<>>, asked |-> 0, answered |-> TRUE, pending |-> FALSE]]]]
  /\ common = [d \in Instances |-> [a \in Attrs |-> 0]]
  /\ call = [d \in Instances |-> {}]
  /\ signals = [d \in Instances |-> {}]
  /\ merge = [d \in Instances |-> [a \in Attrs |->
                [ready |-> {}, notReady |-> [i \in 1 .. NumInst |-> i - 1],
                 partial |-> <<>>, minPos |-> NoPos, parts |-> {}]]]
  /\ pull = [d \in Instances |->
               [pc |-> "start", attr |-> NoPos, phase |-> "all", left |-> <<>>, retry |-> FALSE,
                toPull |-> {}, active |-> {}, todo |-> {}]]
  /\ acks = [d \in Instances |-> 0]
  /\ got = [d \in Instances |-> [a \in Attrs |-> <<>>]]

-----------------------------------------------------------------------------
\* The source.  S is its state: src, un(available attributes), out(put so far).

\* Mutant: the iterator is not moved past the chunk it waits on
FirstUncachedAgain(a, S) == S.src[a].row

\* How many chunks still fit, and where the first one that is not cached is
Room(R) == AtLeast(SendQueue - R.size, 0)
FirstUncached(a, S) == IF a \in S.un THEN S.src[a].row + 1 ELSE S.src[a].row

\* drainInputArray with advanceInputIterator: fill the cache from the iterator
\* until the input ends, the cache is full, or the next row has to wait for the
\* other attributes.  An unavailable attribute stands on a chunk it has cached.
Drain(i, a, S) ==
  LET R == S.src[a]
      end == Len(Rows(i)) + 1
      reach == IF SinglePass THEN Lowest({end} \cup {S.src[b].row + 1 : b \in Attrs \ {a}})
                             ELSE end
      first == FirstUncached(a, S)
      last == Lowest({reach, end - 1, first + Room(R) - 1})
      taken == SubSeq(Rows(i), first, last)
      For(d) == SelectSeq(taken, LAMBDA p : Target(p, d) = d)
      atEnd == last + 1 = end /\ end <= reach
      replicas == Cardinality({k \in DOMAIN taken : layout.place[taken[k]] = AllInstances})
  IN IF R.eof \/ first > reach THEN S
     ELSE [S EXCEPT
            !.un = IF last + 1 > reach THEN @ \cup {a} ELSE @ \ {a},
            !.src[a] = [@ EXCEPT
              !.row = IF last + 1 > reach THEN last ELSE last + 1,
              !.eof = atEnd,
              !.size = @ + Len(taken),
              !.shallow = @ + replicas * (NumInst - 1) + (IF atEnd THEN NumInst ELSE 0),
              !.cache = [d \in Instances |->
                           @[d] \o For(d) \o (IF atEnd THEN <<NoPos>> ELSE <<>>)]]]

\* reapChunkMsg and setNextPosition: the k-th of the chunks cached for d, with
\* the position of the following one
Reap(i, a, S, d, k) ==
  LET chunks == S.src[a].cache[d]
      here == Rows(i)[S.src[a].row]
  IN IF chunks[k] = NoPos THEN Eof
     ELSE IF k < Len(chunks)
          THEN Body(chunks[k], d, chunks[k + 1],
                    IF chunks[k + 1] = NoPos THEN InvalidInstance ELSE d)
          ELSE IF a \in S.un THEN Body(chunks[k], d, NoPos, InvalidInstance)
          ELSE Body(chunks[k], d, here, Target(here, d))

\* findCachedChunksToSend, then the current position for a puller that gets nothing
Send(i, a, puller, positionOnlyOK, S) ==
  LET R == S.src[a]
      OnlyPos(d) == d = puller /\ positionOnlyOK /\ R.want[d] = 0 /\ R.cache[d] # <<>>
      Count(d) == IF OnlyPos(d) THEN 0 ELSE Lowest({Len(R.cache[d]), R.want[d]})
      sent == FoldLeft(LAMBDA n, k : n + Count(k - 1), 0, [k \in 1 .. NumInst |-> k])
      shallow == Lowest({sent, R.shallow})
      here == Rows(i)[R.row]
      found == OnlyPos(puller) \/ (puller \in Instances /\ Count(puller) > 0)
      HeadPosition(d) == IF Head(R.cache[d]) = NoPos THEN Eof ELSE Position(Head(R.cache[d]), d)
      Out(d) ==
        IF OnlyPos(d) THEN <<HeadPosition(d)>>
        ELSE IF d = puller /\ positionOnlyOK /\ ~found /\ ~R.eof
        THEN <<Position(here, IF a \in S.un THEN InvalidInstance ELSE Target(here, d))>>
        ELSE [k \in 1 .. Count(d) |-> Reap(i, a, S, d, k)]
  IN [S EXCEPT
       !.src[a] = [@ EXCEPT
         !.cache = [d \in Instances |->
                      IF OnlyPos(d) THEN IF Head(@[d]) = NoPos THEN Tail(@[d]) ELSE @[d]
                      ELSE SubSeq(@[d], Count(d) + 1, Len(@[d]))],
         !.want = [d \in Instances |-> @[d] - Count(d)],
         !.shallow = @ - shallow,
         !.size = @ - (sent - shallow)],
       !.out = [d \in Instances |->
                  @[d] \o [k \in DOMAIN Out(d) |->
                             [attr |-> a, new |-> R.new[d], msg |-> Out(d)[k]]]]]

\* getNextChunksInternal
NextChunksInternal(i, a, puller, positionOnlyOK, S) ==
  Send(i, a, puller, positionOnlyOK, Drain(i, a, S))

\* getNextChunks: serve the request, then the attributes that were unavailable
NextChunks(i, d, f) ==
  LET S0 == [src |-> [src[i] EXCEPT ![f.attr].want[d] = @ + f.num, ![f.attr].new[d] = f.new],
             un |-> unavail[i], out |-> [x \in Instances |-> <<>>]]
      S1 == NextChunksInternal(i, f.attr, d, f.posOnly, S0)
  IN FoldLeft(LAMBDA S, b : NextChunksInternal(i, b, InvalidInstance, FALSE, S),
              S1, SetToSeq(S1.un \ {f.attr}))

IsFetch(m) == m.attr # NoPos

\* handleSGFetchChunk on the (single-threaded) operator queue
HandleFetch(i, d) ==
  /\ ctx[i] = "set"
  /\ req[i][d] # <<>> /\ IsFetch(Head(req[i][d]))
  /\ LET S == NextChunks(i, d, Head(req[i][d]))
     IN /\ src' = [src EXCEPT ![i] = S.src]
        /\ unavail' = [unavail EXCEPT ![i] = S.un]
        /\ rep' = [x \in Instances |-> [rep[x] EXCEPT ![i] = @ \o S.out[x]]]
  /\ req' = [req EXCEPT ![i][d] = Tail(@)]
  /\ UNCHANGED <<layout, ctx, stream, common, call, signals, pullVars>>

SyncMsg == [attr |-> NoPos, new |-> FALSE, msg |-> Eof]
SyncRequest == [attr |-> NoPos, new |-> FALSE, posOnly |-> FALSE, num |-> 0]

\* handleSyncRequest, behind the fetches of the same instance
HandleSyncRequest(i, d) ==
  /\ ctx[i] = "set"
  /\ req[i][d] # <<>> /\ ~IsFetch(Head(req[i][d]))
  /\ rep' = [rep EXCEPT ![d][i] = Append(@, SyncMsg)]
  /\ req' = [req EXCEPT ![i][d] = Tail(@)]
  /\ UNCHANGED <<layout, ctx, srcVars, stream, common, call, signals, pullVars>>

-----------------------------------------------------------------------------
\* The answers: handleChunkMsg on the receive queue.  The callback of the
\* attribute is taken under the lock and invoked after it.
HandleChunk(d, s) ==
  /\ ctx[d] = "set" /\ call[d] = {}
  /\ rep[d][s] # <<>> /\ IsFetch(Head(rep[d][s]))
  /\ LET m == Head(rep[d][s])
         st == stream[d][m.attr][s]
     IN /\ stream' = [stream EXCEPT ![d][m.attr][s] =
                        [msgs |-> Append(st.msgs, m.msg),
                         asked |-> IF m.msg.kind = "body" THEN st.asked - 1 ELSE st.asked,
                         answered |-> m.new,
                         pending |-> FALSE]]
        /\ call' = [call EXCEPT ![d] =
                      IF st.pending THEN {m.attr} \cap pull[d].toPull ELSE {}]
  /\ rep' = [rep EXCEPT ![d][s] = Tail(@)]
  /\ UNCHANGED <<layout, ctx, srcVars, req, common, signals, pullVars>>

\* Mutant: the callback forgets which attribute it was for
SignalNothing(d) ==
  /\ call[d] # {}
  /\ call' = [call EXCEPT ![d] = {}]
  /\ UNCHANGED <<layout, ctx, srcVars, req, rep, stream, common, signals, pullVars>>

\* SyncCtx::signal
Signal(d) ==
  /\ call[d] # {}
  /\ signals' = [signals EXCEPT ![d] = @ \cup call[d]]
  /\ call' = [call EXCEPT ![d] = {}]
  /\ UNCHANGED <<layout, ctx, srcVars, req, rep, stream, common, pullVars>>

\* handleSyncResponse
HandleSyncResponse(d, s) ==
  /\ call[d] = {}
  /\ rep[d][s] # <<>> /\ ~IsFetch(Head(rep[d][s]))
  /\ acks' = [acks EXCEPT ![d] = @ + 1]
  /\ rep' = [rep EXCEPT ![d][s] = Tail(@)]
  /\ UNCHANGED <<layout, ctx, srcVars, req, stream, common, call, signals, merge, pull, got>>

-----------------------------------------------------------------------------
\* The puller: access to one stream

\* pruneRedundantPositions
Prune(msgs) ==
  LET keep == {i \in DOMAIN msgs : msgs[i].kind # "pos"}
  IN IF keep = {} THEN <<>> ELSE SubSeq(msgs, Lowest(keep), Len(msgs))

\* Mutants: the common pool is never used up; a stream that finds the pool used
\* up asks for nothing
PrefetchSizeEndless(d, a, st, positionOnly) == [num |-> 1, billed |-> 1]
PrefetchSizeNeverForced(d, a, st, positionOnly) ==
  LET outstanding == Cached(st.msgs) + st.asked
      pooled == MaxPerStream <= outstanding /\ common[d][a] < MaxCommon /\ st.asked < 1
      num == IF pooled THEN 1 ELSE AtLeast(MaxPerStream - outstanding, 0)
  IN [num |-> num, billed |-> IF pooled THEN 1 ELSE 0]

\* getPrefetchSize: how many chunks to ask for, and how many of them are billed
\* to the common pool
PrefetchSize(d, a, st, positionOnly) ==
  LET outstanding == Cached(st.msgs) + st.asked
      direct == MaxPerStream > outstanding
      pooled == ~direct /\ common[d][a] < MaxCommon /\ st.asked < 1
      forced == ~direct /\ ~pooled /\ ~positionOnly /\ outstanding < 1 /\ st.msgs = <<>>
      num == IF direct THEN MaxPerStream - outstanding
             ELSE IF pooled THEN AtLeast((MaxCommon - common[d][a]) \div NumInst, 1)
             ELSE IF forced THEN 1 ELSE 0
  IN [num |-> num, billed |-> IF direct THEN 0 ELSE num]

\* A new position-only request makes all identifiers of its stream old
Age(ms, a) == [k \in DOMAIN ms |-> [ms[k] EXCEPT !.new = @ /\ ms[k].attr # a]]

\* requestNextChunk
RequestNextChunk(d, a, s, positionOnly) ==
  LET st == [stream[d][a][s] EXCEPT !.msgs = IF positionOnly THEN @ ELSE Prune(@)]
      atEof == st.msgs # <<>> /\ Head(st.msgs).kind = "eof"
      size == PrefetchSize(d, a, st, positionOnly)
      nothing == size.num = 0 /\ (st.msgs # <<>> \/ ~positionOnly \/ ~st.answered)
      posOnly == positionOnly /\ st.msgs = <<>> /\ st.answered
      sends == ~atEof /\ ~nothing /\ (posOnly \/ st.asked = 0)
      fetch == [attr |-> a, new |-> TRUE, posOnly |-> posOnly, num |-> size.num]
  IN /\ common' = IF atEof THEN common ELSE [common EXCEPT ![d][a] = @ + size.billed]
     /\ stream' = [stream EXCEPT ![d][a][s] =
                     IF ~sends THEN st
                     ELSE [st EXCEPT !.asked = @ + size.num, !.answered = @ /\ ~posOnly]]
     /\ IF ~sends THEN UNCHANGED <<src, req, rep>>
        ELSE IF ~posOnly
        THEN /\ req' = [req EXCEPT ![s][d] = Append(@, fetch)]
             /\ UNCHANGED <<src, rep>>
        ELSE /\ req' = [req EXCEPT ![s][d] = Append(Age(@, a), fetch)]
             /\ rep' = [rep EXCEPT ![d][s] = Age(@, a)]
             /\ src' = [src EXCEPT ![s][a].new[d] = FALSE]

-----------------------------------------------------------------------------
\* The puller: MultiStreamArray::nextChunk.  phase "all" is getAllStreamPositions,
\* "next" getNextStreamPositions, "merge" mergePartialStreams; left are the
\* streams this pass has still to visit.

Goto(d, label) == pull' = [pull EXCEPT ![d].pc = label]
At(d, label) == pull[d].pc = label

\* pullRedistribute, after the barrier all instances have passed; pullAttributes
Start(d) ==
  /\ At(d, "start")
  /\ ctx' = [ctx EXCEPT ![d] = "set"]
  /\ pull' = [pull EXCEPT ![d].pc = "idle", ![d].toPull = Attrs, ![d].active = Attrs,
                          ![d].todo = Attrs]
  /\ UNCHANGED <<layout, srcVars, req, rep, stream, common, call, signals, merge, acks, got>>

\* Mutant: the first stream that has a chunk, whatever the chunks of the others
FirstStreamFirst(ready) ==
  (CHOOSE r \in ready : \A other \in ready : r.from <= other.from).pos

\* SourceAndDest::operator<: the position on top of the queue of those that are known
NextPosition(ready) == Lowest({r.pos : r \in ready})

\* nextChunk: all positions of m are known.  The lowest is that of the next chunk,
\* and the streams that have it hold its parts.  The chunk may be one of another
\* instance; p is the pulling thread, in which EOF ends the attribute.
Select(d, a, p, m) ==
  LET min == NextPosition(m.ready)
      tops == {r \in m.ready : r.pos = min}
      parts == SetToSortSeq({r.from : r \in tops}, LAMBDA x, y : x < y)
  IN \/ /\ m.partial # <<>>
        /\ pull' = [pull EXCEPT ![d] = [p EXCEPT !.phase = "merge", !.left = m.partial,
                                                 !.pc = "bodyRequest"]]
        /\ merge' = [merge EXCEPT ![d][a] = m]
     \/ /\ m.partial = <<>> /\ m.ready = {}
        /\ pull' = [pull EXCEPT ![d] = [p EXCEPT !.pc = "idle", !.active = @ \ {a},
                                                 !.toPull = @ \ {a}]]
        /\ merge' = [merge EXCEPT ![d][a] = m]
     \/ /\ m.partial = <<>> /\ m.ready # {}
        /\ \E mine \in {r.dest = d : r \in tops} :
             /\ pull' = [pull EXCEPT ![d] =
                           [p EXCEPT !.phase = IF mine THEN "merge" ELSE "next", !.left = parts,
                                     !.pc = IF mine THEN "bodyRequest" ELSE "request"]]
             /\ merge' = [merge EXCEPT ![d][a] =
                            [m EXCEPT !.ready = @ \ tops, !.partial = parts,
                                      !.minPos = IF mine THEN min ELSE NoPos]]

\* getAllStreamPositions begins, with the streams whose position is not known
AllPositions(d, a, p, m) ==
  IF m.notReady = <<>> THEN Select(d, a, p, m)
  ELSE /\ pull' = [pull EXCEPT ![d] = [p EXCEPT !.phase = "all", !.left = m.notReady,
                                                !.pc = "request"]]
       /\ merge' = [merge EXCEPT ![d][a] = m]

\* pullAttributes: the next attribute of this round; a new round begins with the
\* active attributes, or with those waitForActiveAttributes returns.  One that
\* has come to its end (a late signal) is dropped by pullChunk.
PullChunk(d, a) ==
  /\ At(d, "idle") /\ pull[d].toPull # {}
  /\ LET wait == pull[d].todo = {} /\ pull[d].active = {}
         active == IF wait THEN signals[d] ELSE pull[d].active
         round == IF pull[d].todo = {} THEN active ELSE pull[d].todo
         p == [pull[d] EXCEPT !.attr = a, !.active = active, !.todo = round \ {a}]
     IN /\ a \in round
        /\ signals' = IF wait THEN [signals EXCEPT ![d] = {}] ELSE signals
        /\ IF a \in p.toPull THEN AllPositions(d, a, p, merge[d][a])
           ELSE /\ pull' = [pull EXCEPT ![d] = [p EXCEPT !.active = @ \ {a}]]
                /\ UNCHANGED merge
  /\ UNCHANGED <<layout, ctx, srcVars, req, rep, stream, common, call, acks, got>>

\* nextChunkPos: ask for the next position (or prefetch) ...
RequestPosition(d) ==
  /\ At(d, "request")
  /\ RequestNextChunk(d, pull[d].attr, Head(pull[d].left), TRUE)
  /\ Goto(d, "position")
  /\ UNCHANGED <<layout, ctx, unavail, call, signals, merge, acks, got>>

\* The stream Head(left) has been visited: go on with the next one, or end the phase
\* with MultiStreamArray state m.  A complete chunk is handed to the consumer; after
\* a RetryException the attribute sleeps until it is signalled.
Advance(d, a, m, retry) ==
  LET p == pull[d]
      rest == Tail(p.left)
  IN IF rest # <<>>
     THEN /\ pull' = [pull EXCEPT ![d].left = rest, ![d].retry = retry,
                        ![d].pc = IF p.phase = "merge" THEN "bodyRequest" ELSE "request"]
          /\ merge' = [merge EXCEPT ![d][a] = m]
          /\ UNCHANGED got
     ELSE IF p.phase = "merge" /\ ~retry
     THEN /\ pull' = [pull EXCEPT ![d].pc = "idle", ![d].left = <<>>]
          /\ merge' = [merge EXCEPT ![d][a] = [m EXCEPT !.minPos = NoPos, !.parts = {}]]
          /\ got' = [got EXCEPT ![d][a] = Append(@, m.parts)]
     ELSE LET m2 == IF p.phase = "next" THEN [m EXCEPT !.partial = <<>>] ELSE m
          IN /\ IF ~retry THEN AllPositions(d, a, [p EXCEPT !.left = <<>>], m2)
                ELSE /\ pull' = [pull EXCEPT ![d] = [p EXCEPT !.pc = "idle", !.left = <<>>,
                                   !.retry = FALSE, !.active = @ \ {a}]]
                     /\ merge' = [merge EXCEPT ![d][a] = m2]
             /\ UNCHANGED got

\* ... and getPosition: a position-only message and an EOF are consumed
GetPosition(d) ==
  /\ At(d, "position")
  /\ LET a == pull[d].attr
         s == Head(pull[d].left)
         p == pull[d]
         st == stream[d][a][s]
         m == merge[d][a]
         here == Head(st.msgs)
         known == IF p.phase = "all" THEN [m EXCEPT !.notReady = SelectSeq(@, LAMBDA x : x # s)]
                                     ELSE m
     IN IF st.msgs = <<>>
        THEN /\ stream' = [stream EXCEPT ![d][a][s].pending = TRUE]
             /\ Advance(d, a,
                        IF p.phase = "all" THEN m ELSE [m EXCEPT !.notReady = Append(@, s)],
                        p.retry \/ p.phase # "merge")
        ELSE /\ stream' = IF here.kind = "body" THEN stream
                          ELSE [stream EXCEPT ![d][a][s].msgs = Tail(@)]
             /\ Advance(d, a,
                        IF here.kind = "eof" THEN known
                        ELSE [known EXCEPT !.ready = @ \cup
                                {[pos |-> here.pos, from |-> s, dest |-> here.dest]}],
                        p.retry)
  /\ UNCHANGED <<layout, ctx, srcVars, req, rep, common, call, signals, acks>>

\* nextChunkBody: ask for the chunk ...
RequestBody(d) ==
  /\ At(d, "bodyRequest")
  /\ RequestNextChunk(d, pull[d].attr, Head(pull[d].left), FALSE)
  /\ Goto(d, "body")
  /\ UNCHANGED <<layout, ctx, unavail, call, signals, merge, acks, got>>

\* ... getChunk: take it, give back its place in the common pool, and keep the
\* position it carried; or wait for it ...
GetChunk(d) ==
  /\ At(d, "body")
  /\ LET a == pull[d].attr
         s == Head(pull[d].left)
         st == stream[d][a][s]
         msgs == Prune(st.msgs)
         chunk == Head(msgs)
         rest == Tail(msgs)
     IN IF msgs = <<>>
        THEN /\ stream' = [stream EXCEPT ![d][a][s] = [@ EXCEPT !.msgs = msgs, !.pending = TRUE]]
             /\ Advance(d, a, merge[d][a], TRUE)
             /\ UNCHANGED common
        ELSE /\ stream' = [stream EXCEPT ![d][a][s].msgs =
                             IF rest = <<>> /\ chunk.next # NoPos
                             THEN <<Position(chunk.next, chunk.nextDest)>> ELSE rest]
             /\ common' = IF Cached(rest) + st.asked >= MaxPerStream
                          THEN [common EXCEPT ![d][a] = @ - 1] ELSE common
             /\ merge' = [merge EXCEPT ![d][a].partial = SelectSeq(@, LAMBDA x : x # s),
                                       ![d][a].parts = @ \cup {<<s, chunk.pos>>}]
             /\ Goto(d, "prefetch")
             /\ UNCHANGED got
  /\ UNCHANGED <<layout, ctx, srcVars, req, rep, call, signals, acks>>

\* ... and prefetch
Prefetch(d) ==
  /\ At(d, "prefetch")
  /\ RequestNextChunk(d, pull[d].attr, Head(pull[d].left), TRUE)
  /\ Goto(d, "request")
  /\ UNCHANGED <<layout, ctx, unavail, call, signals, merge, acks, got>>

-----------------------------------------------------------------------------
\* PullSGArrayBlocking::sync: syncSG, the barrier, and the end of the context

SyncSG(d) ==
  /\ At(d, "idle") /\ pull[d].toPull = {}
  /\ req' = [s \in Instances |-> [req[s] EXCEPT ![d] = Append(@, SyncRequest)]]
  /\ pull' = [pull EXCEPT ![d].pc = "syncing", ![d].todo = {}, ![d].active = {}]
  /\ UNCHANGED <<layout, ctx, srcVars, rep, stream, common, call, signals, merge, acks, got>>

\* Mutant: the acknowledgements without the barrier behind them
LeaveWithoutBarrier(d) ==
  /\ At(d, "syncing")
  /\ acks[d] = NumInst
  /\ ctx' = [ctx EXCEPT ![d] = "unset"]
  /\ Goto(d, "done")
  /\ UNCHANGED <<layout, srcVars, req, rep, stream, common, call, signals, merge, acks, got>>

LeaveBarrier(d) ==
  /\ At(d, "syncing")
  /\ \A i \in Instances : At(i, "done") \/ acks[i] = NumInst
  /\ ctx' = [ctx EXCEPT ![d] = "unset"]
  /\ Goto(d, "done")
  /\ UNCHANGED <<layout, srcVars, req, rep, stream, common, call, signals, merge, acks, got>>

PullStep(d) ==
  \/ Start(d) \/ \E a \in Attrs : PullChunk(d, a)
  \/ RequestPosition(d) \/ GetPosition(d) \/ RequestBody(d) \/ GetChunk(d) \/ Prefetch(d)
  \/ SyncSG(d) \/ LeaveBarrier(d)

Next ==
  \/ \E d \in Instances : PullStep(d) \/ Signal(d)
  \/ \E i, d \in Instances : HandleFetch(i, d) \/ HandleSyncRequest(i, d)
  \/ \E d, s \in Instances : HandleChunk(d, s) \/ HandleSyncResponse(d, s)

\* Every thread goes on, and every message that has arrived is handled: weak
\* fairness of the pulling thread, the callback and the two queues, with the
\* enabling conditions written out
CanPull(d) ==
  /\ ~At(d, "done")
  /\ At(d, "idle") => pull[d].todo \cup pull[d].active \cup signals[d] # {} \/ pull[d].toPull = {}
  /\ At(d, "syncing") => \A i \in Instances : At(i, "done") \/ acks[i] = NumInst
CanServe(i, d) == ctx[i] = "set" /\ req[i][d] # <<>>
CanReceive(d, s) ==
  /\ call[d] = {} /\ rep[d][s] # <<>>
  /\ IsFetch(Head(rep[d][s])) => ctx[d] = "set"

Fairness ==
  /\ \A d \in Instances :
       /\ []<>~CanPull(d) \/ []<><<pull'[d] # pull[d]>>_vars
       /\ []<>(call[d] = {})
  /\ \A i, j \in Instances :
       /\ []<>~CanServe(i, j) \/ []<><<Len(req'[i][j]) < Len(req[i][j])>>_vars
       /\ []<>~CanReceive(i, j) \/ []<><<Len(rep'[i][j]) < Len(rep[i][j])>>_vars

Spec == Init /\ [][Next]_vars
FairSpec == Spec /\ Fairness

-----------------------------------------------------------------------------
\* Properties

\* Every instance gets the chunks the distribution places on it, whole, in
\* row-major order, none twice and none missing when it sees the end, whatever is
\* prefetched (nextChunk, mergePartialStreams, findCachedChunksToSend)
Ended == [d \in Instances |-> IF At(d, "start") THEN {} ELSE Attrs \ pull[d].toPull]
Promise == INSTANCE Redistribution WITH ended <- Ended
Redistributed == Promise!Spec

\* Nobody waits forever: every instance pulls all its attributes, is acknowledged
\* by all others and leaves the last barrier (pullAttributes, sync)
Terminates == <>(\A d \in Instances : At(d, "done"))

\* The same when the attributes of the input have to be read together: the only
\* way not to end is that from some time on the answer to every poll is there
\* before the puller looks, so that nextChunk never leaves its polling loop for
\* the attribute that has to move first
Polls(d) == pull[d].phase = "next" /\ pull[d].pc \in {"request", "position"}
TerminatesOrPolls == Terminates \/ \E d \in Instances : <>[]Polls(d)

Total(f(_)) == FoldLeft(LAMBDA n, k : n + f(k - 1), 0, [k \in 1 .. NumInst |-> k])

\* The assertions of getPrefetchSize: what a stream and an attribute have cached or
\* asked for stays within the share of the stream, the common pool and one chunk
\* per stream that keeps it going; nothing is billed to the pool for good
ReceiveBounded ==
  \A d \in Instances, a \in Attrs :
    LET Load(s) == Cached(stream[d][a][s].msgs) + stream[d][a][s].asked
    IN /\ \A s \in Instances : Load(s) <= MaxPerStream + common[d][a]
       /\ common[d][a] <= MaxCommon + NumInst
       /\ Total(Load) <= ReceiveQueue + NumInst

\* The chunks a source holds for an attribute fit its cache: the counts of
\* chunks and of further references never say less than there is (drainInputArray,
\* findCachedChunksToSend)
SendBounded ==
  \A i \in Instances, a \in Attrs :
    /\ Cardinality(UNION {ToSet(src[i][a].cache[d]) : d \in Instances} \ {NoPos})
         <= src[i][a].size
    /\ src[i][a].size <= SendQueue

\* The assertions of getChunk and pruneRedundantPositions: what is skipped to
\* get at a chunk body is the position already known, the body is that of the
\* chunk being merged, and when it is not there it has been asked for
BodyExpected ==
  \A d \in Instances :
    pull[d].pc \in {"bodyRequest", "body"} =>
      LET a == pull[d].attr
          st == stream[d][a][Head(pull[d].left)]
          rest == Prune(st.msgs)
      IN /\ \A k \in 1 .. Len(st.msgs) - Len(rest) : st.msgs[k].pos = merge[d][a].minPos
         /\ IF rest # <<>>
            THEN Head(rest).kind = "body" /\ Head(rest).pos = merge[d][a].minPos
            ELSE At(d, "body") => st.asked > 0

\* The assertion of getPosition: a puller that waits for a position has a
\* position-only request on its way, so an answer will wake it up
PositionExpected ==
  \A d \in Instances :
    At(d, "position") =>
      LET st == stream[d][pull[d].attr][Head(pull[d].left)]
      IN st.msgs = <<>> => ~st.answered

\* The assertions of both sides on their caches: neither the puller nor the source ever
\* holds more chunks than it has places, however requests are spread over the streams
CachesBounded == TypeOK /\ ReceiveBounded /\ SendBounded

\* The assertions of the puller on the answers: what comes next in a stream is the body
\* or the position it waits for, and it never waits for what nobody was asked for
AnswersExpected == BodyExpected /\ PositionExpected

\* When the context of an instance is gone, no fetch and no chunk is on its way to
\* it: syncSG and the barrier have flushed both directions (PullSGArrayBlocking::sync)
NothingStray ==
  \A d, s \in Instances :
    ctx[d] = "unset" =>
      /\ \A k \in DOMAIN req[d][s] : ~IsFetch(req[d][s][k])
      /\ \A k \in DOMAIN rep[d][s] : ~IsFetch(rep[d][s][k])

=============================================================================
