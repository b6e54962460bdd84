----------------------------- MODULE GossipNode -----------------------------
(***************************************************************************)
(* A gossip node: handler threads take messages from peers, workers ingest *)
(* the queued ones into the store, the database process looks at the pool  *)
(* again, the rebroadcaster forwards it, and the node stops and restarts.  *)
(* src/ind/node_client.py; what the store does with a message is           *)
(* store.ingest_message of src/ind/store.py.                               *)
(*                                                                         *)
(* A message stands for its hash; a conflict proof stands for its conflict *)
(* (evidence_key), of which other proofs are duplicates.  Rate limits,     *)
(* penalties and malformed messages are refusals that change nothing here. *)
(***************************************************************************)
EXTENDS Integers, Sequences, FiniteSets, SequencesExt

CONSTANTS
    Transfers,   \* ordinary gossip
    Reports,     \* equivocation proofs, policy violations: critical lane
    Proofs,      \* conflict proofs: ingested by the handler itself
    Exposes,     \* the two rival transfers of a proof
    Bad,         \* messages the store refuses
    Handlers, Workers,
    Db,          \* the database process
    SeenMax,     \* MAX_SEEN_GOSSIP_MESSAGES
    LaneMax,     \* NODE_GOSSIP_QUEUE_MAX, NODE_CRITICAL_QUEUE_MAX
    PoolMax,     \* MAX_GOSSIP_POOL_MESSAGES
    BatchMax,    \* NODE_REBROADCAST_BATCH_MAX_MESSAGES
    LoadMax,     \* limit=100 of the evidence read at start
    MaxTries,    \* TRANSIENT_GOSSIP_RETRY_ATTEMPTS
    Window,      \* rounds of the rebroadcaster in 300 seconds
    MaxArrivals, \* bound: messages taken from peers
    MaxStops,    \* bound: how often the node stops
    Nothing

ASSUME MessagesDistinct ==
    /\ Transfers \cap Reports = {} /\ Transfers \cap Proofs = {} /\ Reports \cap Proofs = {}
    /\ Nothing \notin Transfers \cup Reports \cup Proofs
ASSUME ThreadsDistinct ==
    Handlers \cap Workers = {} /\ Db \notin Handlers \cup Workers
\* The conflicts are those of different bills: the first one known of a bill ends the
\* search for others (_latest_conflict_proof_v3_for_token).
ASSUME ExposesAssumption ==
    /\ \A p \in Proofs : Exposes[p] \subseteq Transfers /\ Cardinality(Exposes[p]) = 2
    /\ \A p, q \in Proofs : p # q => Exposes[p] \cap Exposes[q] = {}
ASSUME LimitAssumption ==
    {SeenMax, LaneMax, PoolMax, BatchMax, LoadMax, MaxTries, Window} \subseteq Nat \ {0}
ASSUME BoundAssumption == {MaxArrivals, MaxStops} \subseteq Nat

Messages == Transfers \cup Reports \cup Proofs
Evidence == Reports \cup Proofs          \* _high_priority_gossip_type
Threads == Handlers \cup Workers \cup {Db}
Lanes == {"critical", "gossip"}

VARIABLES
    seen,    \* BoundedSeenSet of the handlers: items and order
    lanes,   \* GossipIngestQueue.queues
    thread,  \* what each handler, worker and the database process is doing
    stored,  \* transfers, reports and proofs in the store
    closed,  \* conflicts that are post-settlement for this store
    pool,    \* GossipPool.items
    look,    \* the database process's own seen set (transfers), and how its look went
    wait,    \* rounds until a piece of evidence is due again
    batch,   \* the evidence of the rebroadcaster's last round
    arrivals,  \* messages taken from peers so far
    stops

vars == <<seen, lanes, thread, stored, closed, pool, look, wait, batch, arrivals, stops>>

In(s) == {s[i] : i \in 1..Len(s)}

\* What a thread is doing: with which message, the how-manieth try, and the proof
\* that the store made of it.
At(stage, m, tries, proof) == [stage |-> stage, msg |-> m, tries |-> tries, proof |-> proof]
Idle == At("idle", Nothing, 0, Nothing)

TypeOK ==
    /\ seen \in [items : SUBSET Messages, order : Seq(Messages)] /\ Len(seen.order) <= SeenMax
    /\ lanes \in [Lanes -> Seq(Messages)]
    /\ thread \in [Threads -> [stage : {"idle", "mark", "put", "ingest", "submit", "relay"},
                              msg : Messages \cup {Nothing}, tries : 0..MaxTries,
                              proof : Proofs \cup {Nothing}]]
    /\ stored \subseteq Messages /\ closed \subseteq Proofs
    /\ pool \in Seq(Messages) /\ Len(pool) <= PoolMax
    /\ look \in [Transfers -> {"none", "done", "failed"}]
    /\ wait \in [Evidence -> 0..Window]
    /\ batch \subseteq Evidence
    /\ arrivals \in 0..MaxArrivals /\ stops \in 0..MaxStops

NoSeen == [items |-> {}, order |-> <<>>]
NoLanes == [l \in Lanes |-> <<>>]
NoThreads == [x \in Threads |-> Idle]
NoLook == [m \in Transfers |-> "none"]
NoWait == [m \in Evidence |-> 0]

Init ==
    /\ seen = NoSeen /\ lanes = NoLanes /\ thread = NoThreads
    /\ look = NoLook /\ wait = NoWait /\ batch = {}
    /\ stored = {} /\ closed = {} /\ pool = <<>>
    /\ arrivals = 0 /\ stops = 0

-----------------------------------------------------------------------------
(* BoundedSeenSet and GossipPool *)

\* add: an old entry leaves with its place in the order, even when the value
\* was discarded and added again since.
SeenAdd(s, m) ==
    IF m \in s.items THEN s
    ELSE LET order == Append(s.order, m) IN
         IF Len(order) > SeenMax
         THEN [items |-> (s.items \cup {m}) \ {Head(order)}, order |-> Tail(order)]
         ELSE [items |-> s.items \cup {m}, order |-> order]

\* discard: the place in the order stays.
SeenDiscard(s, m) == [s EXCEPT !.items = @ \ {m}]

\* add and _trim_locked: evidence goes to the front and pushes the end out,
\* ordinary gossip goes to the end and pushes the front out.
PoolAdd(q, m) ==
    IF m \in In(q) THEN q
    ELSE IF m \in Evidence
    THEN LET r == <<m>> \o q IN IF Len(r) > PoolMax THEN Front(r) ELSE r
    ELSE LET r == Append(q, m) IN IF Len(r) > PoolMax THEN Tail(r) ELSE r

-----------------------------------------------------------------------------
(* Handlers *)

Release(x) == thread' = [thread EXCEPT ![x] = Idle]
Goto(x, stage) == thread' = [thread EXCEPT ![x].stage = stage]

\* prepare_incoming_gossip; a duplicate is answered "ok" and nothing changes.
Receive(h, m) ==
    /\ thread[h].stage = "idle" /\ m \notin seen.items
    /\ arrivals < MaxArrivals /\ arrivals' = arrivals + 1
    /\ thread' = [thread EXCEPT ![h] = At(IF m \in Proofs THEN "ingest" ELSE "mark", m, 0, Nothing)]
    /\ UNCHANGED <<seen, lanes, stored, closed, pool, look, wait, batch, stops>>

\* enqueue marks the message as seen ...
Mark(h) ==
    /\ thread[h].stage = "mark"
    /\ seen' = SeenAdd(seen, thread[h].msg)
    /\ Goto(h, "put")
    /\ UNCHANGED <<lanes, stored, closed, pool, look, wait, batch, arrivals, stops>>

LaneOf(m) == IF m \in Evidence THEN "critical" ELSE "gossip"

\* Mutant of Put: a full lane leaves the mark.
PutLeavesMark(h) ==
    LET m == thread[h].msg
        lane == LaneOf(m)
    IN
    /\ thread[h].stage = "put" /\ Release(h)
    /\ lanes' = IF Len(lanes[lane]) < LaneMax THEN [lanes EXCEPT ![lane] = Append(@, m)] ELSE lanes
    /\ UNCHANGED <<seen, stored, closed, pool, look, wait, batch, arrivals, stops>>

\* ... and puts it in its lane, or takes the mark back when the lane is full.
Put(h) ==
    LET m == thread[h].msg
        lane == LaneOf(m)
    IN
    /\ thread[h].stage = "put" /\ Release(h)
    /\ IF Len(lanes[lane]) < LaneMax
       THEN lanes' = [lanes EXCEPT ![lane] = Append(@, m)] /\ UNCHANGED seen
       ELSE seen' = SeenDiscard(seen, m) /\ UNCHANGED lanes
    /\ UNCHANGED <<stored, closed, pool, look, wait, batch, arrivals, stops>>

-----------------------------------------------------------------------------
(* Workers and the database process pick up work *)

TakeFrom(w, lane) ==
    /\ thread' = [thread EXCEPT ![w] = At("ingest", Head(lanes[lane]), 1, Nothing)]
    /\ lanes' = [lanes EXCEPT ![lane] = Tail(@)]

\* _next_item looks at the critical lane and then waits on the other one: a
\* critical message that comes in between does not stop it from taking an
\* ordinary one.
Take(w, lane) ==
    /\ thread[w].stage = "idle" /\ lanes[lane] # <<>>
    /\ TakeFrom(w, lane)
    /\ UNCHANGED <<seen, stored, closed, pool, look, wait, batch, arrivals, stops>>

\* Mutant of LookAgain: a message the handlers have seen is not looked at.
LookAtUnseen(m) ==
    /\ thread[Db].stage = "idle" /\ m \in In(pool) /\ look[m] = "none"
    /\ thread' = IF m \in seen.items THEN thread
                 ELSE [thread EXCEPT ![Db] = At("ingest", m, 0, Nothing)]
    /\ look' = [look EXCEPT ![m] = "done"]
    /\ UNCHANGED <<seen, lanes, stored, closed, pool, wait, batch, arrivals, stops>>

\* The loop of database(): each message of the pool is ingested once more.  For
\* evidence, which is in the store already, that changes nothing.
LookAgain(m) ==
    /\ thread[Db].stage = "idle" /\ m \in In(pool) /\ look[m] = "none"
    /\ thread' = [thread EXCEPT ![Db] = At("ingest", m, 0, Nothing)]
    /\ look' = [look EXCEPT ![m] = "done"]
    /\ UNCHANGED <<seen, lanes, stored, closed, pool, wait, batch, arrivals, stops>>

\* finalize_pending settles a bill: a conflict about it no longer counts.
Finalize(p) ==
    /\ p \notin stored \cup closed /\ Exposes[p] \cap stored # {}
    /\ closed' = closed \cup {p}
    /\ UNCHANGED <<seen, lanes, thread, stored, pool, look, wait, batch, arrivals, stops>>

-----------------------------------------------------------------------------
(* store.ingest_message and what _ingest_prepared_gossip makes of it *)

Ingesting(x) == thread[x].stage \in {"ingest", "submit"}

\* What the database process notes when its look comes to nothing.
LookFails(x) == look' = IF x = Db THEN [look EXCEPT ![thread[x].msg] = "failed"] ELSE look

\* The handlers' set forgets the message; the database process has its own.
Forget(x) == seen' = IF x = Db THEN seen ELSE SeenDiscard(seen, thread[x].msg)

\* The store refuses the message, or fails for good.
Reject(x) ==
    /\ Ingesting(x) /\ Release(x) /\ LookFails(x) /\ Forget(x)
    /\ UNCHANGED <<lanes, stored, closed, pool, wait, batch, arrivals, stops>>

\* A mirror is behind or out of reach: a worker keeps the mark and tries again.
Transient(x) ==
    /\ Ingesting(x) /\ LookFails(x)
    /\ IF x \in Workers /\ thread[x].tries < MaxTries
       THEN /\ thread' = [thread EXCEPT ![x] = At("ingest", thread[x].msg, thread[x].tries + 1, Nothing)]
            /\ seen' = SeenAdd(seen, thread[x].msg)
       ELSE Release(x) /\ Forget(x)
    /\ UNCHANGED <<lanes, stored, closed, pool, wait, batch, arrivals, stops>>

Save(x, S, proof) ==
    /\ stored' = stored \cup S
    /\ thread' = [thread EXCEPT ![x] = At("relay", thread[x].msg, thread[x].tries, proof)]

\* An accepted message that is not passed on.
Keep(x) ==
    /\ seen' = IF x = Db THEN seen ELSE SeenAdd(seen, thread[x].msg)
    /\ Release(x)

Conflicts(m) == {p \in Proofs : m \in Exposes[p]}
Rivals(m) == {p \in Conflicts(m) : Exposes[p] \ {m} \subseteq stored}

\* _ingest_transfer_announcement_v3 up to the search for rivals.  A stored
\* rival is exposed; one that cannot be verified now is passed over.
IngestTransfer(x) ==
    LET m == thread[x].msg IN
    /\ thread[x].stage = "ingest" /\ m \in Transfers \ Bad
    /\ \/ /\ Conflicts(m) \cap (stored \ closed) # {}
          /\ Save(x, {m}, Nothing) /\ UNCHANGED <<seen, look>>
       \/ /\ Conflicts(m) \cap (stored \ closed) = {}
          /\ \E p \in Rivals(m) :
               IF p \in closed THEN Keep(x) /\ UNCHANGED <<stored, look>>
               ELSE Save(x, {m, p}, p) /\ UNCHANGED <<seen, look>>
       \/ /\ Conflicts(m) \cap (stored \ closed) = {}
          /\ Goto(x, "submit")
          /\ IF Rivals(m) = {} THEN UNCHANGED look ELSE LookFails(x)
          /\ UNCHANGED <<seen, stored>>
    /\ UNCHANGED <<lanes, closed, pool, wait, batch, arrivals, stops>>

\* The operators have been asked; the bill is stored with no second search.
CommitTransfer(x) ==
    /\ thread[x].stage = "submit"
    /\ Save(x, {thread[x].msg}, Nothing)
    /\ UNCHANGED <<seen, lanes, closed, pool, look, wait, batch, arrivals, stops>>

\* _ingest_conflict_proof_v3: only a new conflict is passed on.
IngestProof(x) ==
    LET p == thread[x].msg IN
    /\ thread[x].stage = "ingest" /\ p \in Proofs \ Bad
    /\ IF p \in closed \cup stored THEN Keep(x) /\ UNCHANGED stored
       ELSE Save(x, {p}, p) /\ UNCHANGED seen
    /\ UNCHANGED <<lanes, closed, pool, look, wait, batch, arrivals, stops>>

\* _ingest_transparency_equivocation and ..._operator_policy_violation
IngestReport(x) ==
    /\ thread[x].stage = "ingest" /\ thread[x].msg \in Reports \ Bad
    /\ Save(x, {thread[x].msg}, Nothing)
    /\ UNCHANGED <<seen, lanes, closed, pool, look, wait, batch, arrivals, stops>>

\* After ingest_message: the mark, the pool, queue_store_result_gossip.  The
\* database process adds only the conflict it met.
Relay(x) ==
    LET t == thread[x]
        q == IF x = Db THEN pool ELSE PoolAdd(pool, t.msg)
    IN
    /\ t.stage = "relay" /\ Release(x)
    /\ seen' = IF x = Db THEN seen ELSE SeenAdd(seen, t.msg)
    /\ pool' = IF t.proof = Nothing THEN q ELSE PoolAdd(q, t.proof)
    /\ UNCHANGED <<lanes, stored, closed, look, wait, batch, arrivals, stops>>

-----------------------------------------------------------------------------
(* maintain_connections *)

\* Mutant of Rebroadcast: the clock never runs down.
RebroadcastOnce ==
    \E d \in 1..Window :
      LET due == {m \in Evidence \cap In(pool) : wait[m] = 0} IN
      /\ batch' = due
      /\ wait' = [m \in Evidence |-> IF m \in due THEN Window ELSE wait[m]]
      /\ UNCHANGED <<seen, lanes, thread, stored, closed, pool, look, arrivals, stops>>

\* One round: the evidence that is due, in the order of the pool, cut to one
\* batch; the clock of all of it is set.
Rebroadcast ==
    \E d \in 1..Window :
      LET left == [m \in Evidence |-> IF wait[m] > d THEN wait[m] - d ELSE 0]
          due == {i \in 1..Len(pool) : pool[i] \in Evidence /\ left[pool[i]] = 0}
          first == {i \in due : Cardinality({k \in due : k <= i}) <= BatchMax}
      IN
      /\ batch' = {pool[i] : i \in first}
      /\ wait' = [m \in Evidence |-> IF m \in {pool[i] : i \in due} THEN Window ELSE left[m]]
      /\ UNCHANGED <<seen, lanes, thread, stored, closed, pool, look, arrivals, stops>>

-----------------------------------------------------------------------------
(* Stop and start *)

\* Mutant of Restart: the pool starts empty.
RestartEmpty ==
    /\ stops < MaxStops /\ stops' = stops + 1
    /\ seen' = NoSeen /\ lanes' = NoLanes /\ thread' = NoThreads
    /\ look' = NoLook /\ wait' = NoWait /\ batch' = {}
    /\ pool' = <<>>
    /\ UNCHANGED <<stored, closed, arrivals>>

\* database() puts the reports and then the conflicts to the front of an empty pool, one by
\* one: the last comes first, and what the pool has no room for is pushed out at the end.
Loaded(R, P) ==
    LET newest == SetToSeq(P) \o SetToSeq(R)
    IN  SubSeq(newest, 1, IF Len(newest) < PoolMax THEN Len(newest) ELSE PoolMax)

\* The processes end anywhere; database() starts from the evidence in the store.
Restart ==
    /\ stops < MaxStops /\ stops' = stops + 1
    /\ seen' = NoSeen /\ lanes' = NoLanes /\ thread' = NoThreads
    /\ look' = NoLook /\ wait' = NoWait /\ batch' = {}
    /\ \E R \in SUBSET (stored \cap Reports), P \in SUBSET (stored \cap Proofs) :
         /\ R = stored \cap Reports \/ Cardinality(R) = LoadMax
         /\ P = stored \cap Proofs \/ Cardinality(P) = LoadMax
         /\ pool' = Loaded(R, P)
    /\ UNCHANGED <<stored, closed, arrivals>>

-----------------------------------------------------------------------------
HandlerStep(h) == Mark(h) \/ Put(h)

IngestStep(x) ==
    \/ Reject(x) \/ Transient(x)
    \/ IngestTransfer(x) \/ CommitTransfer(x) \/ IngestProof(x) \/ IngestReport(x)
    \/ Relay(x)

WorkerStep(w) == \E lane \in Lanes : Take(w, lane)

Next ==
    \/ \E h \in Handlers : HandlerStep(h) \/ \E m \in Messages : Receive(h, m)
    \/ \E w \in Workers : WorkerStep(w)
    \/ \E x \in Threads : IngestStep(x)
    \/ \E m \in Transfers : LookAgain(m)
    \/ \E p \in Proofs : Finalize(p)
    \/ Rebroadcast
    \/ Restart

Spec == Init /\ [][Next]_vars

\* A thread that has stored a message goes on to the pool, which blocks on a lock
\* only, and the rebroadcaster loops for ever; nothing else has to be fair.
Fairness == (\A x \in Threads : WF_vars(Relay(x))) /\ WF_vars(Rebroadcast)

LiveSpec == Spec /\ Fairness

-----------------------------------------------------------------------------
(* Properties *)

Held == {thread[x].msg : x \in Handlers \cup Workers} \cup UNION {In(lanes[l]) : l \in Lanes}
Settled == closed \cup UNION {Exposes[p] : p \in closed}

\* The duplicate cache is never poisoned: a message that is answered as a
\* duplicate was accepted by the store or is still on its way there, whatever
\* copies of it other threads are refused, retry or find no room for.
SeenIsHeldOrKnown == seen.items \subseteq stored \cup Settled \cup Held

\* Evidence in the store is in the pool or in the hands of the thread that puts
\* it there, across stops and starts, while the pool has room and no more is read
\* back than LoadMax: a full pool pushes out its front, where the evidence is, for
\* an ordinary message.
StoredEvidenceIsRelayed ==
    \A m \in Evidence \cap stored :
      m \in In(pool) \/ \E x \in Threads : thread[x].stage = "relay" /\ m \in {thread[x].msg, thread[x].proof}

\* Evidence in the store is sent to peers again and again.
EvidenceKeepsSpreading == \A m \in Evidence : m \in stored ~> m \in batch

\* Two rivals whose ingestion overlaps miss each other and are both stored, yet
\* the second look of the database process exposes them: once it has been at
\* both since it started, the proof is in the store or the bill is settled, unless
\* a look failed.
RivalsAreExposed ==
    \A p \in Proofs :
      (/\ Exposes[p] \subseteq stored
       /\ \A t \in Exposes[p] : look[t] = "done" /\ thread[Db].msg # t)
      => p \in stored \cup closed

=============================================================================
