---------------------------- MODULE AppendQueue ----------------------------
(***************************************************************************)
(* The append lane of an operator: class AppendValidationQueue of          *)
(* src/ind/transparency_server.py between the HTTP handler threads         *)
(* (do_POST) and the validation workers.                                   *)
(*                                                                         *)
(* Handlers and workers share one lock and one condition.  Every action is *)
(* what a thread does between taking the lock and giving it up, or one     *)
(* step outside the lock.  The operation itself, append_..._announcement,  *)
(* is TransparencyOperator's; here it returns or raises.                   *)
(***************************************************************************)
EXTENDS Integers, Sequences, FiniteSets

CONSTANTS
    Requests,   \* handler threads; each brings one job at a time
    Peers,      \* client addresses
    PeerOf,     \* the address behind each handler thread
    Workers,    \* append-validation-<n> threads
    QueueMax,   \* APPEND_VALIDATION_QUEUE_MAX
    PerIpMax,   \* APPEND_VALIDATION_PER_IP_QUEUE_MAX
    Nothing     \* no job

ASSUME AddressAssumption == PeerOf \in [Requests -> Peers]
ASSUME LimitAssumption == QueueMax \in Nat \ {0} /\ PerIpMax \in Nat \ {0}
ASSUME ThreadsDistinct == Requests \cap Workers = {} /\ Nothing \notin Requests
ASSUME WorkersFinite == IsFiniteSet(Workers)    \* APPEND_VALIDATION_WORKERS of them

VARIABLES
    queues,   \* _queues; an address without an entry has the empty queue
    ready,    \* _ready_peers
    count,    \* _queued_count
    closed,   \* _closed
    waiters,  \* threads inside _condition.wait, in the order they came
    handler,  \* where each handler thread is
    done,     \* job.event: the result or the exception is there
    worker    \* the job each worker runs, and where it is

vars == <<queues, ready, count, closed, waiters, handler, done, worker>>

\* The places the queues fill.
Slots(q) == UNION {{p} \X (1..Len(q[p])) : p \in Peers}

In(s) == {s[i] : i \in 1..Len(s)}

Queued == {j \in Requests : j \in In(queues[PeerOf[j]])}
Running == {j \in Requests : \E w \in Workers : worker[w].job = j}

TypeOK ==
    /\ queues \in [Peers -> Seq(Requests)]
    /\ ready \in Seq(Peers)
    /\ count \in Nat
    /\ closed \in BOOLEAN
    /\ waiters \in Seq(Requests \cup Workers)
    /\ handler \in [Requests -> {"idle", "admit", "wait", "await"}]
    /\ done \in [Requests -> BOOLEAN]
    /\ worker \in [Workers -> [stage : {"next", "wait", "run", "stopped"},
                              job : Requests \cup {Nothing}]]

Init ==
    /\ queues = [p \in Peers |-> <<>>]
    /\ ready = <<>> /\ count = 0 /\ closed = FALSE
    /\ waiters = <<>>
    /\ handler = [j \in Requests |-> "idle"]
    /\ done = [j \in Requests |-> FALSE]
    /\ worker = [w \in Workers |-> [stage |-> "next", job |-> Nothing]]

-----------------------------------------------------------------------------
(* The condition variable *)

\* Threads that leave wait() go on where they were: in _admit or in _next_job.
HandlersWoken(S, h) == [j \in Requests |-> IF j \in S THEN "admit" ELSE h[j]]
WorkersWoken(S, wk) ==
    [w \in Workers |-> IF w \in S THEN [wk[w] EXCEPT !.stage = "next"] ELSE wk[w]]

\* Who notify() wakes: the thread that has waited longest.
First(s) == IF s = <<>> THEN {} ELSE {Head(s)}
Rest(s) == IF s = <<>> THEN s ELSE Tail(s)

\* A wait that times out leaves the list itself, once it has the lock again.
Without(s, x) ==
    IF x \notin In(s) THEN s
    ELSE LET i == CHOOSE k \in 1..Len(s) : s[k] = x
         IN  [k \in 1..(Len(s) - 1) |-> IF k < i THEN s[k] ELSE s[k + 1]]

-----------------------------------------------------------------------------
(* Handler threads *)

\* do_POST accepts the request and calls submit.
Arrive(j) ==
    /\ handler[j] = "idle" /\ j \notin Queued \cup Running
    /\ handler' = [handler EXCEPT ![j] = "admit"]
    /\ done' = [done EXCEPT ![j] = FALSE]
    /\ UNCHANGED <<queues, ready, count, closed, waiters, worker>>

\* Mutant of HasRoom: the limit per address is not looked at.
HasGlobalRoom(p) == count < QueueMax

HasRoom(p) == count < QueueMax /\ Len(queues[p]) < PerIpMax

\* Entering the loop of _admit, or coming back to it when a wait timed out.
Looking(j) == handler[j] \in {"admit", "wait"}

\* Mutant of Admit: the address is listed for each of its jobs.
AdmitRelisted(j) ==
    LET p == PeerOf[j]
        others == Without(waiters, j)
    IN
    /\ Looking(j) /\ ~closed /\ HasRoom(p)
    /\ queues' = [queues EXCEPT ![p] = Append(@, j)]
    /\ ready' = Append(ready, p)
    /\ count' = count + 1
    /\ waiters' = Rest(others)
    /\ handler' = HandlersWoken(First(others), [handler EXCEPT ![j] = "await"])
    /\ worker' = WorkersWoken(First(others), worker)
    /\ UNCHANGED <<closed, done>>

\* Mutant of Admit: nobody is woken unless the address had no job.
AdmitQuiet(j) ==
    LET p == PeerOf[j]
        others == Without(waiters, j)
        wake == IF queues[p] = <<>> THEN First(others) ELSE {}
    IN
    /\ Looking(j) /\ ~closed /\ HasRoom(p)
    /\ queues' = [queues EXCEPT ![p] = Append(@, j)]
    /\ ready' = IF queues[p] = <<>> THEN Append(ready, p) ELSE ready
    /\ count' = count + 1
    /\ waiters' = IF wake = {} THEN others ELSE Rest(others)
    /\ handler' = HandlersWoken(wake, [handler EXCEPT ![j] = "await"])
    /\ worker' = WorkersWoken(wake, worker)
    /\ UNCHANGED <<closed, done>>

\* The job is queued, its address listed if it was not, and one thread notified.
Admit(j) ==
    LET p == PeerOf[j]
        others == Without(waiters, j)
    IN
    /\ Looking(j) /\ ~closed /\ HasRoom(p)
    /\ queues' = [queues EXCEPT ![p] = Append(@, j)]
    /\ ready' = IF queues[p] = <<>> THEN Append(ready, p) ELSE ready
    /\ count' = count + 1
    /\ waiters' = Rest(others)
    /\ handler' = HandlersWoken(First(others), [handler EXCEPT ![j] = "await"])
    /\ worker' = WorkersWoken(First(others), worker)
    /\ UNCHANGED <<closed, done>>

\* No room: wait for at most 50 ms at a time, until the deadline.
AdmitWait(j) ==
    /\ Looking(j) /\ ~closed /\ ~HasRoom(PeerOf[j])
    /\ waiters' = Append(Without(waiters, j), j)
    /\ handler' = [handler EXCEPT ![j] = "wait"]
    /\ UNCHANGED <<queues, ready, count, closed, done, worker>>

\* The deadline has passed, or the lane is closed: 503.
AdmitFails(j) ==
    /\ Looking(j) /\ (closed \/ ~HasRoom(PeerOf[j]))
    /\ waiters' = Without(waiters, j)
    /\ handler' = [handler EXCEPT ![j] = "idle"]
    /\ UNCHANGED <<queues, ready, count, closed, done, worker>>

\* job.event.wait(result_timeout) returns: the client gets the result or the error.
Answer(j) ==
    /\ handler[j] = "await" /\ done[j]
    /\ handler' = [handler EXCEPT ![j] = "idle"]
    /\ UNCHANGED <<queues, ready, count, closed, waiters, done, worker>>

\* The client is told 503; the job stays where it is.
ResultTimeout(j) ==
    /\ handler[j] = "await" /\ ~done[j]
    /\ handler' = [handler EXCEPT ![j] = "idle"]
    /\ UNCHANGED <<queues, ready, count, closed, waiters, done, worker>>

-----------------------------------------------------------------------------
(* Worker threads *)

\* Mutant of Rotate: an address that has more jobs keeps its turn.
KeepTurn(p, rest) == IF rest = <<>> THEN Tail(ready) ELSE <<p>> \o Tail(ready)

\* The address goes to the back of the line while it has jobs.
Rotate(p, rest) == IF rest = <<>> THEN Tail(ready) ELSE Append(Tail(ready), p)

\* Mutant of TakeJob: the job is read and left in its queue.
TakePeeked(w) ==
    LET p == Head(ready) IN
    /\ worker[w].stage = "next" /\ ready # <<>>
    /\ worker' = WorkersWoken(In(waiters),
                    [worker EXCEPT ![w] = [stage |-> "run", job |-> Head(queues[p])]])
    /\ handler' = HandlersWoken(In(waiters), handler)
    /\ queues' = [queues EXCEPT ![p] = @]
    /\ ready' = Rotate(p, queues[p])
    /\ count' = count - 1
    /\ waiters' = <<>>
    /\ UNCHANGED <<closed, done>>

\* _next_job with a job at hand; everybody is notified that there is room.
TakeJob(w) ==
    LET p == Head(ready) IN
    /\ worker[w].stage = "next" /\ ready # <<>>
    /\ worker' = WorkersWoken(In(waiters),
                    [worker EXCEPT ![w] = [stage |-> "run", job |-> Head(queues[p])]])
    /\ handler' = HandlersWoken(In(waiters), handler)
    /\ queues' = [queues EXCEPT ![p] = Tail(@)]
    /\ ready' = Rotate(p, Tail(queues[p]))
    /\ count' = count - 1
    /\ waiters' = <<>>
    /\ UNCHANGED <<closed, done>>

\* Nothing to do: wait without a time-out, or stop when the lane is closed.
NoJob(w) ==
    /\ worker[w].stage = "next" /\ ready = <<>>
    /\ worker' = [worker EXCEPT ![w].stage = IF closed THEN "stopped" ELSE "wait"]
    /\ waiters' = IF closed THEN waiters ELSE Append(waiters, w)
    /\ UNCHANGED <<queues, ready, count, closed, handler, done>>

\* The operation returns or raises; the event is set in either case.
RunJob(w) ==
    /\ worker[w].stage = "run"
    /\ done' = [done EXCEPT ![worker[w].job] = TRUE]
    /\ worker' = [worker EXCEPT ![w] = [stage |-> "next", job |-> Nothing]]
    /\ UNCHANGED <<queues, ready, count, closed, waiters, handler>>

\* Mutant of Close: one thread is notified instead of all.
CloseNotifyOne ==
    /\ ~closed /\ closed' = TRUE
    /\ waiters' = Rest(waiters)
    /\ handler' = HandlersWoken(First(waiters), handler)
    /\ worker' = WorkersWoken(First(waiters), worker)
    /\ UNCHANGED <<queues, ready, count, done>>

\* close(), when serve() ends.
Close ==
    /\ ~closed /\ closed' = TRUE
    /\ waiters' = <<>>
    /\ handler' = HandlersWoken(In(waiters), handler)
    /\ worker' = WorkersWoken(In(waiters), worker)
    /\ UNCHANGED <<queues, ready, count, done>>

-----------------------------------------------------------------------------
HandlerStep(j) ==
    \/ Arrive(j) \/ Admit(j) \/ AdmitWait(j) \/ AdmitFails(j)
    \/ Answer(j) \/ ResultTimeout(j)

WorkerStep(w) == TakeJob(w) \/ NoJob(w) \/ RunJob(w)

Next ==
    \/ \E j \in Requests : HandlerStep(j)
    \/ \E w \in Workers : WorkerStep(w)
    \/ Close

Spec == Init /\ [][Next]_vars

\* Workers are threads that never block outside the condition; an operation ends
\* (bounded proofs, a database with a busy time-out).
Fairness == \A w \in Workers : WF_vars(NoJob(w)) /\ SF_vars(TakeJob(w)) /\ WF_vars(RunJob(w))

LiveSpec == Spec /\ Fairness

-----------------------------------------------------------------------------
(* Properties *)

\* The counter is the number of queued jobs, and neither limit is ever passed,
\* whatever admissions, timed-out waits and workers interleave.
LimitsHold ==
    /\ count = Cardinality(Slots(queues)) /\ count =< QueueMax
    /\ \A p \in Peers : Len(queues[p]) =< PerIpMax

\* The line holds each address with a job exactly once: _next_job never meets an
\* empty queue, no address is served twice per round and none is forgotten.
LineIsExact ==
    /\ In(ready) = {p \in Peers : queues[p] # <<>>}
    /\ \A i, k \in 1..Len(ready) : ready[i] = ready[k] => i = k

\* A job is in one place: it is not run twice, and not run while it is queued.
RunOnce ==
    /\ Queued \cap Running = {}
    /\ \A v, w \in Workers : worker[v].job = worker[w].job => v = w \/ worker[v].job = Nothing
    /\ \A p \in Peers : \A i, k \in 1..Len(queues[p]) : queues[p][i] = queues[p][k] => i = k

Sleeping == {w \in Workers : worker[w].stage = "wait"}
Awake == {w \in Workers : worker[w].stage = "next"}

\* Handlers and workers wait on one condition and an admission notifies a single
\* thread, yet no wake-up is lost: while a worker sleeps, the workers on their way
\* to the line are as many as the queued jobs.
NoLostWakeup == Sleeping # {} => Cardinality(Awake) >= count

\* An admitted job is run in the end, although its client may have been told of a
\* time-out, other addresses keep the lane full and the lane may be closed.
AdmittedIsRun == \A j \in Requests : j \in Queued ~> done[j]

\* A closed lane empties itself and its workers stop.
WorkersStop == closed ~> \A w \in Workers : worker[w].stage = "stopped"

=============================================================================
