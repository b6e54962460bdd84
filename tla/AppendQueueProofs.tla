-------------------------- MODULE AppendQueueProofs --------------------------
(***************************************************************************)
(* Proofs about AppendQueue for every number of handlers, workers and      *)
(* addresses and every limit: the line of addresses is exact, the limits   *)
(* hold, a job is in one place, and one condition shared by handlers and   *)
(* workers loses no wake-up although an admission notifies one thread.     *)
(***************************************************************************)
EXTENDS AppendQueue, FiniteSetTheorems, TLAPS

-----------------------------------------------------------------------------
(* The inductive invariant *)

Distinct(s) == \A i, k \in 1..Len(s) : s[i] = s[k] => i = k

Waiting == {j \in Requests : handler[j] = "wait"}

\* A job is queued under the address of its handler, and a handler that asks for room
\* has no job in the lane.
JobsAtHome ==
    /\ \A p \in Peers : \A j \in In(queues[p]) : PeerOf[j] = p
    /\ \A j \in Requests : Looking(j) => j \notin Queued \cup Running
    /\ \A w \in Workers : worker[w].stage = "run" <=> worker[w].job # Nothing

\* The list of waiters is exact.  No worker waits behind a handler: a handler waits only
\* for room, so the lane is not empty, and a worker waits only for a job, so it is.
WorkersFirst(s) ==
    \A i, k \in 1..Len(s) : i < k /\ s[k] \in Workers => s[i] \in Workers

WaitersInOrder ==
    /\ In(waiters) = Sleeping \cup Waiting
    /\ Distinct(waiters)
    /\ WorkersFirst(waiters)
    /\ Waiting # {} => count > 0

Inv ==
    /\ TypeOK
    /\ LineIsExact
    /\ IsFiniteSet(Slots(queues)) /\ LimitsHold
    /\ JobsAtHome /\ RunOnce
    /\ WaitersInOrder
    /\ NoLostWakeup

-----------------------------------------------------------------------------
(* Lines and lists *)

\* deque.append adds its element at the end.
LEMMA AppendFacts ==
    ASSUME NEW S, NEW s \in Seq(S), NEW x \in S
    PROVE  /\ Append(s, x) \in Seq(S) /\ Len(Append(s, x)) = Len(s) + 1
           /\ Append(s, x) # <<>>
           /\ In(Append(s, x)) = In(s) \cup {x}
           /\ Distinct(s) /\ x \notin In(s) => Distinct(Append(s, x))
<1> DEFINE t == Append(s, x)
<1>1. /\ t \in Seq(S) /\ Len(t) = Len(s) + 1 /\ t # <<>> /\ Len(s) \in Nat
      /\ \A i \in 1..Len(s) : t[i] = s[i]
      /\ t[Len(s) + 1] = x
      /\ \A i \in 1..Len(t) : i \in 1..Len(s) \/ i = Len(s) + 1
      /\ \A i \in 1..Len(s) : i \in 1..Len(t)
      /\ Len(s) + 1 \in 1..Len(t)
    OBVIOUS
<1> HIDE DEF t
<1>2. In(t) = In(s) \cup {x}
    BY <1>1 DEF In
<1>3. Distinct(s) /\ x \notin In(s) => Distinct(t)
    BY <1>1 DEF Distinct, In
<1> QED BY <1>1, <1>2, <1>3 DEF t

\* deque.popleft takes the first element, which is nowhere else in a distinct list.
LEMMA TailFacts ==
    ASSUME NEW S, NEW s \in Seq(S), s # <<>>
    PROVE  /\ Tail(s) \in Seq(S) /\ Len(Tail(s)) = Len(s) - 1 /\ Len(s) \in Nat /\ Len(s) > 0
           /\ Head(s) \in S /\ In(s) = In(Tail(s)) \cup {Head(s)}
           /\ Distinct(s) => Distinct(Tail(s)) /\ Head(s) \notin In(Tail(s))
<1> DEFINE t == Tail(s)
<1>1. /\ t \in Seq(S) /\ Len(t) = Len(s) - 1 /\ Len(s) \in Nat /\ Len(s) > 0
      /\ Head(s) = s[1] /\ s[1] \in S /\ 1 \in 1..Len(s)
      /\ \A i \in 1..Len(t) : t[i] = s[i + 1] /\ i + 1 \in 1..Len(s) /\ i + 1 # 1
      /\ \A i \in 1..Len(s) : i = 1 \/ (i - 1 \in 1..Len(t) /\ t[i - 1] = s[i])
    OBVIOUS
<1> HIDE DEF t
<1>2. In(s) = In(t) \cup {Head(s)}
    BY <1>1 DEF In
<1>3. ASSUME Distinct(s) PROVE Distinct(t) /\ Head(s) \notin In(t)
    <2>1. Distinct(t)
        <3> SUFFICES ASSUME NEW i \in 1..Len(t), NEW k \in 1..Len(t), t[i] = t[k]
                     PROVE  i = k
            BY DEF Distinct
        <3>1. i + 1 = k + 1
            BY <1>1, <1>3 DEF Distinct
        <3> QED BY <3>1
    <2>2. Head(s) \notin In(t)
        BY <1>1, <1>3 DEF Distinct, In
    <2> QED BY <2>1, <2>2
<1> QED BY <1>1, <1>2, <1>3 DEF t

\* deque.remove takes its element out and leaves the others in their order.
LEMMA WithoutFacts ==
    ASSUME NEW S, NEW s \in Seq(S), NEW x, Distinct(s), WorkersFirst(s)
    PROVE  /\ Without(s, x) \in Seq(S)
           /\ In(Without(s, x)) = In(s) \ {x}
           /\ Distinct(Without(s, x))
           /\ WorkersFirst(Without(s, x))
<1>1. CASE x \notin In(s)
    <2>1. Without(s, x) = s
        BY <1>1 DEF Without
    <2> QED BY <1>1, <2>1
<1>2. CASE x \in In(s)
    <2> DEFINE i == CHOOSE k \in 1..Len(s) : s[k] = x
               t == [k \in 1..(Len(s) - 1) |-> IF k < i THEN s[k] ELSE s[k + 1]]
               b(k) == IF k < i THEN k ELSE k + 1
    <2>1. Without(s, x) = t
        BY <1>2 DEF Without
    <2>2. i \in 1..Len(s) /\ s[i] = x /\ Len(s) \in Nat
        BY <1>2 DEF In
    <2> HIDE DEF i
    <2>3. /\ t \in Seq(S) /\ Len(t) = Len(s) - 1
          /\ \A k \in 1..Len(t) : /\ t[k] = s[b(k)] /\ b(k) \in 1..Len(s) /\ b(k) # i
        <3>1. \A k \in 1..(Len(s) - 1) : /\ b(k) \in 1..Len(s) /\ b(k) # i /\ t[k] = s[b(k)]
                                         /\ s[b(k)] \in S
            BY <2>2
        <3>2. t \in Seq(S) /\ Len(t) = Len(s) - 1
            <4>1. Len(s) - 1 \in Nat
                BY <2>2
            <4>2. t \in [1..(Len(s) - 1) -> S]
                BY <3>1
            <4> HIDE DEF t
            <4> QED BY <4>1, <4>2
        <3> QED BY <3>1, <3>2
    <2>4. \A k, l \in 1..Len(t) : /\ b(k) = b(l) => k = l
                                  /\ k < l => b(k) < b(l)
        BY <2>2, <2>3
    <2>5. \A k \in 1..Len(s) : k = i \/ \E l \in 1..Len(t) : b(l) = k
        <3> SUFFICES ASSUME NEW k \in 1..Len(s), k # i
                     PROVE  \E l \in 1..Len(t) : b(l) = k
            OBVIOUS
        <3>1. CASE k < i
            <4>1. k \in 1..Len(t) /\ b(k) = k
                BY <2>2, <2>3, <3>1
            <4> QED BY <4>1
        <3>2. CASE k > i
            <4>1. k - 1 \in 1..Len(t) /\ b(k - 1) = k
                BY <2>2, <2>3, <3>2
            <4> QED BY <4>1
        <3> QED BY <2>2, <3>1, <3>2
    <2> HIDE DEF b, t
    <2>6. In(t) = In(s) \ {x}
        <3>1. ASSUME NEW k \in 1..Len(t) PROVE t[k] \in In(s) \ {x}
            BY <2>2, <2>3 DEF Distinct, In
        <3>2. ASSUME NEW k \in 1..Len(s), s[k] # x PROVE s[k] \in In(t)
            BY <2>2, <2>3, <2>5, <3>2 DEF In
        <3> QED BY <3>1, <3>2 DEF In
    <2>7. Distinct(t)
        BY <2>3, <2>4 DEF Distinct
    <2>8. WorkersFirst(t)
        BY <2>3, <2>4 DEF WorkersFirst
    <2> QED BY <2>1, <2>3, <2>6, <2>7, <2>8
<1> QED BY <1>1, <1>2

\* An admission fills the place behind the last one.
LEMMA SlotsAppend ==
    ASSUME NEW q \in [Peers -> Seq(Requests)], NEW p \in Peers, NEW j \in Requests
    PROVE  /\ Slots([q EXCEPT ![p] = Append(@, j)]) = Slots(q) \cup {<<p, Len(q[p]) + 1>>}
           /\ <<p, Len(q[p]) + 1>> \notin Slots(q)
<1> DEFINE r == [q EXCEPT ![p] = Append(@, j)]
<1>1. /\ \A x \in Peers : Len(q[x]) \in Nat
      /\ \A x \in Peers : x # p => r[x] = q[x]
      /\ Len(r[p]) = Len(q[p]) + 1
    BY AppendFacts
<1>2. 1..(Len(q[p]) + 1) = (1..Len(q[p])) \cup {Len(q[p]) + 1}
    BY <1>1
<1>3. Len(q[p]) + 1 \notin 1..Len(q[p])
    BY <1>1
<1> HIDE DEF r
<1>4. Slots(r) = Slots(q) \cup {<<p, Len(q[p]) + 1>>}
    BY <1>1, <1>2 DEF Slots
<1>5. <<p, Len(q[p]) + 1>> \notin Slots(q)
    BY <1>3 DEF Slots
<1> QED BY <1>4, <1>5 DEF r

\* A job taken leaves the last place of its queue free.
LEMMA SlotsTail ==
    ASSUME NEW q \in [Peers -> Seq(Requests)], NEW p \in Peers, q[p] # <<>>
    PROVE  /\ Slots([q EXCEPT ![p] = Tail(@)]) = Slots(q) \ {<<p, Len(q[p])>>}
           /\ <<p, Len(q[p])>> \in Slots(q)
<1> DEFINE r == [q EXCEPT ![p] = Tail(@)]
<1>1. /\ \A x \in Peers : x # p => r[x] = q[x]
      /\ Len(r[p]) = Len(q[p]) - 1 /\ Len(q[p]) \in Nat /\ Len(q[p]) > 0
    BY TailFacts
<1>2. 1..(Len(q[p]) - 1) = (1..Len(q[p])) \ {Len(q[p])} /\ Len(q[p]) \in 1..Len(q[p])
    BY <1>1
<1> HIDE DEF r
<1>3. Slots(r) = Slots(q) \ {<<p, Len(q[p])>>}
    BY <1>1, <1>2 DEF Slots
<1>4. <<p, Len(q[p])>> \in Slots(q)
    BY <1>2 DEF Slots
<1> QED BY <1>3, <1>4 DEF r

-----------------------------------------------------------------------------
(* Facts about a state *)

\* A job that is queued anywhere is queued under its own address.
LEMMA QueuedIsHome ==
    ASSUME JobsAtHome, NEW p \in Peers, NEW j \in Requests
    PROVE  j \in In(queues[p]) <=> j \in Queued /\ PeerOf[j] = p
BY DEF JobsAtHome, Queued

\* The address at the head of the line has a job, and the lane is then not empty.
LEMMA HeadHasJob ==
    ASSUME TypeOK, LineIsExact, ready # <<>>
    PROVE  Head(ready) \in Peers /\ queues[Head(ready)] # <<>>
<1>1. ready \in Seq(Peers)
    BY DEF TypeOK
<1>2. Head(ready) \in Peers /\ Head(ready) \in In(ready)
    BY <1>1, TailFacts
<1> QED BY <1>2 DEF LineIsExact

\* Nobody in line, nothing queued.
LEMMA EmptyLine ==
    ASSUME TypeOK, LineIsExact, LimitsHold, ready = <<>>
    PROVE  count = 0
<1>1. \A p \in Peers : queues[p] = <<>>
    BY DEF LineIsExact, In
<1>2. Slots(queues) = {}
    BY <1>1 DEF Slots
<1> QED BY <1>2, FS_EmptySet DEF LimitsHold

\* A full lane or a full address is not an empty lane.
LEMMA NoRoomNotEmpty ==
    ASSUME TypeOK, IsFiniteSet(Slots(queues)), LimitsHold, NEW p \in Peers, ~HasRoom(p)
    PROVE  count > 0
<1>1. count \in Nat /\ QueueMax \in Nat \ {0} /\ PerIpMax \in Nat \ {0}
    BY LimitAssumption DEF TypeOK
<1>2. CASE ~(count < QueueMax)
    BY <1>1, <1>2
<1>3. CASE ~(Len(queues[p]) < PerIpMax)
    <2>1. Len(queues[p]) \in Nat
        BY DEF TypeOK
    <2>2. 1 \in 1..Len(queues[p])
        BY <1>1, <1>3, <2>1
    <2>3. <<p, 1>> \in Slots(queues)
        BY <2>2 DEF Slots
    <2>4. count # 0
        BY <2>3, FS_EmptySet DEF LimitsHold
    <2> QED BY <1>1, <2>4
<1> QED BY <1>2, <1>3 DEF HasRoom

-----------------------------------------------------------------------------
(* Steps that leave the queues alone *)

\* What the invariant says of the queues and the line.
LaneOK == LineIsExact /\ IsFiniteSet(Slots(queues)) /\ LimitsHold

LEMMA LaneUnchanged ==
    ASSUME LaneOK, UNCHANGED <<queues, ready, count>>
    PROVE  LaneOK'
BY DEF LaneOK, LineIsExact, LimitsHold, In, Slots

\* Jobs stay where they are while queues and workers do and no new handler asks for room.
LEMMA JobsUnchanged ==
    ASSUME JobsAtHome, RunOnce, UNCHANGED queues,
           \A w \in Workers : /\ worker'[w].job = worker[w].job
                              /\ worker'[w].stage = "run" <=> worker[w].stage = "run",
           \A j \in Requests : Looking(j)' => Looking(j) \/ j \notin Queued \cup Running
    PROVE  JobsAtHome' /\ RunOnce'
<1>1. Queued' = Queued /\ Running' = Running
    BY DEF Queued, Running, In
<1>2. JobsAtHome'
    BY <1>1 DEF JobsAtHome, In
<1>3. RunOnce'
    BY <1>1 DEF RunOnce
<1> QED BY <1>2, <1>3

\* do_POST brings a job of its own thread.
LEMMA ArriveInv ==
    ASSUME Inv, NEW j \in Requests, Arrive(j)
    PROVE  Inv'
<1>1. TypeOK'
    BY DEF Arrive, Inv, TypeOK
<1>2. LaneOK'
    BY LaneUnchanged DEF Arrive, Inv, LaneOK
<1>3. \A i \in Requests : Looking(i)' => Looking(i) \/ i = j
    BY DEF Arrive, Looking, Inv, TypeOK
<1>4. JobsAtHome' /\ RunOnce'
    BY <1>3, JobsUnchanged DEF Arrive, Inv
<1>5. Waiting' = Waiting /\ Sleeping' = Sleeping /\ Awake' = Awake
    BY DEF Arrive, Waiting, Sleeping, Awake, Inv, TypeOK
<1>6. WaitersInOrder' /\ NoLostWakeup'
    BY <1>5 DEF Arrive, Inv, WaitersInOrder, WorkersFirst, Distinct, NoLostWakeup, In
<1> QED BY <1>1, <1>2, <1>4, <1>6 DEF Inv, LaneOK

\* An answer or a 503 after the job was admitted touches no list.
LEMMA AnswerInv ==
    ASSUME Inv, NEW j \in Requests, Answer(j) \/ ResultTimeout(j)
    PROVE  Inv'
<1> USE DEF Answer, ResultTimeout
<1>1. TypeOK'
    BY DEF Inv, TypeOK
<1>2. LaneOK'
    BY LaneUnchanged DEF Inv, LaneOK
<1>3. \A i \in Requests : Looking(i)' => Looking(i)
    BY DEF Looking, Inv, TypeOK
<1>4. JobsAtHome' /\ RunOnce'
    BY <1>3, JobsUnchanged DEF Inv
<1>5. Waiting' = Waiting /\ Sleeping' = Sleeping /\ Awake' = Awake
    BY DEF Waiting, Sleeping, Awake, Inv, TypeOK
<1>6. WaitersInOrder' /\ NoLostWakeup'
    BY <1>5 DEF Inv, WaitersInOrder, WorkersFirst, Distinct, NoLostWakeup, In
<1> QED BY <1>1, <1>2, <1>4, <1>6 DEF Inv, LaneOK

\* A handler that waits, again or for the first time, goes behind all others.
LEMMA AdmitWaitInv ==
    ASSUME Inv, NEW j \in Requests, AdmitWait(j)
    PROVE  Inv'
<1> DEFINE others == Without(waiters, j)
<1>1. /\ waiters \in Seq(Requests \cup Workers) /\ j \in Requests \cup Workers
      /\ j \notin Workers
    BY ThreadsDistinct DEF Inv, TypeOK
<1>2. /\ others \in Seq(Requests \cup Workers) /\ In(others) = In(waiters) \ {j}
      /\ Distinct(others) /\ WorkersFirst(others)
    BY <1>1, WithoutFacts DEF Inv, WaitersInOrder
<1> HIDE DEF others
<1>3. /\ waiters' = Append(others, j) /\ waiters' \in Seq(Requests \cup Workers)
      /\ In(waiters') = In(waiters) \cup {j} /\ Distinct(waiters')
    BY <1>1, <1>2, AppendFacts DEF AdmitWait, others
<1>4. TypeOK'
    BY <1>3 DEF AdmitWait, Inv, TypeOK
<1>5. LaneOK'
    BY LaneUnchanged DEF AdmitWait, Inv, LaneOK
<1>6. \A i \in Requests : Looking(i)' => Looking(i)
    BY DEF AdmitWait, Looking, Inv, TypeOK
<1>7. JobsAtHome' /\ RunOnce'
    BY <1>6, JobsUnchanged DEF AdmitWait, Inv
<1>8. Waiting' = Waiting \cup {j} /\ Sleeping' = Sleeping /\ Awake' = Awake
    BY DEF AdmitWait, Waiting, Sleeping, Awake, Inv, TypeOK
<1>9. WorkersFirst(waiters')
    <2>1. /\ Len(others) \in Nat /\ Len(waiters') = Len(others) + 1
          /\ \A i \in 1..Len(others) : waiters'[i] = others[i]
          /\ waiters'[Len(others) + 1] = j
        BY <1>1, <1>2, <1>3
    <2> QED BY <1>1, <1>2, <2>1 DEF WorkersFirst
<1>10. count' > 0
    <2>1. PeerOf[j] \in Peers /\ ~HasRoom(PeerOf[j]) /\ count' = count
        BY AddressAssumption DEF AdmitWait
    <2> QED BY <2>1, NoRoomNotEmpty DEF Inv
<1>11. WaitersInOrder'
    BY <1>3, <1>8, <1>9, <1>10 DEF Inv, WaitersInOrder, WorkersFirst, Distinct, In
<1>12. NoLostWakeup'
    BY <1>8 DEF AdmitWait, Inv, NoLostWakeup
<1> QED BY <1>4, <1>5, <1>7, <1>11, <1>12 DEF Inv, LaneOK

\* A handler that gives up leaves the list.
LEMMA AdmitFailsInv ==
    ASSUME Inv, NEW j \in Requests, AdmitFails(j)
    PROVE  Inv'
<1>1. waiters \in Seq(Requests \cup Workers) /\ j \notin Workers
    BY ThreadsDistinct DEF Inv, TypeOK
<1>2. /\ waiters' \in Seq(Requests \cup Workers) /\ In(waiters') = In(waiters) \ {j}
      /\ Distinct(waiters') /\ WorkersFirst(waiters')
    BY <1>1, WithoutFacts DEF AdmitFails, Inv, WaitersInOrder
<1>3. TypeOK'
    BY <1>2 DEF AdmitFails, Inv, TypeOK
<1>4. LaneOK'
    BY LaneUnchanged DEF AdmitFails, Inv, LaneOK
<1>5. \A i \in Requests : Looking(i)' => Looking(i)
    BY DEF AdmitFails, Looking, Inv, TypeOK
<1>6. JobsAtHome' /\ RunOnce'
    BY <1>5, JobsUnchanged DEF AdmitFails, Inv
<1>7. Waiting' = Waiting \ {j} /\ Sleeping' = Sleeping /\ Awake' = Awake
    BY DEF AdmitFails, Waiting, Sleeping, Awake, Inv, TypeOK
<1>8. j \notin Sleeping
    BY <1>1 DEF Sleeping
<1>9. WaitersInOrder'
    BY <1>2, <1>7, <1>8 DEF AdmitFails, Inv, WaitersInOrder, WorkersFirst, Distinct, In
<1>10. NoLostWakeup'
    BY <1>7 DEF AdmitFails, Inv, NoLostWakeup
<1> QED BY <1>3, <1>4, <1>6, <1>9, <1>10 DEF Inv, LaneOK

-----------------------------------------------------------------------------
(* An admission *)

\* notify() takes the longest waiting thread off the list; where a worker waits it is one.
LEMMA FirstFacts ==
    ASSUME NEW S, NEW s \in Seq(S), Distinct(s), WorkersFirst(s)
    PROVE  /\ Rest(s) \in Seq(S) /\ In(Rest(s)) = In(s) \ First(s)
           /\ Distinct(Rest(s)) /\ WorkersFirst(Rest(s))
           /\ First(s) \subseteq In(s)
           /\ In(s) \cap Workers # {} => \E w \in Workers : First(s) = {w}
<1>1. CASE s = <<>>
    BY <1>1 DEF Rest, First, In
<1>2. CASE s # <<>>
    <2> DEFINE t == Tail(s)
    <2>1. Rest(s) = t /\ First(s) = {Head(s)}
        BY <1>2 DEF Rest, First
    <2>2. /\ t \in Seq(S) /\ In(s) = In(t) \cup {Head(s)}
          /\ Distinct(t) /\ Head(s) \notin In(t)
        BY <1>2, TailFacts
    <2>3. /\ Len(t) = Len(s) - 1 /\ Len(s) \in Nat /\ Len(s) > 0 /\ Head(s) = s[1]
          /\ \A i \in 1..Len(t) : t[i] = s[i + 1]
        BY <1>2
    <2> HIDE DEF t
    <2>4. WorkersFirst(t)
        <3> SUFFICES ASSUME NEW i \in 1..Len(t), NEW k \in 1..Len(t), i < k, t[k] \in Workers
                     PROVE  t[i] \in Workers
            BY DEF WorkersFirst
        <3>1. i + 1 \in 1..Len(s) /\ k + 1 \in 1..Len(s) /\ i + 1 < k + 1
            BY <2>3
        <3> QED BY <2>3, <3>1 DEF WorkersFirst
    <2>5. ASSUME NEW w \in In(s) \cap Workers PROVE Head(s) \in Workers
        <3>1. PICK k \in 1..Len(s) : s[k] = w
            BY DEF In
        <3>2. k = 1 \/ (1 < k /\ 1 \in 1..Len(s))
            BY <2>3
        <3> QED BY <2>3, <3>1, <3>2 DEF WorkersFirst
    <2> QED BY <2>1, <2>2, <2>4, <2>5
<1> QED BY <1>1, <1>2

\* The job takes a free place, and its address joins the line if it was not in it.
LEMMA AdmitLane ==
    ASSUME Inv, NEW j \in Requests, Admit(j)
    PROVE  LaneOK' /\ queues' \in [Peers -> Seq(Requests)] /\ ready' \in Seq(Peers)
<1> DEFINE p == PeerOf[j]
<1>1. p \in Peers
    BY AddressAssumption
<1>2. /\ queues \in [Peers -> Seq(Requests)] /\ ready \in Seq(Peers) /\ count \in Nat
      /\ QueueMax \in Nat /\ PerIpMax \in Nat
    BY LimitAssumption DEF Inv, TypeOK
<1>3. /\ queues' = [queues EXCEPT ![p] = Append(@, j)] /\ count' = count + 1
      /\ ready' = IF queues[p] = <<>> THEN Append(ready, p) ELSE ready
      /\ count < QueueMax /\ Len(queues[p]) < PerIpMax
    BY DEF Admit, HasRoom
<1> HIDE DEF p
<1>4. /\ queues'[p] \in Seq(Requests) /\ Len(queues'[p]) = Len(queues[p]) + 1
      /\ queues'[p] # <<>> /\ Len(queues[p]) \in Nat
      /\ \A x \in Peers : x # p => queues'[x] = queues[x]
    BY <1>1, <1>2, <1>3, AppendFacts
<1>5. queues' \in [Peers -> Seq(Requests)] /\ ready' \in Seq(Peers)
    BY <1>1, <1>2, <1>3, <1>4, AppendFacts
<1>6. LineIsExact'
    <2>1. In(ready) = {x \in Peers : queues[x] # <<>>} /\ Distinct(ready)
        BY DEF Inv, LineIsExact, Distinct
    <2>2. {x \in Peers : queues'[x] # <<>>} = {x \in Peers : queues[x] # <<>>} \cup {p}
        BY <1>1, <1>4
    <2>3. In(ready') = In(ready) \cup {p} /\ Distinct(ready')
        <3>1. CASE queues[p] = <<>>
            <4>1. p \notin In(ready)
                BY <2>1, <3>1
            <4> QED BY <1>1, <1>2, <1>3, <2>1, <3>1, <4>1, AppendFacts
        <3>2. CASE queues[p] # <<>>
            BY <1>1, <1>3, <2>1, <3>2
        <3> QED BY <3>1, <3>2
    <2>4. In(ready)' = In(ready')
        BY DEF In
    <2> QED BY <2>1, <2>2, <2>3, <2>4 DEF LineIsExact, Distinct
<1>7. IsFiniteSet(Slots(queues')) /\ count' = Cardinality(Slots(queues'))
    <2>1. /\ Slots(queues') = Slots(queues) \cup {<<p, Len(queues[p]) + 1>>}
          /\ <<p, Len(queues[p]) + 1>> \notin Slots(queues)
        BY <1>1, <1>2, <1>3, SlotsAppend
    <2>2. IsFiniteSet(Slots(queues)) /\ count = Cardinality(Slots(queues))
        BY DEF Inv, LimitsHold
    <2> QED BY <1>3, <2>1, <2>2, FS_AddElement
<1>8. count' =< QueueMax /\ \A x \in Peers : Len(queues'[x]) =< PerIpMax
    BY <1>2, <1>3, <1>4 DEF Inv, LimitsHold
<1> QED BY <1>5, <1>6, <1>7, <1>8 DEF LaneOK, LimitsHold, Slots

\* An admission notifies one thread: a sleeping worker where there is one, so the workers
\* on their way grow with the queued jobs.
LEMMA AdmitInv ==
    ASSUME Inv, NEW j \in Requests, Admit(j)
    PROVE  Inv'
<1> DEFINE p == PeerOf[j]
           others == Without(waiters, j)
           F == First(others)
<1>1. /\ waiters \in Seq(Requests \cup Workers) /\ j \notin Workers /\ p \in Peers
      /\ In(waiters) = Sleeping \cup Waiting /\ Distinct(waiters) /\ WorkersFirst(waiters)
    BY ThreadsDistinct, AddressAssumption DEF Inv, TypeOK, WaitersInOrder
<1>2. /\ others \in Seq(Requests \cup Workers) /\ In(others) = In(waiters) \ {j}
      /\ Distinct(others) /\ WorkersFirst(others)
    BY <1>1, WithoutFacts
<1>3. /\ waiters' = Rest(others) /\ count' = count + 1 /\ Looking(j)
      /\ queues' = [queues EXCEPT ![p] = Append(@, j)]
      /\ handler' = HandlersWoken(F, [handler EXCEPT ![j] = "await"])
      /\ worker' = WorkersWoken(F, worker)
      /\ UNCHANGED <<closed, done>>
    BY DEF Admit
<1> HIDE DEF p, others, F
<1>4. /\ waiters' \in Seq(Requests \cup Workers) /\ In(waiters') = In(others) \ F
      /\ Distinct(waiters') /\ WorkersFirst(waiters')
      /\ F \subseteq In(others)
      /\ In(others) \cap Workers # {} => \E w \in Workers : F = {w}
    BY <1>2, <1>3, FirstFacts DEF F
<1>5. F \subseteq (Sleeping \cup Waiting) \ {j} /\ Requests \cap Workers = {}
    BY <1>1, <1>2, <1>4, ThreadsDistinct
<1>6. /\ handler' \in [Requests -> {"idle", "admit", "wait", "await"}]
      /\ worker' \in [Workers -> [stage : {"next", "wait", "run", "stopped"},
                                  job : Requests \cup {Nothing}]]
      /\ \A i \in Requests : handler'[i] = IF i \in F THEN "admit"
                                           ELSE IF i = j THEN "await" ELSE handler[i]
      /\ \A w \in Workers : /\ worker'[w].job = worker[w].job
                            /\ worker'[w].stage = IF w \in F THEN "next" ELSE worker[w].stage
    <2>1. /\ handler \in [Requests -> {"idle", "admit", "wait", "await"}]
          /\ worker \in [Workers -> [stage : {"next", "wait", "run", "stopped"},
                                     job : Requests \cup {Nothing}]]
        BY DEF Inv, TypeOK
    <2> DEFINE h == [handler EXCEPT ![j] = "await"]
    <2>2. /\ h \in [Requests -> {"idle", "admit", "wait", "await"}]
          /\ \A i \in Requests : h[i] = IF i = j THEN "await" ELSE handler[i]
        BY <2>1
    <2> HIDE DEF h
    <2>3. handler' = HandlersWoken(F, h)
        BY <1>3 DEF h
    <2>4. /\ handler' \in [Requests -> {"idle", "admit", "wait", "await"}]
          /\ \A i \in Requests : handler'[i] = IF i \in F THEN "admit" ELSE h[i]
        BY <2>2, <2>3 DEF HandlersWoken
    <2>5. /\ worker' \in [Workers -> [stage : {"next", "wait", "run", "stopped"},
                                      job : Requests \cup {Nothing}]]
          /\ \A w \in Workers : /\ worker'[w].job = worker[w].job
                                /\ worker'[w].stage = IF w \in F THEN "next" ELSE worker[w].stage
        BY <1>3, <2>1 DEF WorkersWoken
    <2> QED BY <2>2, <2>4, <2>5
<1>7. LaneOK' /\ TypeOK'
    <2>1. LaneOK' /\ queues' \in [Peers -> Seq(Requests)] /\ ready' \in Seq(Peers)
        BY AdmitLane
    <2>2. count' \in Nat /\ closed' \in BOOLEAN /\ done' \in [Requests -> BOOLEAN]
        BY <1>3 DEF Inv, TypeOK
    <2>3. TypeOK'
        BY <1>4, <1>6, <2>1, <2>2 DEF TypeOK
    <2> QED BY <2>1, <2>3
<1>8. /\ Sleeping' = Sleeping \ F /\ Waiting' = (Waiting \ {j}) \ F
      /\ Awake' = Awake \cup (F \cap Workers)
    BY <1>6 DEF Sleeping, Waiting, Awake
<1>9. WaitersInOrder'
    <2>1. In(waiters') = Sleeping' \cup Waiting'
        BY <1>1, <1>2, <1>4, <1>5, <1>8 DEF Sleeping
    <2>2. count' > 0
        BY <1>3 DEF Inv, TypeOK
    <2> QED BY <1>4, <2>1, <2>2 DEF WaitersInOrder, WorkersFirst, Distinct, In
<1>10. NoLostWakeup'
    <2> SUFFICES ASSUME Sleeping' # {} PROVE Cardinality(Awake') >= count'
        BY DEF NoLostWakeup
    <2>1. Cardinality(Awake) >= count /\ In(others) \cap Workers # {}
        BY <1>1, <1>2, <1>8 DEF Inv, NoLostWakeup, Sleeping
    <2>2. PICK w \in Workers : F = {w}
        BY <1>4, <2>1
    <2>3. w \in Sleeping /\ w \notin Awake /\ Awake' = Awake \cup {w}
        BY <1>5, <1>8, <2>2 DEF Waiting, Sleeping, Awake
    <2>4. IsFiniteSet(Awake)
        BY WorkersFinite, FS_Subset DEF Awake
    <2>5. Cardinality(Awake') = Cardinality(Awake) + 1 /\ Cardinality(Awake) \in Nat
        BY <2>3, <2>4, FS_AddElement, FS_CardinalityType
    <2> QED BY <1>3, <2>1, <2>5 DEF Inv, TypeOK
<1>11. /\ j \notin Queued \cup Running
       /\ \A q \in Peers : queues[q] \in Seq(Requests)
    BY <1>3 DEF Inv, JobsAtHome, TypeOK
<1>12. \A q \in Peers : /\ In(queues'[q]) = In(queues[q]) \cup IF q = p THEN {j} ELSE {}
                        /\ Distinct(queues'[q])
    <2> SUFFICES ASSUME NEW q \in Peers
                 PROVE  /\ In(queues'[q]) = In(queues[q]) \cup IF q = p THEN {j} ELSE {}
                        /\ Distinct(queues'[q])
        OBVIOUS
    <2>1. Distinct(queues[q])
        BY DEF Inv, RunOnce, Distinct
    <2>2. CASE q = p
        <3>1. j \notin In(queues[p]) /\ queues'[p] = Append(queues[p], j)
            BY <1>1, <1>3, <1>11, QueuedIsHome DEF Inv, TypeOK
        <3> QED BY <1>11, <2>1, <2>2, <3>1, AppendFacts
    <2>3. CASE q # p
        BY <1>1, <1>3, <2>1, <2>3 DEF Inv, TypeOK
    <2> QED BY <2>2, <2>3
<1>13. Queued' = Queued \cup {j} /\ Running' = Running
    <2>1. \A i \in Requests : PeerOf[i] \in Peers /\ (i = j => PeerOf[i] = p)
        BY AddressAssumption DEF p
    <2>2. Queued' = {i \in Requests : i \in In(queues'[PeerOf[i]])}
        BY DEF Queued, In
    <2> QED BY <1>6, <1>12, <2>1, <2>2 DEF Queued, Running
<1>14. JobsAtHome'
    <2>1. \A q \in Peers : \A i \in In(queues'[q]) : PeerOf[i] = q
        BY <1>12 DEF Inv, JobsAtHome, p
    <2>2. \A i \in Requests : Looking(i)' => i # j /\ Looking(i)
        BY <1>5, <1>6, ThreadsDistinct DEF Looking, Sleeping, Waiting
    <2>3. \A w \in Workers : worker'[w].stage = "run" <=> worker'[w].job # Nothing
        BY <1>5, <1>6 DEF Inv, JobsAtHome, Sleeping, Waiting
    <2> QED BY <1>13, <2>1, <2>2, <2>3 DEF Inv, JobsAtHome, In
<1>15. RunOnce'
    <2>1. Queued' \cap Running' = {}
        BY <1>11, <1>13 DEF Inv, RunOnce
    <2> QED BY <1>6, <1>12, <2>1 DEF Inv, RunOnce, Distinct
<1> QED BY <1>7, <1>9, <1>10, <1>14, <1>15 DEF Inv, LaneOK

-----------------------------------------------------------------------------
(* A worker's steps and the close *)

\* The address leaves the head of the line, for its end while it has more jobs.
LEMMA TakeJobLane ==
    ASSUME Inv, NEW w \in Workers, TakeJob(w)
    PROVE  LaneOK' /\ queues' \in [Peers -> Seq(Requests)] /\ ready' \in Seq(Peers) /\ count' \in Nat
<1> DEFINE p == Head(ready)
<1>1. p \in Peers /\ queues[p] # <<>>
    BY HeadHasJob DEF Inv, TakeJob
<1>2. /\ queues \in [Peers -> Seq(Requests)] /\ ready \in Seq(Peers) /\ count \in Nat
      /\ QueueMax \in Nat /\ PerIpMax \in Nat /\ ready # <<>>
    BY LimitAssumption DEF Inv, TypeOK, TakeJob
<1>3. /\ queues' = [queues EXCEPT ![p] = Tail(@)] /\ count' = count - 1
      /\ ready' = IF Tail(queues[p]) = <<>> THEN Tail(ready) ELSE Append(Tail(ready), p)
    BY DEF TakeJob, Rotate
<1>4. /\ Tail(ready) \in Seq(Peers) /\ In(ready) = In(Tail(ready)) \cup {p}
      /\ Distinct(ready) => Distinct(Tail(ready)) /\ p \notin In(Tail(ready))
    BY <1>2, TailFacts
<1> HIDE DEF p
<1>5. /\ queues'[p] = Tail(queues[p]) /\ Tail(queues[p]) \in Seq(Requests)
      /\ Len(queues'[p]) = Len(queues[p]) - 1 /\ Len(queues[p]) \in Nat /\ Len(queues[p]) > 0
      /\ \A x \in Peers : x # p => queues'[x] = queues[x]
    BY <1>1, <1>2, <1>3, TailFacts
<1>6. queues' \in [Peers -> Seq(Requests)] /\ ready' \in Seq(Peers)
    BY <1>1, <1>2, <1>3, <1>4, <1>5, AppendFacts
<1>7. LineIsExact'
    <2>1. In(ready) = {x \in Peers : queues[x] # <<>>} /\ Distinct(ready)
        BY DEF Inv, LineIsExact, Distinct
    <2>2. CASE Tail(queues[p]) = <<>>
        <3>1. {x \in Peers : queues'[x] # <<>>} = {x \in Peers : queues[x] # <<>>} \ {p}
            BY <1>1, <1>5, <2>2
        <3>2. In(ready') = In(ready) \ {p} /\ Distinct(ready')
            BY <1>3, <1>4, <2>1, <2>2
        <3>3. In(ready)' = In(ready')
            BY DEF In
        <3> QED BY <2>1, <3>1, <3>2, <3>3 DEF LineIsExact, Distinct
    <2>3. CASE Tail(queues[p]) # <<>>
        <3>1. {x \in Peers : queues'[x] # <<>>} = {x \in Peers : queues[x] # <<>>}
            BY <1>1, <1>5, <2>3
        <3>2. In(ready') = In(ready) /\ Distinct(ready')
            <4> DEFINE t == Tail(ready)
            <4>1. t \in Seq(Peers) /\ Distinct(t) /\ p \notin In(t) /\ In(ready) = In(t) \cup {p}
                BY <1>4, <2>1
            <4>2. ready' = Append(t, p)
                BY <1>3, <2>3
            <4> HIDE DEF t
            <4> QED BY <1>1, <4>1, <4>2, AppendFacts
        <3>3. In(ready)' = In(ready')
            BY DEF In
        <3> QED BY <2>1, <3>1, <3>2, <3>3 DEF LineIsExact, Distinct
    <2> QED BY <2>2, <2>3
<1>8. IsFiniteSet(Slots(queues')) /\ count' = Cardinality(Slots(queues')) /\ count' \in Nat
    <2>1. /\ Slots(queues') = Slots(queues) \ {<<p, Len(queues[p])>>}
          /\ <<p, Len(queues[p])>> \in Slots(queues)
        BY <1>1, <1>2, <1>3, SlotsTail
    <2>2. IsFiniteSet(Slots(queues)) /\ count = Cardinality(Slots(queues))
        BY DEF Inv, LimitsHold
    <2>3. /\ IsFiniteSet(Slots(queues'))
          /\ Cardinality(Slots(queues')) = Cardinality(Slots(queues)) - 1
        BY <2>1, <2>2, FS_RemoveElement
    <2> QED BY <1>3, <2>2, <2>3, FS_CardinalityType
<1>9. count' =< QueueMax /\ \A x \in Peers : Len(queues'[x]) =< PerIpMax
    BY <1>2, <1>3, <1>5 DEF Inv, LimitsHold
<1> QED BY <1>6, <1>7, <1>8, <1>9 DEF LaneOK, LimitsHold, Slots

\* The job moves from its queue to the worker, and everybody is woken.
LEMMA TakeJobInv ==
    ASSUME Inv, NEW w \in Workers, TakeJob(w)
    PROVE  Inv'
<1> DEFINE p == Head(ready)
           jb == Head(queues[p])
           W == In(waiters)
<1>1. /\ p \in Peers /\ queues[p] # <<>> /\ queues \in [Peers -> Seq(Requests)]
      /\ W = Sleeping \cup Waiting /\ Requests \cap Workers = {}
    BY HeadHasJob, ThreadsDistinct DEF Inv, TypeOK, TakeJob, WaitersInOrder
<1>2. /\ jb \in Requests /\ In(queues[p]) = In(Tail(queues[p])) \cup {jb}
      /\ Distinct(queues[p])
      /\ Distinct(Tail(queues[p])) /\ jb \notin In(Tail(queues[p]))
    <2>1. Distinct(queues[p])
        BY <1>1 DEF Inv, RunOnce, Distinct
    <2> QED BY <1>1, <2>1, TailFacts
<1>3. jb \in Queued /\ PeerOf[jb] = p /\ jb \notin Running /\ jb # Nothing
    <2>1. jb \in Queued /\ PeerOf[jb] = p
        BY <1>1, <1>2, QueuedIsHome DEF Inv
    <2> QED BY <1>2, <2>1, ThreadsDistinct DEF Inv, RunOnce
<1>4. /\ worker[w].stage = "next" /\ waiters' = <<>>
      /\ queues' = [queues EXCEPT ![p] = Tail(@)]
      /\ handler' = HandlersWoken(W, handler)
      /\ worker' = WorkersWoken(W, [worker EXCEPT ![w] = [stage |-> "run", job |-> jb]])
      /\ UNCHANGED <<closed, done>>
    BY DEF TakeJob
<1> HIDE DEF p, jb, W
<1>5. w \notin W
    BY <1>1, <1>4 DEF Sleeping, Waiting
<1>6. /\ handler' \in [Requests -> {"idle", "admit", "wait", "await"}]
      /\ worker' \in [Workers -> [stage : {"next", "wait", "run", "stopped"},
                                  job : Requests \cup {Nothing}]]
      /\ \A i \in Requests : handler'[i] = IF i \in W THEN "admit" ELSE handler[i]
      /\ worker'[w].stage = "run" /\ worker'[w].job = jb
      /\ \A v \in Workers : v # w =>
            /\ worker'[v].job = worker[v].job
            /\ worker'[v].stage = IF v \in W THEN "next" ELSE worker[v].stage
    <2>1. /\ handler \in [Requests -> {"idle", "admit", "wait", "await"}]
          /\ worker \in [Workers -> [stage : {"next", "wait", "run", "stopped"},
                                     job : Requests \cup {Nothing}]]
        BY DEF Inv, TypeOK
    <2> DEFINE k == [worker EXCEPT ![w] = [stage |-> "run", job |-> jb]]
    <2>2. /\ k \in [Workers -> [stage : {"next", "wait", "run", "stopped"},
                                job : Requests \cup {Nothing}]]
          /\ k[w].stage = "run" /\ k[w].job = jb
          /\ \A v \in Workers : v # w => k[v] = worker[v]
        BY <1>2, <2>1
    <2> HIDE DEF k
    <2>3. worker' = WorkersWoken(W, k)
        BY <1>4 DEF k
    <2>4. /\ worker' \in [Workers -> [stage : {"next", "wait", "run", "stopped"},
                                      job : Requests \cup {Nothing}]]
          /\ \A v \in Workers : /\ worker'[v].job = k[v].job
                                /\ worker'[v].stage = IF v \in W THEN "next" ELSE k[v].stage
        BY <2>2, <2>3 DEF WorkersWoken
    <2>5. /\ handler' \in [Requests -> {"idle", "admit", "wait", "await"}]
          /\ \A i \in Requests : handler'[i] = IF i \in W THEN "admit" ELSE handler[i]
        BY <1>4, <2>1 DEF HandlersWoken
    <2> QED BY <1>5, <2>2, <2>4, <2>5
<1>7. LaneOK' /\ TypeOK'
    <2>1. /\ LaneOK' /\ queues' \in [Peers -> Seq(Requests)] /\ ready' \in Seq(Peers)
          /\ count' \in Nat
        BY TakeJobLane
    <2>2. waiters' \in Seq(Requests \cup Workers)
        BY <1>4
    <2>3. closed' \in BOOLEAN /\ done' \in [Requests -> BOOLEAN]
        BY <1>4 DEF Inv, TypeOK
    <2>4. TypeOK'
        BY <1>6, <2>1, <2>2, <2>3 DEF TypeOK
    <2> QED BY <2>1, <2>4
<1>8. Sleeping' = {} /\ Waiting' = {}
    <2>1. \A v \in Workers : worker[v].stage = "wait" => v \in W /\ v # w
        BY <1>1, <1>4 DEF Sleeping
    <2>2. \A v \in Workers : worker'[v].stage # "wait"
        BY <1>6, <2>1
    <2>3. \A i \in Requests : handler[i] = "wait" => i \in W
        BY <1>1 DEF Waiting
    <2>4. \A i \in Requests : handler'[i] # "wait"
        BY <1>6, <2>3
    <2> QED BY <2>2, <2>4 DEF Sleeping, Waiting
<1>9. WaitersInOrder' /\ NoLostWakeup'
    <2>1. Len(waiters') = 0
        BY <1>4
    <2> QED BY <1>8, <2>1 DEF WaitersInOrder, WorkersFirst, Distinct, In, NoLostWakeup
<1>10. \A q \in Peers : /\ In(queues'[q]) = In(queues[q]) \ {jb}
                        /\ Distinct(queues'[q])
    <2> SUFFICES ASSUME NEW q \in Peers
                 PROVE  In(queues'[q]) = In(queues[q]) \ {jb} /\ Distinct(queues'[q])
        OBVIOUS
    <2>1. CASE q = p
        BY <1>1, <1>2, <1>4, <2>1
    <2>2. CASE q # p
        <3>1. queues'[q] = queues[q] /\ Distinct(queues[q])
            BY <1>1, <1>4, <2>2 DEF Inv, RunOnce, Distinct
        <3>2. jb \notin In(queues[q])
            BY <1>2, <1>3, <2>2, QueuedIsHome DEF Inv
        <3> QED BY <3>1, <3>2
    <2> QED BY <2>1, <2>2
<1>11. Queued' = Queued \ {jb} /\ Running' = Running \cup {jb}
    <2>1. Queued' = {i \in Requests : i \in In(queues'[PeerOf[i]])}
        BY DEF Queued, In
    <2>2. Queued' = Queued \ {jb}
        BY <1>10, <2>1, AddressAssumption DEF Queued
    <2>3. worker[w].job = Nothing
        BY <1>4 DEF Inv, JobsAtHome
    <2>4. Running' = Running \cup {jb}
        BY <1>2, <1>6, <2>3, ThreadsDistinct DEF Running
    <2> QED BY <2>2, <2>4
<1>12. JobsAtHome'
    <2>1. \A q \in Peers : \A i \in In(queues'[q]) : PeerOf[i] = q
        BY <1>10 DEF Inv, JobsAtHome
    <2>2. \A i \in Requests : Looking(i)' => Looking(i)
        BY <1>1, <1>6 DEF Looking, Sleeping, Waiting
    <2>3. \A i \in Requests : Looking(i)' => i \notin Queued' \cup Running'
        BY <1>3, <1>11, <2>2 DEF Inv, JobsAtHome
    <2>4. \A v \in Workers : worker'[v].stage = "run" <=> worker'[v].job # Nothing
        BY <1>1, <1>3, <1>6 DEF Inv, JobsAtHome, Sleeping, Waiting
    <2> QED BY <2>1, <2>3, <2>4 DEF JobsAtHome, In
<1>13. RunOnce'
    <2>1. Queued' \cap Running' = {}
        BY <1>11 DEF Inv, RunOnce
    <2>2. \A u, v \in Workers : worker'[u].job = worker'[v].job
                                  => u = v \/ worker'[u].job = Nothing
        BY <1>2, <1>3, <1>6 DEF Inv, RunOnce, Running
    <2> QED BY <1>10, <2>1, <2>2 DEF RunOnce, Distinct
<1> QED BY <1>7, <1>9, <1>12, <1>13 DEF Inv, LaneOK

\* Nothing is queued, so no handler waits and the worker is not behind one.
LEMMA NoJobInv ==
    ASSUME Inv, NEW w \in Workers, NoJob(w)
    PROVE  Inv'
<1>1. /\ count = 0 /\ Waiting = {} /\ In(waiters) = Sleeping
      /\ waiters \in Seq(Requests \cup Workers) /\ Distinct(waiters) /\ w \notin In(waiters)
      /\ w \in Requests \cup Workers
    <2>1. count = 0
        BY EmptyLine DEF Inv, NoJob
    <2> QED BY <2>1 DEF Inv, NoJob, WaitersInOrder, Sleeping, TypeOK
<1>2. /\ worker' \in [Workers -> [stage : {"next", "wait", "run", "stopped"},
                                  job : Requests \cup {Nothing}]]
      /\ \A v \in Workers : worker'[v].job = worker[v].job
      /\ \A v \in Workers : v # w => worker'[v] = worker[v]
      /\ worker'[w].stage = IF closed THEN "stopped" ELSE "wait"
      /\ worker[w].stage = "next"
    BY DEF NoJob, Inv, TypeOK
<1>3. /\ waiters' \in Seq(Requests \cup Workers) /\ Distinct(waiters')
      /\ In(waiters') = Sleeping' /\ WorkersFirst(waiters')
    <2>1. CASE closed
        <3>1. waiters' = waiters /\ Sleeping' = Sleeping
            BY <1>2, <2>1 DEF NoJob, Sleeping
        <3> QED BY <1>1, <3>1 DEF Inv, WaitersInOrder
    <2>2. CASE ~closed
        <3>1. waiters' = Append(waiters, w) /\ Sleeping' = Sleeping \cup {w}
            BY <1>2, <2>2 DEF NoJob, Sleeping
        <3>2. /\ waiters' \in Seq(Requests \cup Workers) /\ Distinct(waiters')
              /\ In(waiters') = Sleeping'
            BY <1>1, <3>1, AppendFacts
        <3>3. In(waiters') \subseteq Workers
            BY <1>1, <3>1, <3>2 DEF Sleeping
        <3>4. WorkersFirst(waiters')
            BY <3>3 DEF WorkersFirst, In
        <3> QED BY <3>2, <3>4
    <2> QED BY <2>1, <2>2
<1>4. TypeOK'
    BY <1>2, <1>3 DEF NoJob, Inv, TypeOK
<1>5. LaneOK'
    BY LaneUnchanged DEF NoJob, Inv, LaneOK
<1>6. JobsAtHome' /\ RunOnce'
    <2>1. \A v \in Workers : worker'[v].stage = "run" <=> worker[v].stage = "run"
        BY <1>2
    <2>2. \A i \in Requests : Looking(i)' => Looking(i)
        BY DEF Looking, NoJob
    <2> QED BY <1>2, <2>1, <2>2, JobsUnchanged DEF NoJob, Inv
<1>7. WaitersInOrder'
    <2>1. Waiting' = {}
        BY <1>1 DEF NoJob, Waiting
    <2> QED BY <1>3, <2>1 DEF WaitersInOrder, WorkersFirst, Distinct, In
<1>8. NoLostWakeup'
    <2>1. Cardinality(Awake') \in Nat
        <3>1. IsFiniteSet(Awake')
            BY WorkersFinite, FS_Subset DEF Awake
        <3> QED BY <3>1, FS_CardinalityType
    <2> QED BY <1>1, <2>1 DEF NoJob, NoLostWakeup
<1> QED BY <1>4, <1>5, <1>6, <1>7, <1>8 DEF Inv, LaneOK

\* A worker that has run its job is on its way to the line again.
LEMMA RunJobInv ==
    ASSUME Inv, NEW w \in Workers, RunJob(w)
    PROVE  Inv'
<1>1. worker[w].job \in Requests /\ worker[w].stage = "run"
    BY DEF RunJob, Inv, TypeOK, JobsAtHome
<1>2. /\ worker' \in [Workers -> [stage : {"next", "wait", "run", "stopped"},
                                  job : Requests \cup {Nothing}]]
      /\ worker'[w].stage = "next" /\ worker'[w].job = Nothing
      /\ \A v \in Workers : v # w => worker'[v] = worker[v]
    BY DEF RunJob, Inv, TypeOK
<1>3. TypeOK'
    BY <1>1, <1>2 DEF RunJob, Inv, TypeOK
<1>4. LaneOK'
    BY LaneUnchanged DEF RunJob, Inv, LaneOK
<1>5. Queued' = Queued /\ Running' \subseteq Running
    BY <1>2, ThreadsDistinct DEF RunJob, Queued, Running, In
<1>6. JobsAtHome'
    BY <1>2, <1>5 DEF RunJob, Inv, JobsAtHome, Looking, In
<1>7. RunOnce'
    <2>1. Queued' \cap Running' = {}
        BY <1>5 DEF Inv, RunOnce
    <2>2. \A u, v \in Workers : worker'[u].job = worker'[v].job
                                  => u = v \/ worker'[u].job = Nothing
        BY <1>2 DEF Inv, RunOnce
    <2> QED BY <2>1, <2>2 DEF RunJob, Inv, RunOnce
<1>8. /\ Waiting' = Waiting /\ Sleeping' = Sleeping /\ Awake' = Awake \cup {w}
      /\ w \notin Awake
    BY <1>1, <1>2 DEF RunJob, Waiting, Sleeping, Awake
<1>9. WaitersInOrder'
    BY <1>8 DEF RunJob, Inv, WaitersInOrder, WorkersFirst, Distinct, In
<1>10. NoLostWakeup'
    <2>1. IsFiniteSet(Awake)
        BY WorkersFinite, FS_Subset DEF Awake
    <2>2. Cardinality(Awake') = Cardinality(Awake) + 1 /\ Cardinality(Awake) \in Nat
        BY <1>8, <2>1, FS_AddElement, FS_CardinalityType
    <2> QED BY <1>8, <2>2 DEF RunJob, Inv, NoLostWakeup, TypeOK
<1> QED BY <1>3, <1>4, <1>6, <1>7, <1>9, <1>10 DEF Inv, LaneOK

\* close() wakes every thread.
LEMMA CloseInv ==
    ASSUME Inv, Close
    PROVE  Inv'
<1>1. In(waiters) = Sleeping \cup Waiting /\ Requests \cap Workers = {}
    BY ThreadsDistinct DEF Inv, WaitersInOrder
<1>2. /\ handler' \in [Requests -> {"idle", "admit", "wait", "await"}]
      /\ worker' \in [Workers -> [stage : {"next", "wait", "run", "stopped"},
                                  job : Requests \cup {Nothing}]]
      /\ \A i \in Requests : handler'[i] = IF i \in In(waiters) THEN "admit" ELSE handler[i]
      /\ \A v \in Workers :
            /\ worker'[v].job = worker[v].job
            /\ worker'[v].stage = IF v \in In(waiters) THEN "next" ELSE worker[v].stage
    BY DEF Close, HandlersWoken, WorkersWoken, Inv, TypeOK
<1>3. TypeOK'
    <2>1. waiters' \in Seq(Requests \cup Workers)
        BY DEF Close
    <2> QED BY <1>2, <2>1 DEF Close, Inv, TypeOK
<1>4. LaneOK'
    BY LaneUnchanged DEF Close, Inv, LaneOK
<1>5. JobsAtHome' /\ RunOnce'
    <2>1. \A v \in Workers : worker'[v].stage = "run" <=> worker[v].stage = "run"
        BY <1>1, <1>2 DEF Sleeping, Waiting
    <2>2. \A i \in Requests : Looking(i)' => Looking(i)
        BY <1>1, <1>2 DEF Looking, Sleeping, Waiting
    <2> QED BY <1>2, <2>1, <2>2, JobsUnchanged DEF Close, Inv
<1>6. Sleeping' = {} /\ Waiting' = {} /\ waiters' = <<>>
    BY <1>1, <1>2 DEF Close, Sleeping, Waiting
<1>7. WaitersInOrder' /\ NoLostWakeup'
    <2>1. Len(waiters') = 0
        BY <1>6
    <2> QED BY <1>6, <2>1 DEF WaitersInOrder, WorkersFirst, Distinct, In, NoLostWakeup
<1> QED BY <1>3, <1>4, <1>5, <1>7 DEF Inv, LaneOK

-----------------------------------------------------------------------------
(* The theorems *)

\* An empty lane, every thread on its way.
LEMMA InitInv == Init => Inv
<1> SUFFICES ASSUME Init PROVE Inv
    OBVIOUS
<1>1. TypeOK
    <2>1. <<>> \in Seq(Requests) /\ <<>> \in Seq(Peers) /\ <<>> \in Seq(Requests \cup Workers)
        OBVIOUS
    <2> QED BY <2>1 DEF Init, TypeOK
<1>2. /\ \A p \in Peers : queues[p] = <<>> /\ Len(queues[p]) = 0
      /\ ready = <<>> /\ count = 0 /\ waiters = <<>> /\ Len(waiters) = 0 /\ Len(ready) = 0
      /\ \A j \in Requests : handler[j] = "idle"
      /\ \A w \in Workers : worker[w].stage = "next" /\ worker[w].job = Nothing
    BY DEF Init
<1>3. LineIsExact
    BY <1>2 DEF LineIsExact, In
<1>4. IsFiniteSet(Slots(queues)) /\ LimitsHold
    <2>1. Slots(queues) = {}
        BY <1>2 DEF Slots
    <2> QED BY <1>2, <2>1, FS_EmptySet, LimitAssumption DEF LimitsHold
<1>5. Queued = {} /\ Running = {} /\ Sleeping = {} /\ Waiting = {}
    BY <1>2, AddressAssumption, ThreadsDistinct DEF Queued, Running, Sleeping, Waiting, In
<1>6. JobsAtHome /\ RunOnce
    BY <1>2, <1>5 DEF JobsAtHome, RunOnce, Looking, In
<1>7. WaitersInOrder /\ NoLostWakeup
    BY <1>2, <1>5 DEF WaitersInOrder, WorkersFirst, Distinct, In, NoLostWakeup
<1> QED BY <1>1, <1>3, <1>4, <1>6, <1>7 DEF Inv

\* Each step of a handler or a worker, and the close, keep the invariant.
LEMMA NextInv == Inv /\ [Next]_vars => Inv'
<1> SUFFICES ASSUME Inv, [Next]_vars PROVE Inv'
    OBVIOUS
<1>1. ASSUME NEW j \in Requests, HandlerStep(j) PROVE Inv'
    BY <1>1, ArriveInv, AdmitInv, AdmitWaitInv, AdmitFailsInv, AnswerInv DEF HandlerStep
<1>2. ASSUME NEW w \in Workers, WorkerStep(w) PROVE Inv'
    BY <1>2, TakeJobInv, NoJobInv, RunJobInv DEF WorkerStep
<1>3. CASE Close
    BY <1>3, CloseInv
<1>4. CASE UNCHANGED vars
    <2>1. UNCHANGED <<queues, ready, count, closed, waiters, handler, done, worker>>
        BY <1>4 DEF vars
    <2>2. TypeOK'
        BY <2>1 DEF Inv, TypeOK
    <2>3. LaneOK'
        BY <2>1, LaneUnchanged DEF Inv, LaneOK
    <2>4. \A j \in Requests : Looking(j)' => Looking(j)
        BY <2>1 DEF Looking
    <2>5. JobsAtHome' /\ RunOnce'
        BY <2>1, <2>4, JobsUnchanged DEF Inv
    <2>6. Waiting' = Waiting /\ Sleeping' = Sleeping /\ Awake' = Awake
        BY <2>1 DEF Waiting, Sleeping, Awake
    <2>7. WaitersInOrder' /\ NoLostWakeup'
        BY <2>1, <2>6 DEF Inv, WaitersInOrder, WorkersFirst, Distinct, NoLostWakeup, In
    <2> QED BY <2>2, <2>3, <2>5, <2>7 DEF Inv, LaneOK
<1> QED BY <1>1, <1>2, <1>3, <1>4 DEF Next

\* The invariant holds in every run of the lane.
THEOREM Invariance == Spec => []Inv
BY InitInv, NextInv, PTL DEF Spec

\* Type correctness: every queue holds jobs, every list threads.
THEOREM TypeCorrect == Spec => []TypeOK
<1>1. Inv => TypeOK
    BY DEF Inv
<1> QED BY <1>1, Invariance, PTL

\* _admit and _next_job: the counter is the number of queued jobs and neither
\* APPEND_VALIDATION_QUEUE_MAX nor the limit per address is ever passed, for any limits,
\* addresses and threads.
THEOREM LimitsAreKept == Spec => []LimitsHold
<1>1. Inv => LimitsHold
    BY DEF Inv
<1> QED BY <1>1, Invariance, PTL

\* _ready_peers lists exactly the addresses that have jobs, each once: _next_job never pops
\* an empty queue, and no address loses or doubles its turn.
THEOREM LineStaysExact == Spec => []LineIsExact
<1>1. Inv => LineIsExact
    BY DEF Inv
<1> QED BY <1>1, Invariance, PTL

\* A job that was told 503 by the result time-out stays where it is, and a thread that comes
\* back with a new job finds the old one gone: no job is queued twice, run twice or queued
\* while it runs.
THEOREM JobsRunOnce == Spec => []RunOnce
<1>1. Inv => RunOnce
    BY DEF Inv
<1> QED BY <1>1, Invariance, PTL

\* _condition.notify() in _admit wakes one thread of two kinds, and yet never leaves a job
\* behind a sleeping worker: the workers on their way are as many as the queued jobs.
THEOREM NoWakeupIsLost == Spec => []NoLostWakeup
<1>1. Inv => NoLostWakeup
    BY DEF Inv
<1> QED BY <1>1, Invariance, PTL
==============================================================================
