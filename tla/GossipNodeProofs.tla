-------------------------- MODULE GossipNodeProofs --------------------------
(***************************************************************************)
(* Proofs about GossipNode for every number of handlers, workers, messages *)
(* and conflicts and every limit: the duplicate cache is never poisoned,   *)
(* rivals that miss each other are exposed by the second look, and         *)
(* evidence stays between store and pool while the pool has room.          *)
(***************************************************************************)
EXTENDS GossipNode, FiniteSetTheorems, TLAPS

-----------------------------------------------------------------------------
(* Lists *)

\* list.append adds its element at the end.
LEMMA AppendFacts ==
    ASSUME NEW S, NEW s \in Seq(S), NEW x \in S
    PROVE  /\ Append(s, x) \in Seq(S) /\ Len(Append(s, x)) = Len(s) + 1
           /\ In(Append(s, x)) = In(s) \cup {x}
<1> DEFINE t == Append(s, x)
<1>1. /\ t \in Seq(S) /\ Len(t) = Len(s) + 1 /\ Len(s) \in Nat
      /\ \A i \in 1..Len(s) : t[i] = s[i]
      /\ t[Len(s) + 1] = x
      /\ \A i \in 1..Len(t) : i \in 1..Len(s) \/ i = Len(s) + 1
      /\ \A i \in 1..Len(s) : i \in 1..Len(t)
      /\ Len(s) + 1 \in 1..Len(t)
    OBVIOUS
<1> HIDE DEF t
<1>2. In(t) = In(s) \cup {x}
    BY <1>1 DEF In
<1> QED BY <1>1, <1>2 DEF t

\* list.pop(0) takes the first element.
LEMMA TailFacts ==
    ASSUME NEW S, NEW s \in Seq(S), s # <<>>
    PROVE  /\ Tail(s) \in Seq(S) /\ Len(Tail(s)) = Len(s) - 1 /\ Len(s) \in Nat /\ Len(s) > 0
           /\ Head(s) \in S /\ In(s) = In(Tail(s)) \cup {Head(s)}
<1> DEFINE t == Tail(s)
<1>1. /\ t \in Seq(S) /\ Len(t) = Len(s) - 1 /\ Len(s) \in Nat /\ Len(s) > 0
      /\ Head(s) = s[1] /\ s[1] \in S /\ 1 \in 1..Len(s)
      /\ \A i \in 1..Len(t) : t[i] = s[i + 1] /\ i + 1 \in 1..Len(s)
      /\ \A i \in 1..Len(s) : i = 1 \/ (i - 1 \in 1..Len(t) /\ t[i - 1] = s[i])
    OBVIOUS
<1> HIDE DEF t
<1>2. In(s) = In(t) \cup {Head(s)}
    BY <1>1 DEF In
<1> QED BY <1>1, <1>2 DEF t

\* list.insert(0, x) puts its element first.
LEMMA InsertFacts ==
    ASSUME NEW S, NEW s \in Seq(S), NEW x \in S
    PROVE  /\ <<x>> \o s \in Seq(S) /\ Len(<<x>> \o s) = Len(s) + 1
           /\ In(<<x>> \o s) = In(s) \cup {x}
<1> DEFINE t == <<x>> \o s
<1>1. /\ t \in Seq(S) /\ Len(t) = Len(s) + 1 /\ Len(s) \in Nat
      /\ \A i \in 1..Len(s) : t[i + 1] = s[i]
      /\ t[1] = x
      /\ \A i \in 1..Len(t) : i = 1 \/ (i - 1 \in 1..Len(s) /\ t[i] = s[i - 1])
      /\ \A i \in 1..Len(s) : i + 1 \in 1..Len(t)
      /\ 1 \in 1..Len(t)
    OBVIOUS
<1> HIDE DEF t
<1>2. In(t) = In(s) \cup {x}
    <2>1. ASSUME NEW i \in 1..Len(t) PROVE t[i] \in In(s) \cup {x}
        BY <1>1 DEF In
    <2>2. ASSUME NEW i \in 1..Len(s) PROVE s[i] \in In(t)
        BY <1>1 DEF In
    <2>3. x \in In(t)
        BY <1>1 DEF In
    <2> QED BY <2>1, <2>2, <2>3 DEF In
<1> QED BY <1>1, <1>2 DEF t

\* A list is put behind another one.
LEMMA JoinFacts ==
    ASSUME NEW S, NEW s \in Seq(S), NEW t \in Seq(S)
    PROVE  /\ s \o t \in Seq(S) /\ Len(s \o t) = Len(s) + Len(t)
           /\ In(s \o t) = In(s) \cup In(t)
<1> DEFINE r == s \o t
<1>1. /\ r \in Seq(S) /\ Len(r) = Len(s) + Len(t) /\ Len(s) \in Nat /\ Len(t) \in Nat
      /\ \A i \in 1..Len(r) : \/ i \in 1..Len(s) /\ r[i] = s[i]
                              \/ i - Len(s) \in 1..Len(t) /\ r[i] = t[i - Len(s)]
      /\ \A i \in 1..Len(s) : r[i] = s[i] /\ i \in 1..Len(r)
      /\ \A i \in 1..Len(t) : r[Len(s) + i] = t[i] /\ Len(s) + i \in 1..Len(r)
    OBVIOUS
<1> HIDE DEF r
<1>2. In(r) = In(s) \cup In(t)
    <2>1. ASSUME NEW i \in 1..Len(r) PROVE r[i] \in In(s) \cup In(t)
        BY <1>1 DEF In
    <2>2. ASSUME NEW i \in 1..Len(s) PROVE s[i] \in In(r)
        BY <1>1 DEF In
    <2>3. ASSUME NEW i \in 1..Len(t) PROVE t[i] \in In(r)
        BY <1>1 DEF In
    <2> QED BY <2>1, <2>2, <2>3 DEF In
<1> QED BY <1>1, <1>2 DEF r

\* A list cut off at the end keeps its first elements.
LEMMA CutFacts ==
    ASSUME NEW S, NEW s \in Seq(S), NEW n \in Nat, n <= Len(s)
    PROVE  /\ SubSeq(s, 1, n) \in Seq(S) /\ Len(SubSeq(s, 1, n)) = n
           /\ In(SubSeq(s, 1, n)) \subseteq In(s)
           /\ n = Len(s) => In(SubSeq(s, 1, n)) = In(s)
<1> DEFINE t == SubSeq(s, 1, n)
<1>1. /\ t \in Seq(S) /\ Len(t) = n /\ Len(s) \in Nat
      /\ \A i \in 1..n : t[i] = s[i] /\ i \in 1..Len(s)
    OBVIOUS
<1> HIDE DEF t
<1>2. In(t) \subseteq In(s) /\ (n = Len(s) => In(t) = In(s))
    BY <1>1 DEF In
<1> QED BY <1>1, <1>2 DEF t

\* The list of a finite set has its elements, each once.
LEMMA SetToSeqFacts ==
    ASSUME NEW T, NEW S \in SUBSET T, IsFiniteSet(S)
    PROVE  /\ SetToSeq(S) \in Seq(T) /\ Len(SetToSeq(S)) = Cardinality(S)
           /\ In(SetToSeq(S)) = S
<1> DEFINE n == Cardinality(S)
           f == SetToSeq(S)
           R == {f[i] : i \in 1..n}
<1>1. n \in Nat /\ ExistsBijection(1..n, S)
    BY FS_CardinalityType
<1> HIDE DEF n
<1>2. PICK g \in [1..n -> S] : IsInjective(g)
    BY <1>1 DEF ExistsBijection, Bijection, Injection
<1>3. f \in [1..n -> S] /\ IsInjective(f)
    BY <1>2 DEF SetToSeq, n
<1> HIDE DEF f
<1>4. f \in Seq(T) /\ Len(f) = n
    BY <1>1, <1>3
<1>5. R \subseteq S
    BY <1>3
<1>6. Cardinality(R) = n
    <2>1. f \in Bijection(1..n, R)
        BY <1>3 DEF Bijection, Injection, Surjection, IsInjective
    <2>2. ExistsBijection(1..n, R)
        BY <2>1 DEF ExistsBijection
    <2> QED BY <1>1, <2>2, FS_CountingElements
<1>7. R = S
    BY <1>5, <1>6, FS_Subset DEF n
<1> QED BY <1>4, <1>7 DEF f, n, In

-----------------------------------------------------------------------------
(* The seen set and the pool *)

SeenSets == [items : SUBSET Messages, order : Seq(Messages)]

Limits == SeenMax \in Nat \ {0} /\ LaneMax \in Nat \ {0} /\ PoolMax \in Nat \ {0} /\ MaxTries \in Nat \ {0}

\* The limits are positive numbers.
LEMMA LimitFacts == Limits
BY LimitAssumption DEF Limits

\* add brings in one message; the set keeps to its limit.
LEMMA SeenAddFacts ==
    ASSUME NEW s \in SeenSets, Len(s.order) <= SeenMax, NEW m \in Messages
    PROVE  /\ SeenAdd(s, m) \in SeenSets /\ Len(SeenAdd(s, m).order) <= SeenMax
           /\ SeenAdd(s, m).items \subseteq s.items \cup {m}
<1> DEFINE t == Append(s.order, m)
<1>1. s.order \in Seq(Messages) /\ Len(s.order) \in Nat /\ s.items \subseteq Messages
    BY DEF SeenSets
<1>2. t \in Seq(Messages) /\ Len(t) = Len(s.order) + 1
    BY <1>1, AppendFacts
<1> HIDE DEF t
<1>3. t # <<>> /\ Tail(t) \in Seq(Messages) /\ Len(Tail(t)) = Len(s.order)
    BY <1>1, <1>2, TailFacts
<1>4. SeenAdd(s, m) = IF m \in s.items THEN s
                      ELSE IF Len(t) > SeenMax
                      THEN [items |-> (s.items \cup {m}) \ {Head(t)}, order |-> Tail(t)]
                      ELSE [items |-> s.items \cup {m}, order |-> t]
    BY DEF SeenAdd, t
<1>5. CASE m \in s.items
    BY <1>4, <1>5
<1>6. CASE m \notin s.items /\ Len(t) > SeenMax
    BY <1>1, <1>3, <1>4, <1>6 DEF SeenSets
<1>7. CASE m \notin s.items /\ ~(Len(t) > SeenMax)
    BY <1>1, <1>2, <1>4, <1>7, LimitFacts DEF SeenSets, Limits
<1> QED BY <1>5, <1>6, <1>7

\* add keeps the pool to its limit and pushes nothing out while there is room.
LEMMA PoolAddFacts ==
    ASSUME NEW q \in Seq(Messages), Len(q) <= PoolMax, NEW m \in Messages
    PROVE  /\ PoolAdd(q, m) \in Seq(Messages) /\ Len(PoolAdd(q, m)) <= PoolMax
           /\ In(PoolAdd(q, m)) \subseteq In(q) \cup {m}
           /\ Len(q) < PoolMax => In(PoolAdd(q, m)) = In(q) \cup {m}
           /\ Len(q) <= Len(PoolAdd(q, m))
<1> DEFINE a == <<m>> \o q
           b == Append(q, m)
<1>1. Len(q) \in Nat /\ PoolMax \in Nat
    BY LimitFacts DEF Limits
<1>2. a \in Seq(Messages) /\ Len(a) = Len(q) + 1 /\ In(a) = In(q) \cup {m}
    BY InsertFacts
<1>3. b \in Seq(Messages) /\ Len(b) = Len(q) + 1 /\ In(b) = In(q) \cup {m}
    BY AppendFacts
<1>4. PoolAdd(q, m) = IF m \in In(q) THEN q
                      ELSE IF m \in Evidence THEN IF Len(a) > PoolMax THEN Front(a) ELSE a
                      ELSE IF Len(b) > PoolMax THEN Tail(b) ELSE b
    BY DEF PoolAdd
<1> HIDE DEF a, b
<1>5. Front(a) \in Seq(Messages) /\ Len(Front(a)) = Len(q) /\ In(Front(a)) \subseteq In(a)
    <2>1. Len(a) - 1 \in Nat /\ Len(a) - 1 <= Len(a)
        BY <1>1, <1>2
    <2>2. Front(a) = SubSeq(a, 1, Len(a) - 1)
        BY DEF Front
    <2> QED BY <1>1, <1>2, <2>1, <2>2, CutFacts
<1>6. Tail(b) \in Seq(Messages) /\ Len(Tail(b)) = Len(q) /\ In(Tail(b)) \subseteq In(b)
    <2>1. b # <<>>
        BY <1>1, <1>3
    <2> QED BY <1>1, <1>3, <2>1, TailFacts
<1> QED BY <1>1, <1>2, <1>3, <1>4, <1>5, <1>6

\* What is read back at a start is evidence of the store; all of it while there is room.
LEMMA LoadedFacts ==
    ASSUME NEW R \in SUBSET Messages, IsFiniteSet(R), NEW P \in SUBSET Messages, IsFiniteSet(P)
    PROVE  /\ Loaded(R, P) \in Seq(Messages) /\ Len(Loaded(R, P)) <= PoolMax
           /\ In(Loaded(R, P)) \subseteq R \cup P
           /\ Len(Loaded(R, P)) < PoolMax => In(Loaded(R, P)) = R \cup P
<1> DEFINE s == SetToSeq(P) \o SetToSeq(R)
           n == IF Len(s) < PoolMax THEN Len(s) ELSE PoolMax
<1>1. s \in Seq(Messages) /\ In(s) = R \cup P
    <2>1. SetToSeq(P) \in Seq(Messages) /\ In(SetToSeq(P)) = P
        BY SetToSeqFacts
    <2>2. SetToSeq(R) \in Seq(Messages) /\ In(SetToSeq(R)) = R
        BY SetToSeqFacts
    <2> QED BY <2>1, <2>2, JoinFacts
<1>2. Loaded(R, P) = SubSeq(s, 1, n)
    BY DEF Loaded
<1> HIDE DEF s
<1>3. n \in Nat /\ n <= Len(s) /\ n <= PoolMax /\ (n < PoolMax => n = Len(s))
    BY <1>1, LimitFacts DEF Limits
<1> HIDE DEF n
<1> QED BY <1>1, <1>2, <1>3, CutFacts

-----------------------------------------------------------------------------
(* The invariant *)

ThreadStates == [stage : {"idle", "mark", "put", "ingest", "submit", "relay"},
                 msg : Messages \cup {Nothing}, tries : 0..MaxTries,
                 proof : Proofs \cup {Nothing}]

\* A thread that is busy holds a message, and one that relays holds what is stored.
Busy(t, kept) ==
    /\ IF t.stage = "idle" THEN t.msg = Nothing ELSE t.msg \in Messages
    /\ t.stage = "relay" => /\ t.msg \in kept
                            /\ t.proof # Nothing => t.proof \in kept

\* The database process takes ordinary messages and has noted the one it is at.
Looks(t, noted) ==
    /\ t.stage \in {"idle", "ingest", "submit", "relay"}
    /\ t.stage # "idle" => t.msg \in Transfers /\ noted[t.msg] # "none"

\* What TypeOK says of all but the threads.
Rest ==
    /\ seen \in SeenSets /\ Len(seen.order) <= SeenMax
    /\ lanes \in [Lanes -> Seq(Messages)]
    /\ stored \subseteq Messages /\ closed \subseteq Proofs
    /\ pool \in Seq(Messages) /\ Len(pool) <= PoolMax
    /\ look \in [Transfers -> {"none", "done", "failed"}]
    /\ wait \in [Evidence -> 0..Window]
    /\ batch \subseteq Evidence
    /\ arrivals \in 0..MaxArrivals /\ stops \in 0..MaxStops

\* What the threads hold.
Hands ==
    /\ thread \in [Threads -> ThreadStates]
    /\ \A x \in Threads : Busy(thread[x], stored)
    /\ Looks(thread[Db], look)

\* What the pool holds, and what was looked at again, is in the store.
Kept ==
    /\ IsFiniteSet(stored)
    /\ In(pool) \subseteq stored
    /\ \A m \in Transfers : look[m] # "none" => m \in stored

Base == Rest /\ Hands /\ Kept

LEMMA BaseTypes == Base => TypeOK
BY DEF Base, Rest, Hands, TypeOK, SeenSets, ThreadStates

\* A thread moves on; nothing leaves the store and no look is forgotten.
LEMMA Move ==
    ASSUME Base, NEW x \in Threads, NEW new \in ThreadStates,
           thread' = [thread EXCEPT ![x] = new], stored \subseteq stored',
           \A m \in Transfers : look[m] # "none" => look'[m] # "none",
           Busy(new, stored'), x = Db => Looks(new, look')
    PROVE  Hands'
<1>1. thread \in [Threads -> ThreadStates] /\ Db \in Threads
    BY DEF Base, Hands, Threads
<1>2. thread' \in [Threads -> ThreadStates] /\ \A y \in Threads : thread'[y] = IF y = x THEN new ELSE thread[y]
    BY <1>1
<1>3. \A y \in Threads : Busy(thread'[y], stored')
    BY <1>2 DEF Base, Hands, Busy
<1>4. Looks(thread'[Db], look')
    BY <1>1, <1>2 DEF Base, Hands, Looks
<1> QED BY <1>2, <1>3, <1>4 DEF Hands

\* A thread that is done.
LEMMA IdleFacts ==
    /\ Idle \in ThreadStates
    /\ \A kept : Busy(Idle, kept)
    /\ \A noted : Looks(Idle, noted)
BY LimitFacts DEF Idle, At, ThreadStates, Busy, Looks, Limits

\* A thread holds a message; the database process one that it has noted.
LEMMA BusyFacts ==
    ASSUME Base, NEW x \in Threads, thread[x].stage # "idle"
    PROVE  /\ thread[x] \in ThreadStates /\ thread[x].msg \in Messages
           /\ x = Db => thread[x].msg \in Transfers /\ look[thread[x].msg] # "none"
BY DEF Base, Hands, Busy, Looks

\* discard takes a message out of the set and leaves its place.
LEMMA SeenDiscardFacts ==
    ASSUME NEW s \in SeenSets, Len(s.order) <= SeenMax, NEW m
    PROVE  /\ SeenDiscard(s, m) \in SeenSets /\ Len(SeenDiscard(s, m).order) <= SeenMax
           /\ SeenDiscard(s, m).items = s.items \ {m}
BY DEF SeenDiscard, SeenSets

\* A thread that starts on a message.
LEMMA StartFacts ==
    ASSUME NEW stage \in {"mark", "put", "ingest"}, NEW m \in Messages, NEW n \in 0..MaxTries
    PROVE  /\ At(stage, m, n, Nothing) \in ThreadStates
           /\ \A kept : Busy(At(stage, m, n, Nothing), kept)
           /\ \A noted : (stage = "ingest" /\ m \in Transfers /\ noted[m] # "none") => Looks(At(stage, m, n, Nothing), noted)
BY DEF At, ThreadStates, Busy, Looks

\* A handler takes a message from a peer.
LEMMA ReceiveBase ==
    ASSUME Base, NEW h \in Handlers, NEW m \in Messages, Receive(h, m)
    PROVE  Base'
<1> DEFINE stage == IF m \in Proofs THEN "ingest" ELSE "mark"
           new == At(stage, m, 0, Nothing)
<1>1. h \in Threads /\ h # Db
    BY ThreadsDistinct DEF Threads
<1>2. new \in ThreadStates /\ Busy(new, stored')
    <2>1. stage \in {"mark", "put", "ingest"} /\ 0 \in 0..MaxTries
        BY LimitFacts DEF Limits
    <2> QED BY <2>1, StartFacts
<1>3. thread' = [thread EXCEPT ![h] = new] /\ stored' = stored /\ look' = look
    BY DEF Receive
<1> HIDE DEF new
<1>4. Hands'
    BY <1>1, <1>2, <1>3, Move
<1>5. Rest'
    BY BoundAssumption DEF Receive, Base, Rest
<1>6. Kept'
    BY DEF Receive, Base, Kept
<1> QED BY <1>4, <1>5, <1>6 DEF Base

\* The message is marked as seen and then put in its lane.
LEMMA MarkBase ==
    ASSUME Base, NEW h \in Handlers, Mark(h)
    PROVE  Base' /\ thread[h].msg \in Messages
<1> DEFINE new == [thread[h] EXCEPT !.stage = "put"]
<1>1. h \in Threads /\ h # Db /\ Rest
    BY ThreadsDistinct DEF Threads, Base
<1>2. thread[h].msg \in Messages /\ thread[h] \in ThreadStates
    BY <1>1, BusyFacts DEF Mark
<1>3. new \in ThreadStates /\ Busy(new, stored')
    BY <1>2 DEF ThreadStates, Busy
<1>4. thread' = [thread EXCEPT ![h] = new] /\ stored' = stored /\ look' = look
    BY DEF Mark, Goto
<1> HIDE DEF new
<1>5. Hands'
    BY <1>1, <1>3, <1>4, Move
<1>6. seen' \in SeenSets /\ Len(seen'.order) <= SeenMax
    BY <1>1, <1>2, SeenAddFacts DEF Mark, Rest
<1>7. Rest'
    BY <1>1, <1>6 DEF Mark, Rest
<1>8. Kept'
    BY DEF Mark, Base, Kept
<1> QED BY <1>2, <1>5, <1>7, <1>8 DEF Base

LEMMA PutBase ==
    ASSUME Base, NEW h \in Handlers, Put(h)
    PROVE  Base'
<1>1. h \in Threads /\ h # Db /\ Rest
    BY ThreadsDistinct DEF Threads, Base
<1>2. thread[h].msg \in Messages
    BY <1>1, BusyFacts DEF Put
<1>3. thread' = [thread EXCEPT ![h] = Idle] /\ stored' = stored /\ look' = look
    BY DEF Put, Release
<1>4. Hands'
    BY <1>1, <1>3, Move, IdleFacts
<1>5. lanes' \in [Lanes -> Seq(Messages)]
    <2>1. LaneOf(thread[h].msg) \in Lanes
        BY DEF LaneOf, Lanes
    <2>2. Append(lanes[LaneOf(thread[h].msg)], thread[h].msg) \in Seq(Messages)
        BY <1>1, <1>2, <2>1 DEF Rest
    <2>3. lanes \in [Lanes -> Seq(Messages)]
        BY <1>1 DEF Rest
    <2> QED BY <2>1, <2>2, <2>3 DEF Put
<1>6. seen' \in SeenSets /\ Len(seen'.order) <= SeenMax
    BY <1>1, SeenDiscardFacts DEF Put, Rest
<1>7. Rest'
    BY <1>1, <1>5, <1>6 DEF Put, Rest
<1>8. Kept'
    BY DEF Put, Base, Kept
<1> QED BY <1>4, <1>7, <1>8 DEF Base

\* A worker takes the first message of a lane.
LEMMA TakeBase ==
    ASSUME Base, NEW w \in Workers, NEW lane \in Lanes, Take(w, lane)
    PROVE  Base'
<1> DEFINE new == At("ingest", Head(lanes[lane]), 1, Nothing)
<1>1. w \in Threads /\ w # Db /\ Rest
    BY ThreadsDistinct DEF Threads, Base
<1>2. Tail(lanes[lane]) \in Seq(Messages) /\ Head(lanes[lane]) \in Messages
    BY <1>1, TailFacts DEF Take, Rest
<1>3. new \in ThreadStates /\ Busy(new, stored')
    BY <1>2, LimitFacts, StartFacts DEF Limits
<1>4. thread' = [thread EXCEPT ![w] = new] /\ stored' = stored /\ look' = look
    BY DEF Take, TakeFrom
<1> HIDE DEF new
<1>5. Hands'
    BY <1>1, <1>3, <1>4, Move
<1>6. Rest'
    BY <1>1, <1>2 DEF Take, TakeFrom, Rest
<1>7. Kept'
    BY DEF Take, Base, Kept
<1> QED BY <1>5, <1>6, <1>7 DEF Base

\* The database process looks at a message of the pool again.
LEMMA LookAgainBase ==
    ASSUME Base, NEW m \in Transfers, LookAgain(m)
    PROVE  Base' /\ m \in stored
<1> DEFINE new == At("ingest", m, 0, Nothing)
<1>1. Db \in Threads /\ Rest /\ m \in Messages
    BY DEF Threads, Base, Messages
<1>2. look' = [look EXCEPT ![m] = "done"] /\ thread' = [thread EXCEPT ![Db] = new] /\ stored' = stored
    BY DEF LookAgain
<1>3. look' \in [Transfers -> {"none", "done", "failed"}] /\ look'[m] = "done"
      /\ \A n \in Transfers : n # m => look'[n] = look[n]
    BY <1>1, <1>2 DEF Rest
<1>4. new \in ThreadStates /\ Busy(new, stored') /\ Looks(new, look')
    BY <1>1, <1>3, LimitFacts, StartFacts DEF Limits
<1> HIDE DEF new
<1>5. Hands'
    BY <1>1, <1>2, <1>3, <1>4, Move
<1>6. Rest'
    BY <1>1, <1>3 DEF LookAgain, Rest
<1>7. m \in stored
    BY DEF LookAgain, Base, Kept
<1>8. Kept'
    BY <1>3, <1>7 DEF LookAgain, Base, Kept
<1> QED BY <1>5, <1>6, <1>7, <1>8 DEF Base

\* A bill is settled.
LEMMA FinalizeBase ==
    ASSUME Base, NEW p \in Proofs, Finalize(p)
    PROVE  Base'
<1>1. Hands'
    <2>1. thread' = thread /\ stored' = stored /\ look' = look /\ Hands
        BY DEF Finalize, Base
    <2> QED BY <2>1 DEF Hands
<1>2. Rest'
    BY DEF Finalize, Base, Rest
<1>3. Kept'
    BY DEF Finalize, Base, Kept
<1> QED BY <1>1, <1>2, <1>3 DEF Base

\* The handlers' set forgets a message.
LEMMA ForgetFacts ==
    ASSUME Rest, NEW x, Forget(x)
    PROVE  /\ seen' \in SeenSets /\ Len(seen'.order) <= SeenMax
           /\ seen'.items \subseteq seen.items
           /\ x # Db => thread[x].msg \notin seen'.items
BY SeenDiscardFacts DEF Forget, Rest

\* A look that failed was begun, and no other look changes.
LEMMA FailsFacts ==
    ASSUME Base, NEW x \in Threads, thread[x].stage # "idle", LookFails(x)
    PROVE  /\ look' \in [Transfers -> {"none", "done", "failed"}]
           /\ \A m \in Transfers : look'[m] # "none" <=> look[m] # "none"
           /\ \A m \in Transfers : look'[m] = "done" => /\ look[m] = "done"
                                                        /\ x = Db => m # thread[x].msg
<1>1. look \in [Transfers -> {"none", "done", "failed"}]
    BY DEF Base, Rest
<1>2. x = Db => thread[x].msg \in Transfers /\ look[thread[x].msg] # "none"
    BY BusyFacts
<1> QED BY <1>1, <1>2 DEF LookFails

\* The store refuses the message.
LEMMA RejectBase ==
    ASSUME Base, NEW x \in Threads, Reject(x)
    PROVE  Base'
<1>1. thread[x].stage # "idle" /\ LookFails(x) /\ Forget(x) /\ Rest /\ Kept
    BY DEF Reject, Ingesting, Base
<1>2. thread' = [thread EXCEPT ![x] = Idle] /\ stored' = stored /\ pool' = pool
    BY DEF Reject, Release
<1>3. \A m \in Transfers : look'[m] # "none" <=> look[m] # "none"
    BY <1>1, FailsFacts
<1>4. Hands'
    BY <1>2, <1>3, Move, IdleFacts
<1>5. Rest'
    BY <1>1, FailsFacts, ForgetFacts DEF Reject, Rest
<1>6. Kept'
    BY <1>1, <1>2, <1>3 DEF Kept
<1> QED BY <1>4, <1>5, <1>6 DEF Base

\* A worker tries again, the others give up.
LEMMA TransientBase ==
    ASSUME Base, NEW x \in Threads, Transient(x)
    PROVE  Base'
<1>1. thread[x].stage # "idle" /\ LookFails(x) /\ Rest /\ Kept
    BY DEF Transient, Ingesting, Base
<1>2. stored' = stored /\ pool' = pool
    BY DEF Transient
<1>3. \A m \in Transfers : look'[m] # "none" <=> look[m] # "none"
    BY <1>1, FailsFacts
<1>4. Kept'
    BY <1>1, <1>2, <1>3 DEF Kept
<1>5. CASE x \in Workers /\ thread[x].tries < MaxTries
    <2> DEFINE new == At("ingest", thread[x].msg, thread[x].tries + 1, Nothing)
    <2>1. thread[x] \in ThreadStates /\ thread[x].msg \in Messages /\ x # Db
        BY <1>1, <1>5, BusyFacts, ThreadsDistinct
    <2>2. thread' = [thread EXCEPT ![x] = new] /\ seen' = SeenAdd(seen, thread[x].msg)
        BY <1>5 DEF Transient
    <2>3. thread[x].tries + 1 \in 0..MaxTries
        BY <1>5, <2>1, LimitFacts DEF ThreadStates, Limits
    <2>4. new \in ThreadStates /\ Busy(new, stored')
        BY <2>1, <2>3, StartFacts
    <2> HIDE DEF new
    <2>5. Hands'
        BY <1>2, <1>3, <2>1, <2>2, <2>4, Move
    <2>6. seen' \in SeenSets /\ Len(seen'.order) <= SeenMax
        BY <1>1, <2>1, <2>2, SeenAddFacts DEF Rest
    <2>7. Rest'
        BY <1>1, <2>6, FailsFacts DEF Transient, Rest
    <2> QED BY <1>4, <2>5, <2>7 DEF Base
<1>6. CASE ~(x \in Workers /\ thread[x].tries < MaxTries)
    <2>1. thread' = [thread EXCEPT ![x] = Idle] /\ Forget(x)
        BY <1>6 DEF Transient, Release
    <2>2. Hands'
        BY <1>2, <1>3, <2>1, Move, IdleFacts
    <2>3. Rest'
        BY <1>1, <2>1, FailsFacts, ForgetFacts DEF Transient, Rest
    <2> QED BY <1>4, <2>2, <2>3 DEF Base
<1> QED BY <1>5, <1>6

Others == <<lanes, closed, pool, wait, batch, arrivals, stops>>

\* The store takes the message, with the proof it made of it.
LEMMA SaveBase ==
    ASSUME Base, NEW x \in Threads, thread[x].stage # "idle", NEW S \in SUBSET Messages, IsFiniteSet(S),
           NEW proof \in Proofs \cup {Nothing}, proof # Nothing => proof \in S, thread[x].msg \in S,
           Save(x, S, proof), UNCHANGED <<seen, look, Others>>
    PROVE  Base'
<1> DEFINE new == At("relay", thread[x].msg, thread[x].tries, proof)
<1>1. thread[x] \in ThreadStates /\ Rest /\ Kept
    BY BusyFacts DEF Base
<1>2. thread' = [thread EXCEPT ![x] = new] /\ stored' = stored \cup S /\ look' = look /\ pool' = pool
    BY DEF Save, Others
<1>3. new \in ThreadStates /\ Busy(new, stored')
    BY <1>1, <1>2 DEF At, ThreadStates, Busy
<1>4. x = Db => Looks(new, look')
    BY <1>2, BusyFacts DEF At, Looks
<1> HIDE DEF new
<1>5. Hands'
    BY <1>2, <1>3, <1>4, Move
<1>6. Rest'
    BY <1>1, <1>2 DEF Others, Rest
<1>7. IsFiniteSet(stored')
    BY <1>1, <1>2, FS_Union DEF Kept
<1>8. Kept'
    BY <1>1, <1>2, <1>7 DEF Kept
<1> QED BY <1>5, <1>6, <1>8 DEF Base

\* The store knows the message already.
LEMMA KeepBase ==
    ASSUME Base, NEW x \in Threads, thread[x].stage # "idle", Keep(x), UNCHANGED <<stored, look, Others>>
    PROVE  Base'
<1>1. Rest /\ Kept /\ thread[x].msg \in Messages
    BY BusyFacts DEF Base
<1>2. thread' = [thread EXCEPT ![x] = Idle] /\ stored' = stored /\ look' = look /\ pool' = pool
    BY DEF Keep, Release, Others
<1>3. Hands'
    BY <1>2, Move, IdleFacts
<1>4. seen' \in SeenSets /\ Len(seen'.order) <= SeenMax
    BY <1>1, SeenAddFacts DEF Keep, Rest
<1>5. Rest'
    BY <1>1, <1>2, <1>4 DEF Others, Rest
<1>6. Kept'
    BY <1>1, <1>2 DEF Kept
<1> QED BY <1>3, <1>5, <1>6 DEF Base

\* A thread goes on to ask the operators; its look may have failed.
LEMMA SubmitBase ==
    ASSUME Base, NEW x \in Threads, thread[x].stage # "idle", Goto(x, "submit"),
           UNCHANGED look \/ LookFails(x), UNCHANGED <<seen, stored, Others>>
    PROVE  Base'
<1> DEFINE new == [thread[x] EXCEPT !.stage = "submit"]
<1>1. Rest /\ Kept /\ thread[x] \in ThreadStates /\ thread[x].msg \in Messages
    BY BusyFacts DEF Base
<1>2. thread' = [thread EXCEPT ![x] = new] /\ stored' = stored /\ pool' = pool
    BY DEF Goto, Others, Base, Hands
<1>3. look' \in [Transfers -> {"none", "done", "failed"}]
      /\ \A m \in Transfers : look'[m] # "none" <=> look[m] # "none"
    BY <1>1, FailsFacts DEF Rest
<1>4. new \in ThreadStates /\ Busy(new, stored')
    BY <1>1 DEF ThreadStates, Busy
<1>5. x = Db => Looks(new, look')
    BY <1>1, <1>3, BusyFacts DEF Looks, ThreadStates
<1> HIDE DEF new
<1>6. Hands'
    BY <1>2, <1>3, <1>4, <1>5, Move
<1>7. Rest'
    BY <1>1, <1>3 DEF Others, Rest
<1>8. Kept'
    BY <1>1, <1>2, <1>3 DEF Kept
<1> QED BY <1>6, <1>7, <1>8 DEF Base

LEMMA IngestTransferBase ==
    ASSUME Base, NEW x \in Threads, IngestTransfer(x)
    PROVE  Base'
<1> DEFINE m == thread[x].msg
<1>1. thread[x].stage # "idle" /\ m \in Messages
    BY BusyFacts DEF IngestTransfer
<1>2. CASE Save(x, {m}, Nothing) /\ UNCHANGED <<seen, look>>
    <2>1. IsFiniteSet({m}) /\ {m} \in SUBSET Messages
        BY <1>1, FS_Singleton
    <2>2. UNCHANGED <<seen, look, Others>>
        BY <1>2 DEF IngestTransfer, Others
    <2> QED BY <1>1, <1>2, <2>1, <2>2, SaveBase
<1>3. ASSUME NEW p \in Rivals(m), p \in closed, Keep(x), UNCHANGED <<stored, look>>
      PROVE  Base'
    <2>1. UNCHANGED <<stored, look, Others>>
        BY <1>3 DEF IngestTransfer, Others
    <2> QED BY <1>1, <1>3, <2>1, KeepBase
<1>4. ASSUME NEW p \in Rivals(m), Save(x, {m, p}, p), UNCHANGED <<seen, look>>
      PROVE  Base'
    <2>1. p \in Proofs /\ p \in Messages
        BY DEF Rivals, Conflicts, Messages
    <2>2. IsFiniteSet({m, p}) /\ {m, p} \in SUBSET Messages
        <3>1. IsFiniteSet({m})
            BY FS_Singleton
        <3>2. {m, p} = {m} \cup {p} /\ IsFiniteSet({m} \cup {p})
            BY <3>1, FS_AddElement
        <3> QED BY <1>1, <2>1, <3>2
    <2>3. UNCHANGED <<seen, look, Others>>
        BY <1>4 DEF IngestTransfer, Others
    <2> QED BY <1>1, <1>4, <2>1, <2>2, <2>3, SaveBase
<1>5. CASE Goto(x, "submit") /\ UNCHANGED <<seen, stored>>
           /\ IF Rivals(m) = {} THEN UNCHANGED look ELSE LookFails(x)
    <2>1. UNCHANGED <<seen, stored, Others>>
        BY <1>5 DEF IngestTransfer, Others
    <2> QED BY <1>1, <1>5, <2>1, SubmitBase
<1> QED BY <1>2, <1>3, <1>4, <1>5 DEF IngestTransfer

LEMMA CommitTransferBase ==
    ASSUME Base, NEW x \in Threads, CommitTransfer(x)
    PROVE  Base'
<1>1. thread[x].stage # "idle" /\ thread[x].msg \in Messages
    BY BusyFacts DEF CommitTransfer
<1>2. IsFiniteSet({thread[x].msg}) /\ {thread[x].msg} \in SUBSET Messages
    BY <1>1, FS_Singleton
<1>3. Save(x, {thread[x].msg}, Nothing) /\ UNCHANGED <<seen, look, Others>>
    BY DEF CommitTransfer, Others
<1> QED BY <1>1, <1>2, <1>3, SaveBase

LEMMA IngestReportBase ==
    ASSUME Base, NEW x \in Threads, IngestReport(x)
    PROVE  Base'
<1>1. thread[x].stage # "idle" /\ thread[x].msg \in Messages
    BY BusyFacts DEF IngestReport
<1>2. IsFiniteSet({thread[x].msg}) /\ {thread[x].msg} \in SUBSET Messages
    BY <1>1, FS_Singleton
<1>3. Save(x, {thread[x].msg}, Nothing) /\ UNCHANGED <<seen, look, Others>>
    BY DEF IngestReport, Others
<1> QED BY <1>1, <1>2, <1>3, SaveBase

LEMMA IngestProofBase ==
    ASSUME Base, NEW x \in Threads, IngestProof(x)
    PROVE  Base'
<1> DEFINE p == thread[x].msg
<1>1. thread[x].stage # "idle" /\ p \in Messages /\ p \in Proofs
    BY BusyFacts DEF IngestProof
<1>2. CASE p \in closed \cup stored
    <2>1. Keep(x) /\ UNCHANGED <<stored, look, Others>>
        BY <1>2 DEF IngestProof, Others
    <2> QED BY <1>1, <2>1, KeepBase
<1>3. CASE p \notin closed \cup stored
    <2>1. IsFiniteSet({p}) /\ {p} \in SUBSET Messages
        BY <1>1, FS_Singleton
    <2>2. Save(x, {p}, p) /\ UNCHANGED <<seen, look, Others>>
        BY <1>3 DEF IngestProof, Others
    <2> QED BY <1>1, <2>1, <2>2, SaveBase
<1> QED BY <1>2, <1>3

\* A message that was stored goes to the pool.
LEMMA RelayBase ==
    ASSUME Base, NEW x \in Threads, Relay(x)
    PROVE  Base'
<1> DEFINE t == thread[x]
           q == IF x = Db THEN pool ELSE PoolAdd(pool, t.msg)
<1>1. t.stage = "relay" /\ Rest /\ Kept /\ t \in ThreadStates /\ t.msg \in Messages
    BY BusyFacts DEF Relay, Base
<1>2. t.msg \in stored /\ (t.proof # Nothing => t.proof \in stored /\ t.proof \in Messages)
    BY <1>1 DEF Base, Hands, Busy, ThreadStates, Messages
<1>3. thread' = [thread EXCEPT ![x] = Idle] /\ stored' = stored /\ look' = look
      /\ pool' = IF t.proof = Nothing THEN q ELSE PoolAdd(q, t.proof)
    BY DEF Relay, Release
<1>4. Hands'
    BY <1>3, Move, IdleFacts
<1>5. q \in Seq(Messages) /\ Len(q) <= PoolMax /\ In(q) \subseteq stored
    <2>1. pool \in Seq(Messages) /\ Len(pool) <= PoolMax /\ In(pool) \subseteq stored
        BY <1>1 DEF Rest, Kept
    <2> DEFINE r == PoolAdd(pool, t.msg)
    <2>2. r \in Seq(Messages) /\ Len(r) <= PoolMax /\ In(r) \subseteq In(pool) \cup {t.msg}
        BY <1>1, <2>1, PoolAddFacts
    <2> HIDE DEF r
    <2> QED BY <1>2, <2>1, <2>2 DEF r
<1> HIDE DEF q
<1>6. pool' \in Seq(Messages) /\ Len(pool') <= PoolMax /\ In(pool') \subseteq stored
    BY <1>2, <1>3, <1>5, PoolAddFacts
<1>7. seen' \in SeenSets /\ Len(seen'.order) <= SeenMax
    BY <1>1, SeenAddFacts DEF Relay, Rest
<1>8. Rest'
    BY <1>1, <1>6, <1>7 DEF Relay, Rest
<1>9. Kept'
    BY <1>1, <1>3, <1>6 DEF Kept
<1> QED BY <1>4, <1>8, <1>9 DEF Base

\* A round of the rebroadcaster.
LEMMA RebroadcastBase ==
    ASSUME Base, Rebroadcast
    PROVE  Base'
<1>1. Rest
    BY DEF Base
<1>2. Hands'
    <2>1. thread' = thread /\ stored' = stored /\ look' = look /\ Hands
        BY DEF Rebroadcast, Base
    <2> QED BY <2>1 DEF Hands
<1>3. Kept'
    <2>1. stored' = stored /\ look' = look /\ pool' = pool /\ Kept
        BY DEF Rebroadcast, Base
    <2> QED BY <2>1 DEF Kept
<1>4. wait' \in [Evidence -> 0..Window] /\ batch' \subseteq Evidence
    <2>1. PICK d \in 1..Window :
            LET left == [m \in Evidence |-> IF wait[m] > d THEN wait[m] - d ELSE 0]
                due == {i \in 1..Len(pool) : pool[i] \in Evidence /\ left[pool[i]] = 0}
                first == {i \in due : Cardinality({k \in due : k <= i}) <= BatchMax}
            IN  /\ batch' = {pool[i] : i \in first}
                /\ wait' = [m \in Evidence |-> IF m \in {pool[i] : i \in due} THEN Window ELSE left[m]]
        BY DEF Rebroadcast
    <2> DEFINE left == [m \in Evidence |-> IF wait[m] > d THEN wait[m] - d ELSE 0]
               due == {i \in 1..Len(pool) : pool[i] \in Evidence /\ left[pool[i]] = 0}
               first == {i \in due : Cardinality({k \in due : k <= i}) <= BatchMax}
               D == {pool[i] : i \in due}
    <2>2. batch' = {pool[i] : i \in first} /\ wait' = [m \in Evidence |-> IF m \in D THEN Window ELSE left[m]]
        BY <2>1
    <2>3. \A i \in first : pool[i] \in Evidence
        OBVIOUS
    <2>4. Window \in Nat /\ wait \in [Evidence -> 0..Window]
        BY <1>1, LimitAssumption DEF Rest
    <2>5. \A m \in Evidence : left[m] \in 0..Window
        BY <2>4
    <2> HIDE DEF left, due, first, D
    <2> QED BY <2>2, <2>3, <2>4, <2>5
<1>5. Rest'
    BY <1>1, <1>4 DEF Rebroadcast, Rest
<1> QED BY <1>2, <1>3, <1>5 DEF Base

\* What a process that starts has.
LEMMA EmptyFacts ==
    /\ NoSeen \in SeenSets /\ NoSeen.items = {} /\ Len(NoSeen.order) = 0
    /\ NoLanes \in [Lanes -> Seq(Messages)]
    /\ NoThreads \in [Threads -> ThreadStates] /\ \A x \in Threads : NoThreads[x] = Idle
    /\ NoLook \in [Transfers -> {"none", "done", "failed"}] /\ \A m \in Transfers : NoLook[m] = "none"
    /\ NoWait \in [Evidence -> 0..Window]
BY LimitAssumption, IdleFacts DEF NoSeen, NoLanes, NoThreads, NoLook, NoWait, SeenSets

LEMMA InitBase == Init => Base
<1> SUFFICES ASSUME Init PROVE Base
    OBVIOUS
<1>1. thread = NoThreads /\ look = NoLook /\ stored = {} /\ pool = <<>>
    BY DEF Init
<1>2. Db \in Threads
    BY DEF Threads
<1>3. Hands
    BY <1>1, <1>2, EmptyFacts, IdleFacts DEF Hands
<1>4. Rest
    BY EmptyFacts, LimitFacts, BoundAssumption DEF Init, Rest, Limits
<1>5. Kept
    BY <1>1, EmptyFacts, FS_EmptySet DEF Kept, In
<1> QED BY <1>3, <1>4, <1>5 DEF Base

\* The node starts again with the evidence of its store.
LEMMA RestartBase ==
    ASSUME Base, Restart
    PROVE  Base'
<1>1. Rest /\ Kept
    BY DEF Base
<1>2. PICK R \in SUBSET (stored \cap Reports), P \in SUBSET (stored \cap Proofs) : pool' = Loaded(R, P)
    BY DEF Restart
<1>3. /\ R \in SUBSET Messages /\ P \in SUBSET Messages /\ R \cup P \subseteq stored
      /\ IsFiniteSet(R) /\ IsFiniteSet(P)
    BY <1>1, FS_Subset DEF Rest, Kept
<1>4. pool' \in Seq(Messages) /\ Len(pool') <= PoolMax /\ In(pool') \subseteq stored
    BY <1>2, <1>3, LoadedFacts
<1>5. thread' = NoThreads /\ look' = NoLook /\ stored' = stored
    BY DEF Restart
<1>6. Hands'
    <2>1. Db \in Threads
        BY DEF Threads
    <2> QED BY <1>5, <2>1, EmptyFacts, IdleFacts DEF Hands
<1>7. stops' \in 0..MaxStops
    BY <1>1, BoundAssumption DEF Restart, Rest
<1>8. Rest'
    BY <1>1, <1>4, <1>5, <1>7, EmptyFacts, LimitFacts DEF Restart, Rest, Limits
<1>9. Kept'
    BY <1>1, <1>4, <1>5, EmptyFacts DEF Kept
<1> QED BY <1>6, <1>8, <1>9 DEF Base

LEMMA NextBase ==
    ASSUME Base, [Next]_vars
    PROVE  Base'
<1>1. CASE \E h \in Handlers : HandlerStep(h) \/ \E m \in Messages : Receive(h, m)
    BY <1>1, ReceiveBase, MarkBase, PutBase DEF HandlerStep
<1>2. CASE \E w \in Workers : WorkerStep(w)
    BY <1>2, TakeBase DEF WorkerStep
<1>3. CASE \E x \in Threads : IngestStep(x)
    BY <1>3, RejectBase, TransientBase, IngestTransferBase, CommitTransferBase, IngestProofBase,
       IngestReportBase, RelayBase DEF IngestStep
<1>4. CASE \E m \in Transfers : LookAgain(m)
    BY <1>4, LookAgainBase
<1>5. CASE \E p \in Proofs : Finalize(p)
    BY <1>5, FinalizeBase
<1>6. CASE Rebroadcast
    BY <1>6, RebroadcastBase
<1>7. CASE Restart
    BY <1>7, RestartBase
<1>8. CASE UNCHANGED vars
    <2>1. Rest'
        BY <1>8 DEF vars, Base, Rest
    <2>2. Hands'
        <3>1. thread' = thread /\ stored' = stored /\ look' = look /\ Hands
            BY <1>8 DEF vars, Base
        <3> QED BY <3>1 DEF Hands
    <2>3. Kept'
        BY <1>8 DEF vars, Base, Kept
    <2> QED BY <2>1, <2>2, <2>3 DEF Base
<1> QED BY <1>1, <1>2, <1>3, <1>4, <1>5, <1>6, <1>7, <1>8 DEF Next

\* The invariant holds in every state.
THEOREM Invariance == Spec => []Base
<1>1. Init => Base
    BY InitBase
<1>2. Base /\ [Next]_vars => Base'
    BY NextBase
<1> QED BY <1>1, <1>2, PTL DEF Spec

\* Every value has its type, and the seen set and the pool keep to their limits.
THEOREM TypeCorrect == Spec => []TypeOK
<1>1. Base => TypeOK
    BY BaseTypes
<1> QED BY <1>1, Invariance, PTL

-----------------------------------------------------------------------------
(* The duplicate cache *)

\* What a thread other than the database process lets go of is all that is lost.
LEMMA HeldFacts ==
    ASSUME Base, NEW x \in Threads, NEW new, thread' = [thread EXCEPT ![x] = new], lanes' = lanes
    PROVE  /\ Held \subseteq Held' \cup {thread[x].msg}
           /\ x = Db => Held \subseteq Held'
           /\ x # Db => new.msg \in Held'
<1> DEFINE H == Handlers \cup Workers
<1>1. thread \in [Threads -> ThreadStates] /\ H \subseteq Threads /\ Db \notin H /\ (x # Db => x \in H)
    BY ThreadsDistinct DEF Base, Hands, Threads
<1>2. \A y \in Threads : thread'[y] = IF y = x THEN new ELSE thread[y]
    BY <1>1
<1>3. x # Db => thread'[x].msg \in Held'
    BY <1>1 DEF Held
<1>4. ASSUME NEW n \in Held PROVE n \in Held' \/ (x # Db /\ n = thread[x].msg)
    <2>1. CASE n \in UNION {In(lanes[l]) : l \in Lanes}
        BY <2>1 DEF Held
    <2>2. CASE \E y \in H : n = thread[y].msg
        <3>1. PICK y \in H : n = thread[y].msg
            BY <2>2
        <3>2. y # x => n = thread'[y].msg
            BY <1>1, <1>2, <3>1
        <3>3. thread'[y].msg \in Held'
            BY <3>1 DEF Held
        <3> QED BY <1>1, <3>1, <3>2, <3>3
    <2> QED BY <2>1, <2>2 DEF Held
<1> QED BY <1>1, <1>2, <1>3, <1>4

LEMMA SettledGrows ==
    ASSUME closed \subseteq closed'
    PROVE  Settled \subseteq Settled'
BY DEF Settled

\* A thread moves on: what is seen and what it had is held on, forgotten or known.
LEMMA SeenMoves ==
    ASSUME Base, SeenIsHeldOrKnown, NEW x \in Threads, NEW new, thread' = [thread EXCEPT ![x] = new],
           lanes' = lanes, stored \subseteq stored', closed \subseteq closed', seen' \in SeenSets,
           \A n \in seen'.items : n \in seen.items \/ (x # Db /\ n = thread[x].msg),
           \/ new.msg = thread[x].msg \/ thread[x].msg = Nothing
           \/ thread[x].msg \notin seen'.items \/ thread[x].msg \in stored' \cup Settled'
           \/ x = Db
    PROVE  SeenIsHeldOrKnown'
<1> SUFFICES ASSUME NEW n \in seen'.items PROVE n \in stored' \cup Settled' \cup Held'
    BY DEF SeenIsHeldOrKnown
<1>1. n # Nothing
    BY MessagesDistinct DEF SeenSets, Messages
<1>2. CASE x # Db /\ n = thread[x].msg
    BY <1>1, <1>2, HeldFacts
<1>3. CASE n \in seen.items /\ ~(x # Db /\ n = thread[x].msg)
    BY <1>3, HeldFacts, SettledGrows DEF SeenIsHeldOrKnown
<1> QED BY <1>2, <1>3

LEMMA PutSeen ==
    ASSUME Base, SeenIsHeldOrKnown, NEW h \in Handlers, Put(h)
    PROVE  SeenIsHeldOrKnown'
<1> DEFINE m == thread[h].msg
           lane == LaneOf(m)
<1>1. h \in Threads /\ h # Db /\ Rest
    BY ThreadsDistinct DEF Threads, Base
<1>2. m \in Messages /\ lane \in Lanes /\ lanes[lane] \in Seq(Messages) /\ lanes \in [Lanes -> Seq(Messages)]
    BY <1>1, BusyFacts DEF Put, Rest, LaneOf, Lanes
<1>3. thread' = [thread EXCEPT ![h] = Idle] /\ stored' = stored /\ closed' = closed
    BY DEF Put, Release
<1>4. CASE seen' = SeenDiscard(seen, m) /\ lanes' = lanes
    <2>1. seen' \in SeenSets /\ seen'.items = seen.items \ {m}
        BY <1>1, <1>4, SeenDiscardFacts DEF Rest
    <2> QED BY <1>1, <1>3, <1>4, <2>1, SeenMoves
<1>5. CASE seen' = seen /\ lanes' = [lanes EXCEPT ![lane] = Append(@, m)]
    <2>1. /\ In(lanes'[lane]) = In(lanes[lane]) \cup {m}
          /\ \A l \in Lanes : l # lane => lanes'[l] = lanes[l]
        BY <1>2, <1>5, AppendFacts
    <2>2. thread \in [Threads -> ThreadStates]
        BY DEF Base, Hands
    <2>3. \A y \in Handlers \cup Workers : y # h => thread'[y] = thread[y]
        BY <1>3, <2>2 DEF Threads
    <2>4. Held \subseteq Held'
        <3>1. ASSUME NEW l \in Lanes PROVE In(lanes[l]) \subseteq Held'
            <4>1. In(lanes[l]) \subseteq In(lanes'[l])
                BY <2>1
            <4> QED BY <4>1 DEF Held
        <3>2. ASSUME NEW y \in Handlers \cup Workers PROVE thread[y].msg \in Held'
            <4>1. CASE y = h
                <5>1. m \in In(lanes'[lane])
                    BY <2>1
                <5> QED BY <1>2, <4>1, <5>1 DEF Held
            <4>2. CASE y # h
                BY <2>3, <4>2 DEF Held
            <4> QED BY <4>1, <4>2
        <3> QED BY <3>1, <3>2 DEF Held
    <2>5. Settled' = Settled
        BY <1>3 DEF Settled
    <2> QED BY <1>3, <1>5, <2>4, <2>5 DEF SeenIsHeldOrKnown
<1> QED BY <1>4, <1>5 DEF Put

LEMMA TakeSeen ==
    ASSUME Base, SeenIsHeldOrKnown, NEW w \in Workers, NEW lane \in Lanes, Take(w, lane)
    PROVE  SeenIsHeldOrKnown'
<1> DEFINE m == Head(lanes[lane])
<1>1. w \in Threads /\ w # Db /\ Rest /\ thread \in [Threads -> ThreadStates]
    BY ThreadsDistinct DEF Threads, Base, Hands
<1>2. /\ lanes \in [Lanes -> Seq(Messages)] /\ lanes[lane] # <<>>
      /\ In(lanes[lane]) = In(Tail(lanes[lane])) \cup {m}
    BY <1>1, TailFacts DEF Take, Rest
<1>3. thread' = [thread EXCEPT ![w] = At("ingest", m, 1, Nothing)] /\ lanes' = [lanes EXCEPT ![lane] = Tail(@)]
      /\ stored' = stored /\ closed' = closed /\ seen' = seen
    BY DEF Take, TakeFrom
<1>4. thread[w].msg = Nothing
    BY <1>1 DEF Take, Base, Hands, Busy
<1>5. thread'[w].msg = m /\ \A y \in Handlers \cup Workers : y # w => thread'[y] = thread[y]
    BY <1>1, <1>3 DEF Threads, At
<1>6. In(lanes[lane]) = In(lanes'[lane]) \cup {m} /\ \A l \in Lanes : l # lane => lanes'[l] = lanes[l]
    BY <1>2, <1>3
<1>7. m \in Held'
    BY <1>5 DEF Held
<1>8. Held \subseteq Held' \cup {Nothing}
    <2>1. ASSUME NEW l \in Lanes PROVE In(lanes[l]) \subseteq Held'
        <3>1. In(lanes[l]) \subseteq In(lanes'[l]) \cup {m}
            BY <1>6
        <3> QED BY <1>7, <3>1 DEF Held
    <2>2. ASSUME NEW y \in Handlers \cup Workers PROVE thread[y].msg \in Held' \cup {Nothing}
        BY <1>4, <1>5 DEF Held
    <2> QED BY <2>1, <2>2 DEF Held
<1>9. seen.items \subseteq Messages /\ Nothing \notin Messages
    BY <1>1, MessagesDistinct DEF Rest, SeenSets, Messages
<1>10. Settled' = Settled
    BY <1>3 DEF Settled
<1> QED BY <1>3, <1>8, <1>9, <1>10 DEF SeenIsHeldOrKnown

\* What the store or a thread knows when it ends a look at a message.
LEMMA IngestSeen ==
    ASSUME Base, SeenIsHeldOrKnown, Base', NEW x \in Threads, IngestStep(x)
    PROVE  SeenIsHeldOrKnown'
<1> DEFINE m == thread[x].msg
<1>1. thread[x].stage # "idle" /\ m \in Messages /\ Rest /\ seen \in SeenSets /\ seen' \in SeenSets
      /\ thread \in [Threads -> ThreadStates] /\ Len(seen.order) <= SeenMax
    BY BusyFacts DEF IngestStep, Reject, Transient, IngestTransfer, CommitTransfer, IngestProof, IngestReport,
       Relay, Ingesting, Base, Rest, Hands
<1>2. lanes' = lanes /\ closed' = closed /\ stored \subseteq stored'
    BY DEF IngestStep, Reject, Transient, IngestTransfer, CommitTransfer, IngestProof, IngestReport,
       Relay, Save
<1>3. SeenAdd(seen, m).items \subseteq seen.items \cup {m}
    BY <1>1, SeenAddFacts
<1>4. ASSUME Forget(x), Release(x) PROVE SeenIsHeldOrKnown'
    <2>1. seen'.items \subseteq seen.items /\ (x # Db => m \notin seen'.items)
        BY <1>1, <1>4, ForgetFacts
    <2> QED BY <1>1, <1>2, <1>4, <2>1, SeenMoves DEF Release
<1>5. ASSUME Keep(x), m \in stored' \cup Settled' PROVE SeenIsHeldOrKnown'
    <2>1. \A n \in seen'.items : n \in seen.items \/ (x # Db /\ n = m)
        BY <1>3, <1>5 DEF Keep
    <2> QED BY <1>1, <1>2, <1>5, <2>1, SeenMoves DEF Keep, Release
<1>6. ASSUME NEW S, NEW proof, Save(x, S, proof), seen' = seen PROVE SeenIsHeldOrKnown'
    <2> DEFINE new == At("relay", m, thread[x].tries, proof)
    <2>1. thread' = [thread EXCEPT ![x] = new] /\ new.msg = m
        BY <1>6 DEF Save, At
    <2> HIDE DEF new
    <2> QED BY <1>1, <1>2, <1>6, <2>1, SeenMoves
<1>7. CASE Reject(x)
    BY <1>4, <1>7 DEF Reject
<1>8. CASE Transient(x)
    <2>1. CASE x \in Workers /\ thread[x].tries < MaxTries
        <3> DEFINE new == At("ingest", m, thread[x].tries + 1, Nothing)
        <3>1. thread' = [thread EXCEPT ![x] = new] /\ new.msg = m /\ x # Db
            BY <1>8, <2>1, ThreadsDistinct DEF Transient, At
        <3>2. \A n \in seen'.items : n \in seen.items \/ (x # Db /\ n = m)
            BY <1>3, <1>8, <2>1, <3>1 DEF Transient
        <3> HIDE DEF new
        <3> QED BY <1>1, <1>2, <3>1, <3>2, SeenMoves
    <2>2. CASE ~(x \in Workers /\ thread[x].tries < MaxTries)
        BY <1>4, <1>8, <2>2 DEF Transient
    <2> QED BY <2>1, <2>2
<1>9. CASE IngestTransfer(x)
    <2>1. ASSUME NEW p \in Rivals(m), p \in closed, Keep(x) PROVE SeenIsHeldOrKnown'
        <3>1. m \in Settled'
            BY <1>2, <2>1 DEF Rivals, Conflicts, Settled
        <3> QED BY <1>5, <2>1, <3>1
    <2>2. CASE Goto(x, "submit") /\ seen' = seen
        <3> DEFINE new == [thread[x] EXCEPT !.stage = "submit"]
        <3>1. thread' = [thread EXCEPT ![x] = new] /\ new.msg = m
            BY <1>1, <2>2 DEF Goto, ThreadStates
        <3> HIDE DEF new
        <3> QED BY <1>1, <1>2, <2>2, <3>1, SeenMoves
    <2> QED BY <1>6, <1>9, <2>1, <2>2 DEF IngestTransfer
<1>10. CASE CommitTransfer(x)
    BY <1>6, <1>10 DEF CommitTransfer
<1>11. CASE IngestProof(x)
    <2>1. CASE m \in closed \cup stored
        BY <1>2, <1>5, <1>11, <2>1 DEF IngestProof, Settled
    <2>2. CASE m \notin closed \cup stored
        BY <1>6, <1>11, <2>2 DEF IngestProof
    <2> QED BY <2>1, <2>2
<1>12. CASE IngestReport(x)
    BY <1>6, <1>12 DEF IngestReport
<1>13. CASE Relay(x)
    <2>1. m \in stored
        BY <1>13 DEF Relay, Base, Hands, Busy
    <2>2. \A n \in seen'.items : n \in seen.items \/ (x # Db /\ n = m)
        BY <1>3, <1>13 DEF Relay
    <2>3. thread' = [thread EXCEPT ![x] = Idle]
        BY <1>13 DEF Relay, Release
    <2> QED BY <1>1, <1>2, <2>1, <2>2, <2>3, SeenMoves
<1> QED BY <1>7, <1>8, <1>9, <1>10, <1>11, <1>12, <1>13 DEF IngestStep

LEMMA HandlerSeen ==
    ASSUME Base, SeenIsHeldOrKnown, Base', NEW h \in Handlers,
           Mark(h) \/ \E m \in Messages : Receive(h, m)
    PROVE  SeenIsHeldOrKnown'
<1>1. h \in Threads /\ h # Db /\ Rest /\ seen' \in SeenSets /\ thread \in [Threads -> ThreadStates]
    BY ThreadsDistinct DEF Threads, Base, Rest, Hands
<1>2. CASE Mark(h)
    <2> DEFINE new == [thread[h] EXCEPT !.stage = "put"]
    <2>1. thread' = [thread EXCEPT ![h] = new] /\ new.msg = thread[h].msg
        BY <1>1, <1>2 DEF Mark, Goto, ThreadStates
    <2>2. seen'.items \subseteq seen.items \cup {thread[h].msg}
        <3>1. thread[h].msg \in Messages
            BY <1>1, <1>2, BusyFacts DEF Mark
        <3> QED BY <1>1, <1>2, <3>1, SeenAddFacts DEF Mark, Rest
    <2>3. lanes' = lanes /\ stored' = stored /\ closed' = closed
        BY <1>2 DEF Mark
    <2> HIDE DEF new
    <2> QED BY <1>1, <2>1, <2>2, <2>3, SeenMoves
<1>3. ASSUME NEW m \in Messages, Receive(h, m) PROVE SeenIsHeldOrKnown'
    <2>1. thread[h].msg = Nothing
        BY <1>1, <1>3 DEF Receive, Base, Hands, Busy
    <2> DEFINE new == At(IF m \in Proofs THEN "ingest" ELSE "mark", m, 0, Nothing)
    <2>2. thread' = [thread EXCEPT ![h] = new] /\ lanes' = lanes /\ stored' = stored /\ closed' = closed
          /\ seen' = seen
        BY <1>3 DEF Receive
    <2> HIDE DEF new
    <2> QED BY <1>1, <2>1, <2>2, SeenMoves
<1> QED BY <1>2, <1>3

\* The duplicate cache is never poisoned: a message that a handler answers as a duplicate was
\* accepted or is on its way to the store (GossipIngestQueue.enqueue, _ingest_prepared_gossip).
THEOREM CacheIsNeverPoisoned == Spec => []SeenIsHeldOrKnown
<1>1. Init => SeenIsHeldOrKnown
    BY EmptyFacts DEF Init, SeenIsHeldOrKnown
<1>2. ASSUME Base, SeenIsHeldOrKnown, [Next]_vars, Base' PROVE SeenIsHeldOrKnown'
    <2>1. CASE \E h \in Handlers : HandlerStep(h) \/ \E m \in Messages : Receive(h, m)
        BY <1>2, <2>1, HandlerSeen, PutSeen DEF HandlerStep
    <2>2. CASE \E w \in Workers : WorkerStep(w)
        BY <1>2, <2>2, TakeSeen DEF WorkerStep
    <2>3. CASE \E x \in Threads : IngestStep(x)
        BY <1>2, <2>3, IngestSeen
    <2>4. CASE \E m \in Transfers : LookAgain(m)
        <3>1. PICK m \in Transfers : LookAgain(m)
            BY <2>4
        <3>2. Db \in Threads /\ seen' = seen /\ seen \in SeenSets /\ lanes' = lanes /\ stored' = stored
              /\ closed' = closed
            BY <1>2, <3>1 DEF LookAgain, Threads, Base, Rest
        <3> DEFINE new == At("ingest", m, 0, Nothing)
        <3>3. thread' = [thread EXCEPT ![Db] = new]
            BY <3>1 DEF LookAgain
        <3> HIDE DEF new
        <3> QED BY <1>2, <3>2, <3>3, SeenMoves
    <2>5. CASE \E p \in Proofs : Finalize(p)
        <3>1. closed \subseteq closed' /\ Held' = Held /\ stored' = stored /\ seen' = seen
            BY <2>5 DEF Finalize, Held
        <3> QED BY <1>2, <3>1, SettledGrows DEF SeenIsHeldOrKnown
    <2>6. CASE Rebroadcast
        BY <1>2, <2>6 DEF Rebroadcast, SeenIsHeldOrKnown, Held, Settled
    <2>7. CASE Restart
        BY <2>7, EmptyFacts DEF Restart, SeenIsHeldOrKnown
    <2>8. CASE UNCHANGED vars
        BY <1>2, <2>8 DEF vars, SeenIsHeldOrKnown, Held, Settled
    <2> QED BY <1>2, <2>1, <2>2, <2>3, <2>4, <2>5, <2>6, <2>7, <2>8 DEF Next
<1> QED BY <1>1, <1>2, Invariance, PTL DEF Spec

-----------------------------------------------------------------------------
(* The second look *)

\* The database process has been at both rivals: the one it came to later found the other.
SecondLook ==
    \A p \in Proofs :
      (/\ \A t \in Exposes[p] : look[t] = "done"
       /\ ~(thread[Db].stage = "ingest" /\ thread[Db].msg \in Exposes[p]))
      => p \in stored \cup closed

\* Whoever moves, a look that ends either fails or was not at these rivals.
LEMMA LookMoves ==
    ASSUME SecondLook, stored \subseteq stored', closed \subseteq closed',
           \A m \in Transfers : look'[m] = "done" => look[m] = "done",
           thread[Db].stage = "ingest" /\ ~(thread'[Db].stage = "ingest" /\ thread'[Db].msg = thread[Db].msg)
             => look'[thread[Db].msg] # "done"
    PROVE  SecondLook'
BY ExposesAssumption DEF SecondLook

\* A thread that is not the database process.
LEMMA OthersLook ==
    ASSUME Base, SecondLook, NEW x \in Threads, x # Db, NEW new, thread' = [thread EXCEPT ![x] = new],
           stored \subseteq stored', closed \subseteq closed', look' = look
    PROVE  SecondLook'
<1>1. thread'[Db] = thread[Db]
    BY DEF Base, Hands
<1> QED BY <1>1, LookMoves

\* A bill has one conflict.
LEMMA OneConflict ==
    ASSUME NEW p \in Proofs, NEW m \in Exposes[p]
    PROVE  Conflicts(m) = {p}
BY ExposesAssumption DEF Conflicts

\* The database process ingests a transfer that it looks at again.
LEMMA SearchLook ==
    ASSUME Base, SecondLook, IngestTransfer(Db)
    PROVE  SecondLook'
<1> DEFINE m == thread[Db].msg
<1>1. /\ Db \in Threads /\ thread[Db].stage = "ingest" /\ thread \in [Threads -> ThreadStates] /\ m \in Transfers
      /\ look \in [Transfers -> {"none", "done", "failed"}]
    BY DEF Threads, IngestTransfer, Base, Hands, Rest
<1>2. stored \subseteq stored' /\ closed' = closed
    BY DEF IngestTransfer, Save
<1>3. \A t \in Transfers : look'[t] = "done" => look[t] = "done"
    BY <1>1, FailsFacts DEF IngestTransfer
<1>4. SUFFICES ASSUME NEW p \in Proofs, \A t \in Exposes[p] : look'[t] = "done"
               PROVE  p \in stored' \cup closed'
    BY DEF SecondLook
<1>5. \A t \in Exposes[p] : look[t] = "done"
    BY <1>3, <1>4, ExposesAssumption
<1>6. CASE m \notin Exposes[p]
    BY <1>2, <1>5, <1>6 DEF SecondLook
<1>7. CASE m \in Exposes[p]
    <2>1. Conflicts(m) = {p}
        BY <1>7, OneConflict
    <2>2. Exposes[p] \subseteq stored
        BY <1>5, ExposesAssumption DEF Base, Kept
    <2>3. Rivals(m) = {p}
        BY <2>1, <2>2 DEF Rivals
    <2>4. ~LookFails(Db)
        BY <1>1, <1>4, <1>7 DEF LookFails
    <2>5. CASE Conflicts(m) \cap (stored \ closed) # {}
        BY <1>2, <2>1, <2>5
    <2>6. CASE \E r \in Rivals(m) : IF r \in closed THEN Keep(Db) /\ UNCHANGED <<stored, look>>
                                    ELSE Save(Db, {m, r}, r) /\ UNCHANGED <<seen, look>>
        BY <1>2, <2>3, <2>6 DEF Save
    <2> QED BY <2>3, <2>4, <2>5, <2>6 DEF IngestTransfer
<1> QED BY <1>6, <1>7

LEMMA IngestLook ==
    ASSUME Base, SecondLook, NEW x \in Threads, IngestStep(x)
    PROVE  SecondLook'
<1>1. /\ thread[x].stage # "idle" /\ thread \in [Threads -> ThreadStates] /\ closed' = closed /\ stored \subseteq stored'
      /\ look \in [Transfers -> {"none", "done", "failed"}]
    BY DEF IngestStep, Reject, Transient, IngestTransfer, CommitTransfer, IngestProof, IngestReport,
       Relay, Ingesting, Save, Base, Hands, Rest
<1>2. CASE x # Db
    <2>1. look' = look
        BY <1>2 DEF IngestStep, Reject, Transient, IngestTransfer, CommitTransfer, IngestProof, IngestReport,
           Relay, LookFails
    <2>2. thread'[Db] = thread[Db]
        <3>1. ASSUME \E new : thread' = [thread EXCEPT ![x] = new] PROVE thread'[Db] = thread[Db]
            BY <1>1, <1>2, <3>1
        <3>2. CASE Reject(x) \/ Transient(x) \/ Relay(x)
            BY <3>1, <3>2 DEF Reject, Transient, Relay, Release
        <3>3. CASE CommitTransfer(x) \/ IngestReport(x)
            BY <3>1, <3>3 DEF CommitTransfer, IngestReport, Save
        <3>4. CASE IngestProof(x)
            BY <3>1, <3>4 DEF IngestProof, Save, Keep, Release
        <3>5. CASE IngestTransfer(x)
            <4>1. CASE Goto(x, "submit")
                BY <1>1, <1>2, <4>1 DEF Goto
            <4>2. CASE ~Goto(x, "submit")
                BY <3>1, <3>5, <4>2 DEF IngestTransfer, Save, Keep, Release
            <4> QED BY <4>1, <4>2
        <3> QED BY <3>2, <3>3, <3>4, <3>5 DEF IngestStep
    <2> QED BY <1>1, <2>1, <2>2, LookMoves
<1>3. CASE x = Db
    <2> DEFINE m == thread[Db].msg
    <2>1. Db \in Threads /\ m \in Transfers /\ look[m] # "none" /\ Db \notin Workers
        BY <1>1, <1>3, BusyFacts, ThreadsDistinct
    <2>2. ASSUME LookFails(Db) PROVE SecondLook'
        <3>1. look'[m] # "done"
            BY <1>1, <2>1, <2>2 DEF LookFails
        <3>2. \A t \in Transfers : look'[t] = "done" => look[t] = "done"
            BY <1>1, <1>3, <2>1, <2>2, FailsFacts
        <3> QED BY <1>1, <3>1, <3>2, LookMoves
    <2>3. ASSUME look' = look, thread[Db].stage # "ingest" PROVE SecondLook'
        BY <1>1, <2>3, LookMoves
    <2>4. CASE Reject(Db)
        BY <2>2, <2>4 DEF Reject
    <2>5. CASE Transient(Db)
        BY <2>2, <2>5 DEF Transient
    <2>6. CASE IngestTransfer(Db)
        BY <2>6, SearchLook
    <2>7. CASE CommitTransfer(Db)
        BY <2>3, <2>7 DEF CommitTransfer
    <2>8. ~IngestProof(Db) /\ ~IngestReport(Db)
        BY <2>1, MessagesDistinct DEF IngestProof, IngestReport
    <2>9. CASE Relay(Db)
        BY <2>3, <2>9 DEF Relay
    <2> QED BY <1>3, <2>4, <2>5, <2>6, <2>7, <2>8, <2>9 DEF IngestStep
<1> QED BY <1>2, <1>3

\* Rivals whose ingestion overlapped are exposed by the second look of the database process
\* (the loop of database(), _ingest_transfer_announcement_v3), however often the node restarts.
THEOREM MissedRivalsAreExposed == Spec => []RivalsAreExposed
<1>1. ASSUME NEW p \in Proofs PROVE Exposes[p] # {}
    BY ExposesAssumption, FS_EmptySet
<1>2. ASSUME NEW p \in Proofs PROVE \E t \in Exposes[p] : NoLook[t] # "done"
    BY <1>1, ExposesAssumption, EmptyFacts
<1>3. Init => SecondLook
    BY <1>2 DEF Init, SecondLook
<1>4. ASSUME Base, SecondLook, [Next]_vars PROVE SecondLook'
    <2>1. ASSUME NEW h \in Handlers, HandlerStep(h) \/ \E m \in Messages : Receive(h, m) PROVE SecondLook'
        <3>1. h \in Threads /\ h # Db /\ thread \in [Threads -> ThreadStates]
            BY <1>4, ThreadsDistinct DEF Threads, Base, Hands
        <3>2. thread'[Db] = thread[Db]
            <4>1. CASE Mark(h)
                BY <3>1, <4>1 DEF Mark, Goto
            <4>2. CASE Put(h)
                BY <3>1, <4>2 DEF Put, Release
            <4>3. CASE \E m \in Messages : Receive(h, m)
                BY <3>1, <4>3 DEF Receive
            <4> QED BY <2>1, <4>1, <4>2, <4>3 DEF HandlerStep
        <3>3. stored' = stored /\ closed' = closed /\ look' = look
            BY <2>1 DEF HandlerStep, Mark, Put, Receive
        <3> QED BY <1>4, <3>2, <3>3, LookMoves
    <2>2. ASSUME NEW w \in Workers, WorkerStep(w) PROVE SecondLook'
        <3>1. w \in Threads /\ w # Db /\ thread \in [Threads -> ThreadStates]
            BY <1>4, ThreadsDistinct DEF Threads, Base, Hands
        <3>2. thread'[Db] = thread[Db]
            BY <2>2, <3>1 DEF WorkerStep, Take, TakeFrom
        <3>3. stored' = stored /\ closed' = closed /\ look' = look
            BY <2>2 DEF WorkerStep, Take
        <3> QED BY <1>4, <3>2, <3>3, LookMoves
    <2>3. CASE \E x \in Threads : IngestStep(x)
        BY <1>4, <2>3, IngestLook
    <2>4. ASSUME NEW m \in Transfers, LookAgain(m) PROVE SecondLook'
        <3>1. /\ Db \in Threads /\ thread \in [Threads -> ThreadStates]
              /\ look \in [Transfers -> {"none", "done", "failed"}]
            BY <1>4 DEF Threads, Base, Hands, Rest
        <3>2. thread[Db].stage = "idle" /\ thread'[Db].stage = "ingest" /\ thread'[Db].msg = m
            BY <2>4, <3>1 DEF LookAgain, At
        <3>3. \A t \in Transfers : t # m => look'[t] = look[t]
            BY <2>4, <3>1 DEF LookAgain
        <3>4. stored' = stored /\ closed' = closed
            BY <2>4 DEF LookAgain
        <3> QED BY <1>4, <3>2, <3>3, <3>4, ExposesAssumption DEF SecondLook
    <2>5. CASE \E p \in Proofs : Finalize(p)
        BY <1>4, <2>5, LookMoves DEF Finalize
    <2>6. CASE Rebroadcast
        BY <1>4, <2>6, LookMoves DEF Rebroadcast
    <2>7. CASE Restart
        BY <1>2, <2>7 DEF Restart, SecondLook
    <2>8. CASE UNCHANGED vars
        BY <1>4, <2>8, LookMoves DEF vars
    <2> QED BY <1>4, <2>1, <2>2, <2>3, <2>4, <2>5, <2>6, <2>7, <2>8 DEF Next
<1>5. SecondLook => RivalsAreExposed
    BY DEF SecondLook, RivalsAreExposed
<1> QED BY <1>3, <1>4, <1>5, Invariance, PTL DEF Spec

-----------------------------------------------------------------------------
(* Evidence between the store and the pool *)

\* The pool never fills up, and no more evidence is stored than is read back at a start.
RoomToSpare ==
    /\ Len(pool) < PoolMax
    /\ Cardinality(stored \cap Reports) <= LoadMax
    /\ Cardinality(stored \cap Proofs) <= LoadMax

\* A thread that was not on its way to the pool moves on.
LEMMA EvidenceMoves ==
    ASSUME Base, StoredEvidenceIsRelayed, NEW x \in Threads, NEW new, thread' = [thread EXCEPT ![x] = new],
           thread[x].stage # "relay", pool' = pool,
           \A m \in Evidence \cap stored' : m \in stored \/ (new.stage = "relay" /\ m \in {new.msg, new.proof})
    PROVE  StoredEvidenceIsRelayed'
<1>1. \A y \in Threads : thread'[y] = IF y = x THEN new ELSE thread[y]
    BY DEF Base, Hands
<1> SUFFICES ASSUME NEW m \in Evidence \cap stored'
             PROVE  m \in In(pool') \/ \E y \in Threads : thread'[y].stage = "relay" /\ m \in {thread'[y].msg, thread'[y].proof}
    BY DEF StoredEvidenceIsRelayed
<1>2. CASE m \in stored
    BY <1>1, <1>2 DEF StoredEvidenceIsRelayed
<1>3. CASE m \notin stored
    BY <1>1, <1>3
<1> QED BY <1>2, <1>3

\* A thread that puts what it stored in the pool, which has room for it.
LEMMA RelayEvidence ==
    ASSUME Base, StoredEvidenceIsRelayed, RoomToSpare, RoomToSpare', NEW x \in Threads, Relay(x)
    PROVE  StoredEvidenceIsRelayed'
<1> DEFINE t == thread[x]
           q == IF x = Db THEN pool ELSE PoolAdd(pool, t.msg)
<1>1. /\ t.stage = "relay" /\ t \in ThreadStates /\ t.msg \in Messages /\ (x = Db => t.msg \in Transfers)
      /\ thread \in [Threads -> ThreadStates] /\ pool \in Seq(Messages) /\ Len(pool) < PoolMax
    BY BusyFacts DEF Relay, Base, Hands, Rest, RoomToSpare
<1>2. /\ thread' = [thread EXCEPT ![x] = Idle] /\ stored' = stored
      /\ pool' = IF t.proof = Nothing THEN q ELSE PoolAdd(q, t.proof)
    BY DEF Relay, Release
<1>3. /\ q \in Seq(Messages) /\ Len(q) <= PoolMax /\ Len(q) \in Nat /\ In(pool) \subseteq In(q)
      /\ x # Db => t.msg \in In(q)
    <2>1. Len(pool) <= PoolMax /\ PoolMax \in Nat /\ Len(pool) \in Nat
        BY <1>1, LimitFacts DEF Limits
    <2> DEFINE r == PoolAdd(pool, t.msg)
    <2>2. r \in Seq(Messages) /\ Len(r) <= PoolMax /\ In(r) = In(pool) \cup {t.msg}
        BY <1>1, <2>1, PoolAddFacts
    <2> HIDE DEF r
    <2> QED BY <1>1, <2>1, <2>2 DEF r
<1> HIDE DEF q
<1>4. In(q) \subseteq In(pool') /\ (t.proof # Nothing => t.proof \in In(pool'))
    <2>1. CASE t.proof = Nothing
        BY <1>2, <2>1
    <2>2. CASE t.proof # Nothing
        <3> DEFINE r == PoolAdd(q, t.proof)
        <3>1. t.proof \in Messages
            BY <1>1, <2>2 DEF ThreadStates, Messages
        <3>2. r \in Seq(Messages) /\ Len(q) <= Len(r) /\ (Len(q) < PoolMax => In(r) = In(q) \cup {t.proof})
            BY <1>3, <3>1, PoolAddFacts
        <3>3. Len(r) < PoolMax /\ pool' = r
            BY <1>2, <2>2 DEF RoomToSpare
        <3> HIDE DEF r
        <3>4. Len(r) \in Nat /\ PoolMax \in Nat
            BY <3>2, LimitFacts DEF Limits
        <3> QED BY <1>3, <3>2, <3>3, <3>4
    <2> QED BY <2>1, <2>2
<1>5. \A y \in Threads : y # x => thread'[y] = thread[y]
    BY <1>1, <1>2
<1> SUFFICES ASSUME NEW m \in Evidence \cap stored
             PROVE  m \in In(pool') \/ \E y \in Threads : thread'[y].stage = "relay" /\ m \in {thread'[y].msg, thread'[y].proof}
    BY <1>2 DEF StoredEvidenceIsRelayed
<1>6. m # Nothing /\ m \notin Transfers
    BY MessagesDistinct DEF Evidence
<1>7. CASE m \in In(pool)
    BY <1>3, <1>4, <1>7
<1>8. CASE \E y \in Threads : thread[y].stage = "relay" /\ m \in {thread[y].msg, thread[y].proof}
    <2>1. PICK y \in Threads : thread[y].stage = "relay" /\ m \in {thread[y].msg, thread[y].proof}
        BY <1>8
    <2>2. CASE y = x
        BY <1>1, <1>3, <1>4, <1>6, <2>1, <2>2
    <2>3. CASE y # x
        BY <1>5, <2>1, <2>3
    <2> QED BY <2>2, <2>3
<1> QED BY <1>7, <1>8 DEF StoredEvidenceIsRelayed

\* All the evidence of the store is read back at a start.
LEMMA RestartEvidence ==
    ASSUME Base, RoomToSpare, RoomToSpare', Restart
    PROVE  StoredEvidenceIsRelayed'
<1>1. PICK R \in SUBSET (stored \cap Reports), P \in SUBSET (stored \cap Proofs) :
        /\ R = stored \cap Reports \/ Cardinality(R) = LoadMax
        /\ P = stored \cap Proofs \/ Cardinality(P) = LoadMax
        /\ pool' = Loaded(R, P)
    BY DEF Restart
<1>2. IsFiniteSet(stored) /\ stored \subseteq Messages /\ LoadMax \in Nat
    BY LimitAssumption DEF Base, Rest, Kept
<1>3. ASSUME NEW A, NEW B \in SUBSET A, IsFiniteSet(A), Cardinality(A) <= LoadMax,
             B = A \/ Cardinality(B) = LoadMax
      PROVE  B = A /\ IsFiniteSet(B)
    BY <1>2, <1>3, FS_Subset, FS_CardinalityType
<1>4. IsFiniteSet(stored \cap Reports) /\ IsFiniteSet(stored \cap Proofs)
    BY <1>2, FS_Intersection
<1>5. R = stored \cap Reports /\ IsFiniteSet(R)
    BY <1>1, <1>3, <1>4 DEF RoomToSpare
<1>6. P = stored \cap Proofs /\ IsFiniteSet(P)
    BY <1>1, <1>3, <1>4 DEF RoomToSpare
<1>7. In(pool') = R \cup P
    BY <1>1, <1>2, <1>5, <1>6, LoadedFacts DEF RoomToSpare
<1>8. stored' = stored
    BY DEF Restart
<1> QED BY <1>5, <1>6, <1>7, <1>8 DEF StoredEvidenceIsRelayed, Evidence

LEMMA IngestEvidence ==
    ASSUME Base, StoredEvidenceIsRelayed, RoomToSpare, RoomToSpare', NEW x \in Threads, IngestStep(x)
    PROVE  StoredEvidenceIsRelayed'
<1> DEFINE m == thread[x].msg
<1>1. thread \in [Threads -> ThreadStates]
    BY DEF Base, Hands
<1>2. ASSUME NEW new, thread' = [thread EXCEPT ![x] = new], thread[x].stage # "relay", pool' = pool, stored' = stored
      PROVE  StoredEvidenceIsRelayed'
    BY <1>2, EvidenceMoves
<1>3. ASSUME NEW S, NEW proof, Save(x, S, proof), S \subseteq {m, proof}, thread[x].stage # "relay", pool' = pool
      PROVE  StoredEvidenceIsRelayed'
    <2> DEFINE new == At("relay", m, thread[x].tries, proof)
    <2>1. thread' = [thread EXCEPT ![x] = new] /\ stored' = stored \cup S
        BY <1>3 DEF Save
    <2>2. new.stage = "relay" /\ new.msg = m /\ new.proof = proof
        BY DEF At
    <2> HIDE DEF new
    <2> QED BY <1>3, <2>1, <2>2, EvidenceMoves
<1>4. CASE Reject(x)
    BY <1>2, <1>4 DEF Reject, Ingesting, Release
<1>5. CASE Transient(x)
    BY <1>2, <1>5 DEF Transient, Ingesting, Release
<1>6. CASE IngestTransfer(x)
    <2>1. thread[x].stage # "relay" /\ pool' = pool
        BY <1>6 DEF IngestTransfer
    <2>2. CASE \E p \in Rivals(m) : Keep(x) /\ stored' = stored
        BY <1>2, <2>1, <2>2 DEF Keep, Release
    <2>3. CASE Goto(x, "submit") /\ stored' = stored
        BY <1>2, <2>1, <2>3 DEF Goto
    <2> QED BY <1>3, <1>6, <2>1, <2>2, <2>3 DEF IngestTransfer
<1>7. CASE CommitTransfer(x)
    BY <1>3, <1>7 DEF CommitTransfer
<1>8. CASE IngestProof(x)
    BY <1>2, <1>3, <1>8 DEF IngestProof, Keep, Release
<1>9. CASE IngestReport(x)
    BY <1>3, <1>9 DEF IngestReport
<1>10. CASE Relay(x)
    BY <1>10, RelayEvidence
<1> QED BY <1>4, <1>5, <1>6, <1>7, <1>8, <1>9, <1>10 DEF IngestStep

\* Evidence in the store is in the pool or with the thread that puts it there, across stops
\* (queue_store_result_gossip, the start of database()), as long as the pool has room.
THEOREM EvidenceIsNotLost == Spec /\ []RoomToSpare => []StoredEvidenceIsRelayed
<1>1. Init => StoredEvidenceIsRelayed
    BY DEF Init, StoredEvidenceIsRelayed
<1>2. ASSUME Base, StoredEvidenceIsRelayed, RoomToSpare, RoomToSpare', [Next]_vars
      PROVE  StoredEvidenceIsRelayed'
    <2>1. ASSUME NEW h \in Handlers, HandlerStep(h) \/ \E m \in Messages : Receive(h, m)
          PROVE  StoredEvidenceIsRelayed'
        <3>1. h \in Threads /\ thread[h].stage # "relay" /\ pool' = pool /\ stored' = stored
            BY <2>1 DEF Threads, HandlerStep, Mark, Put, Receive
        <3>2. \E new : thread' = [thread EXCEPT ![h] = new]
            BY <2>1 DEF HandlerStep, Mark, Put, Receive, Goto, Release
        <3> QED BY <1>2, <3>1, <3>2, EvidenceMoves
    <2>2. ASSUME NEW w \in Workers, WorkerStep(w) PROVE StoredEvidenceIsRelayed'
        <3>1. w \in Threads /\ thread[w].stage # "relay" /\ pool' = pool /\ stored' = stored
            BY <2>2 DEF Threads, WorkerStep, Take
        <3>2. \E new : thread' = [thread EXCEPT ![w] = new]
            BY <2>2 DEF WorkerStep, Take, TakeFrom
        <3> QED BY <1>2, <3>1, <3>2, EvidenceMoves
    <2>3. CASE \E x \in Threads : IngestStep(x)
        BY <1>2, <2>3, IngestEvidence
    <2>4. ASSUME NEW m \in Transfers, LookAgain(m) PROVE StoredEvidenceIsRelayed'
        <3>1. Db \in Threads /\ thread[Db].stage # "relay" /\ pool' = pool /\ stored' = stored
            BY <2>4 DEF Threads, LookAgain
        <3>2. \E new : thread' = [thread EXCEPT ![Db] = new]
            BY <2>4 DEF LookAgain
        <3> QED BY <1>2, <3>1, <3>2, EvidenceMoves
    <2>5. CASE \E p \in Proofs : Finalize(p)
        BY <1>2, <2>5 DEF Finalize, StoredEvidenceIsRelayed
    <2>6. CASE Rebroadcast
        BY <1>2, <2>6 DEF Rebroadcast, StoredEvidenceIsRelayed
    <2>7. CASE Restart
        BY <1>2, <2>7, RestartEvidence
    <2>8. CASE UNCHANGED vars
        BY <1>2, <2>8 DEF vars, StoredEvidenceIsRelayed
    <2> QED BY <1>2, <2>1, <2>2, <2>3, <2>4, <2>5, <2>6, <2>7, <2>8 DEF Next
<1> QED BY <1>1, <1>2, Invariance, PTL DEF Spec

==============================================================================
