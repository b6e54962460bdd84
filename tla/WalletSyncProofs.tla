--------------------------- MODULE WalletSyncProofs ---------------------------
(***************************************************************************)
(* For every number of bills and peers, page size and bound: the wallet's  *)
(* sync and signing keep their types, no bill is signed away twice, and a  *)
(* sync that one peer answered has every bill that peer had.               *)
(*                                                                         *)
(* The first argument needs no lines: a bill signed away has a newer row   *)
(* in the store, no step takes a row from the store, and the newest        *)
(* spendable row is looked for again when the transfer is stored.          *)
(*                                                                         *)
(* The second rests on what is due, the rows that were the tips of their   *)
(* bills at the peer when the sync began: a table that changes can only    *)
(* make it less, since a row that settles or is followed takes a time of   *)
(* its own.  Before a page, what is due and not older than the cursor is   *)
(* held; on it, what is due is held, queued, or older than the next        *)
(* cursor.                                                                 *)
(***************************************************************************)
EXTENDS WalletSync, WellFoundedInduction, TLAPS

-----------------------------------------------------------------------------
(* Helpers *)

\* A set of naturals that is not empty has a least element.
LEMMA LeastNatural ==
    ASSUME NEW T, T \subseteq Nat, T # {}
    PROVE  \E x \in T : \A y \in T : x <= y
<1>1. PICK x \in T : \A y \in T : ~(<<y, x>> \in OpToRel(<, Nat))
  BY WFMin, NatLessThanWellFounded, Zenon
<1>2. \A y \in T : ~(y < x)
  BY <1>1 DEF OpToRel
<1> QED
  BY <1>2

\* MaxOf is the greatest element of a set of naturals that is bounded.
LEMMA MaxOfGreatest ==
    ASSUME NEW S, NEW n \in Nat, S \subseteq 0..n, S # {}
    PROVE  MaxOf(S) \in S /\ \A y \in S : y <= MaxOf(S)
<1> DEFINE T == {n - y : y \in S}
<1>1. T \subseteq Nat /\ T # {}
  <2>1. \A y \in S : n - y \in Nat
    OBVIOUS
  <2> QED
    BY <2>1
<1>2. PICK t \in T : \A u \in T : t <= u
  <2> HIDE DEF T
  <2> QED
    BY <1>1, LeastNatural
<1>3. PICK m \in S : t = n - m
  OBVIOUS
<1>4. \A y \in S : y <= m
  <2>1. ASSUME NEW y \in S PROVE y <= m
    <3>1. n - y \in T /\ y \in Int /\ m \in Int
      OBVIOUS
    <3>2. t <= n - y
      BY <1>2, <3>1
    <3> HIDE DEF T
    <3> QED
      BY <1>3, <3>1, <3>2
  <2> QED
    BY <2>1
<1> QED
  BY <1>4 DEF MaxOf

\* It stays within the bound, and zero stands for none.
LEMMA MaxOfBound ==
    ASSUME NEW S, NEW n \in Nat, S \subseteq 0..n
    PROVE  /\ MaxOf(S) \in 0..n
           /\ MaxOf(S) # 0 => MaxOf(S) \in S
<1>1. CASE S = {}
  BY <1>1 DEF MaxOf
<1>2. CASE S # {}
  BY <1>2, MaxOfGreatest
<1> QED
  BY <1>1, <1>2

\* It is the only one that nothing exceeds.
LEMMA MaxOfIs ==
    ASSUME NEW S, NEW n \in Nat, S \subseteq 0..n, NEW x \in S
    PROVE  x = MaxOf(S) <=> \A y \in S : y <= x
<1>1. MaxOf(S) \in S /\ \A y \in S : y <= MaxOf(S)
  BY MaxOfGreatest
<1>2. \A y, z \in S : y <= z /\ z <= y => y = z
  OBVIOUS
<1> QED
  BY <1>1, <1>2

\* A sequence that Latest finds is within the bound of sequences.
LEMMA LatestBound ==
    ASSUME NEW b, NEW statuses
    PROVE  Latest(b, statuses) \in 0..MaxSeq
<1> DEFINE S == {s \in Sequences : Owned(s) /\ store[b][s] \in statuses}
<1>1. S \subseteq 0..MaxSeq
  BY BoundAssumption DEF Sequences
<1> HIDE DEF S
<1>2. MaxOf(S) \in 0..MaxSeq
  BY <1>1, MaxOfBound, BoundAssumption
<1> QED
  BY <1>2 DEF Latest, S

\* The newest row of a bill that is spendable is the one the transfer spends.
LEMMA LatestIsTip ==
    ASSUME NEW b, Spendable(b)
    PROVE  /\ Latest(b, SpendableStatuses) \in Sequences
           /\ ~Superseded(b, Latest(b, SpendableStatuses))
<1> DEFINE S == {s \in Sequences : Owned(s) /\ store[b][s] \in SpendableStatuses}
<1>1. PICK s \in S : ~Superseded(b, s)
  BY DEF Spendable
<1>2. \A x \in S : x \in Nat /\ x \in Sequences /\ store[b][x] # "none"
  BY BoundAssumption DEF Sequences, SpendableStatuses
<1>3. \A x \in S : x <= s
  BY <1>1, <1>2 DEF Superseded
<1> HIDE DEF S
<1>4. \A x \in S : (\A y \in S : y <= x) => x = s
  BY <1>1, <1>2, <1>3
<1>5. MaxOf(S) = s
  BY <1>1, <1>3, <1>4 DEF MaxOf
<1> QED
  BY <1>1, <1>2, <1>5 DEF Latest, S

LEMMA NoSyncType == NoSync \in SyncStates
<1>1. [b \in Bills |-> NoLine] \in LineStates
  BY BoundAssumption DEF NoLine, LineStates
<1>2. [b \in Bills |-> 0] \in [Bills -> 0..MaxSeq]
  BY BoundAssumption
<1>3. 0 \in 0..MaxTime /\ <<>> \in Seq(Records) /\ <<>> \in Seq({"newer", "reconcile"})
  BY BoundAssumption
<1> QED
  BY <1>1, <1>2, <1>3 DEF NoSync, SyncStates

-----------------------------------------------------------------------------
(* Type correctness *)

LEMMA InitType == Init => TypeOK
<1> SUFFICES ASSUME Init PROVE TypeOK
  OBVIOUS
<1>1. sync \in SyncStates
  BY NoSyncType DEF Init, SyncStates
<1>2. lines \in LineStates /\ NoSigning.seen \in LineStates
  BY BoundAssumption DEF Init, NoLine, NoSigning, LineStates
<1>3. signer \in SignerStates
  BY <1>2 DEF Init, NoSigning, SignerStates
<1>4. chain \in [Bills -> Sequences] /\ table \in [Peers -> SUBSET Rows] /\ time \in 0..MaxTime
  BY BoundAssumption DEF Init, Sequences
<1>5. /\ store \in [Bills -> [Sequences -> Statuses]]
      /\ spent \in [Bills -> [Sequences -> 0..2]]
  BY DEF Init, Statuses
<1>6. pause \in BOOLEAN /\ timer \in BOOLEAN
  BY Zenon DEF Init
<1>7. tries \in 0..MaxTries /\ clicks \in 0..MaxClicks
  BY BoundAssumption DEF Init
<1> QED
  BY <1>1, <1>2, <1>3, <1>4, <1>5, <1>6, <1>7 DEF TypeOK

LEMMA WorldType == TypeOK /\ World => TypeOK'
<1> SUFFICES ASSUME TypeOK, World PROVE TypeOK'
  OBVIOUS
<1> USE BoundAssumption
<1>1. ASSUME NEW b \in Bills, Return(b) PROVE TypeOK'
  BY <1>1 DEF Return, TypeOK, Sequences, desktop
<1>2. ASSUME NEW p \in Peers, NEW b \in Bills, NEW status \in {"pending", "settled"},
             PeerLearns(p, b, status)
      PROVE  TypeOK'
  <2>1. [bill |-> b, seq |-> chain[b], status |-> status, at |-> time'] \in Rows
    BY <1>2 DEF PeerLearns, TypeOK, Rows
  <2>2. time' \in 0..MaxTime
    BY <1>2 DEF PeerLearns, TypeOK
  <2>3. table' \in [Peers -> SUBSET Rows]
    BY <1>2, <2>1 DEF PeerLearns, TypeOK
  <2> QED
    BY <1>2, <2>2, <2>3 DEF PeerLearns, TypeOK, desktop
<1>3. ASSUME NEW p \in Peers, NEW row \in table[p], PeerSettles(p, row)
      PROVE  TypeOK'
  <2>1. [row EXCEPT !.status = "settled", !.at = time'] \in Rows
    <3>1. row \in Rows
      BY DEF TypeOK
    <3>2. time' \in 1..MaxTime
      BY <1>3 DEF PeerSettles, TypeOK
    <3> QED
      BY <3>1, <3>2 DEF Rows
  <2>2. time' \in 0..MaxTime
    BY <1>3 DEF PeerSettles, TypeOK
  <2>3. table' \in [Peers -> SUBSET Rows]
    BY <1>3, <2>1 DEF PeerSettles, TypeOK
  <2> QED
    BY <1>3, <2>2, <2>3 DEF PeerSettles, TypeOK, desktop
<1> QED
  BY <1>1, <1>2, <1>3 DEF World

LEMMA SignType == TypeOK /\ Sign => TypeOK'
<1> SUFFICES ASSUME TypeOK, Sign PROVE TypeOK'
  OBVIOUS
<1> USE BoundAssumption
<1>1. CASE SignWrite
  <2>1. signer' \in SignerStates
    BY <1>1 DEF SignWrite, NoSigning, NoLine, LineStates, SignerStates
  <2> QED
    BY <1>1, <2>1 DEF SignWrite, TypeOK, world, desktop, SignerStates
<1>2. ASSUME NEW b \in Bills, SignRead(b) PROVE TypeOK'
  BY <1>2 DEF SignRead, TypeOK, world, desktop, SignerStates
<1>3. ASSUME NEW b \in Bills, SignStore(b) PROVE TypeOK'
  <2> DEFINE seq == Latest(b, SpendableStatuses)
  <2>1. seq \in 0..MaxSeq /\ seq < MaxSeq
    BY <1>3, LatestBound DEF SignStore
  <2> HIDE DEF seq
  <2>2. CASE Spendable(b)
    <3>1. store' = [store EXCEPT ![b][seq + 1] = "verified"]
      BY <1>3, <2>2 DEF SignStore, seq
    <3>2. chain' = [chain EXCEPT ![b] = IF @ <= seq THEN seq + 1 ELSE @]
      BY <1>3, <2>2 DEF SignStore, seq
    <3>3. spent' = [spent EXCEPT ![b][seq] = IF spent[b][seq] = 2 THEN 2 ELSE @ + 1]
      BY <1>3, <2>2 DEF SignStore, seq
    <3>4. signer' = [signer EXCEPT !.stage = "write", !.seen[b] = [mark |-> "sent", seq |-> seq + 1]]
      BY <1>3, <2>2 DEF SignStore, seq
    <3>5. store' \in [Bills -> [Sequences -> Statuses]]
      BY <3>1, <2>1 DEF TypeOK, Sequences, Statuses
    <3>6. chain' \in [Bills -> Sequences]
      BY <3>2, <2>1 DEF TypeOK, Sequences
    <3>7. spent' \in [Bills -> [Sequences -> 0..2]]
      <4>1. seq \in Sequences
        BY <2>2, LatestIsTip DEF seq
      <4>2. spent[b] \in [Sequences -> 0..2] /\ spent[b][seq] \in 0..2
        BY <4>1 DEF TypeOK
      <4> DEFINE n == IF spent[b][seq] = 2 THEN 2 ELSE spent[b][seq] + 1
      <4>3. n \in 0..2
        BY <4>2
      <4>4. [spent[b] EXCEPT ![seq] = n] \in [Sequences -> 0..2]
        BY <4>1, <4>2, <4>3
      <4> QED
        BY <3>3, <4>4 DEF TypeOK
    <3>8. signer' \in SignerStates
      <4>1. [mark |-> "sent", seq |-> seq + 1] \in [mark : {"none", "owned", "sent"}, seq : 0..MaxSeq]
        BY <2>1
      <4>2. [signer.seen EXCEPT ![b] = [mark |-> "sent", seq |-> seq + 1]] \in LineStates
        BY <4>1 DEF TypeOK, LineStates, SignerStates
      <4>3. signer' = [signer EXCEPT !.stage = "write",
                              !.seen = [signer.seen EXCEPT ![b] = [mark |-> "sent", seq |-> seq + 1]]]
        BY <3>4 DEF TypeOK, SignerStates
      <4> QED
        BY <4>2, <4>3 DEF TypeOK, SignerStates
    <3> QED
      BY <1>3, <3>5, <3>6, <3>7, <3>8 DEF SignStore, TypeOK, desktop
  <2>3. CASE ~Spendable(b)
    BY <1>3, <2>3 DEF SignStore, TypeOK, desktop, SignerStates
  <2> QED
    BY <2>2, <2>3
<1> QED
  BY <1>1, <1>2, <1>3 DEF Sign

LEMMA DesktopType == TypeOK /\ (SyncClick \/ TimerFires \/ PauseClick \/ Finish) => TypeOK'
<1> SUFFICES ASSUME TypeOK, SyncClick \/ TimerFires \/ PauseClick \/ Finish PROVE TypeOK'
  OBVIOUS
<1> USE BoundAssumption
<1>1. ASSUME Start PROVE sync' \in SyncStates /\ pause' \in BOOLEAN
  BY <1>1, NoSyncType DEF Start, SyncStates, TypeOK
<1>2. CASE SyncClick
  <2>1. sync' \in SyncStates /\ pause' \in BOOLEAN
    BY <1>2, <1>1 DEF SyncClick
  <2>2. timer' \in BOOLEAN
    BY <1>2, Zenon DEF SyncClick
  <2>3. tries' \in 0..MaxTries /\ clicks' \in 0..MaxClicks
    BY <1>2 DEF SyncClick, TypeOK
  <2> QED
    BY <1>2, <2>1, <2>2, <2>3 DEF SyncClick, TypeOK, world
<1>3. CASE TimerFires
  <2>1. sync' \in SyncStates /\ pause' \in BOOLEAN
    BY <1>3, <1>1 DEF TimerFires
  <2> QED
    BY <1>3, <2>1 DEF TimerFires, TypeOK, world
<1>4. CASE PauseClick
  <2>1. pause' \in BOOLEAN /\ timer' \in BOOLEAN
    BY <1>4, Zenon DEF PauseClick, Running
  <2>2. tries' \in 0..MaxTries /\ clicks' \in 0..MaxClicks
    BY <1>4 DEF PauseClick, TypeOK
  <2> QED
    BY <1>4, <2>1, <2>2 DEF PauseClick, TypeOK, world
<1>5. CASE Finish
  <2>1. tries' \in 0..MaxTries
    BY <1>5 DEF Finish, TypeOK
  <2>2. timer' \in BOOLEAN /\ pause' \in BOOLEAN
    BY <1>5, Zenon DEF Finish, TypeOK
  <2>3. sync' \in SyncStates
    BY <1>5, NoSyncType DEF Finish
  <2> QED
    BY <1>5, <2>1, <2>2, <2>3 DEF Finish, TypeOK, world
<1> QED
  BY <1>2, <1>3, <1>4, <1>5

-----------------------------------------------------------------------------
(* The sync worker *)

\* A worker that reads reports has a direction to read them in.
Directed == sync.stage \in {"request", "reports"} => sync.phases # <<>>

LEMMA TipsBound == Tips \in [Bills -> 0..MaxSeq]
  BY LatestBound, BoundAssumption DEF Tips

LEMMA ImportedType ==
    ASSUME NEW seen \in LineStates, NEW tips \in [Bills -> 0..MaxSeq]
    PROVE  Imported(seen, tips) \in LineStates
  BY DEF Imported, LineStates

LEMMA OverType ==
    ASSUME TypeOK, NEW result \in {"complete", "cancelled", "error"}
    PROVE  Over(result) \in SyncStates
  BY NoSyncType DEF Over, TypeOK, SyncStates

LEMMA RangesType ==
    ASSUME TypeOK
    PROVE  KnownRanges \in [Bills -> 0..MaxSeq]
<1> SUFFICES ASSUME NEW b \in Bills
             PROVE  MaxOf({Tips[b]} \cup (IF sync.seen[b].mark # "none" /\ Spendable(b)
                                          THEN {sync.seen[b].seq} ELSE {})) \in 0..MaxSeq
  BY DEF KnownRanges
<1>1. Tips[b] \in 0..MaxSeq
  BY TipsBound
<1>2. sync.seen[b].seq \in 0..MaxSeq
  BY DEF TypeOK, SyncStates, LineStates
<1> QED
  BY <1>1, <1>2, MaxOfBound, BoundAssumption

\* A page a peer may answer with.
LEMMA PageType ==
    ASSUME TypeOK, NEW p \in Peers, NEW direction, NEW page \in Pages(p, direction)
    PROVE  /\ Len(page) \in 0..PageLimit
           /\ page \in [1..Len(page) -> Rows]
<1>1. PICK n \in 0..PageLimit : page \in [1..n -> Offered(p, direction)]
  BY DEF Pages
<1>2. page \in Seq(Offered(p, direction)) /\ Len(page) = n
  BY <1>1, PageAssumption
<1>3. Offered(p, direction) \subseteq Rows
  BY DEF Offered, TypeOK
<1> QED
  BY <1>1, <1>2, <1>3, PageAssumption

LEMMA SyncStateOf ==
    ASSUME TypeOK, sync' \in SyncStates,
           UNCHANGED <<world, store, lines, signer, desktop, spent>>
    PROVE  TypeOK'
  BY DEF TypeOK, world, desktop

LEMMA HeadTail ==
    ASSUME TypeOK, sync.queue # <<>>
    PROVE  Head(sync.queue) \in Records /\ Tail(sync.queue) \in Seq(Records)
  BY DEF TypeOK, SyncStates

LEMMA WorkerType == TypeOK /\ Directed /\ Worker => TypeOK' /\ Directed'
<1> SUFFICES ASSUME TypeOK, Directed, Worker PROVE TypeOK' /\ Directed'
  OBVIOUS
<1> USE BoundAssumption
<1>1. CASE Cancelled
  <2>1. sync' \in SyncStates /\ sync'.stage = "over"
    BY <1>1, OverType DEF Cancelled, Over, NoSync
  <2> QED
    BY <1>1, <2>1, SyncStateOf DEF Cancelled, Directed, desktop
<1>2. CASE Open
  <2> DEFINE known == [b \in Bills |-> Latest(b, {"settled", "verified"})]
             seen == Imported(lines, Tips)
             phases == IF \E b \in Bills : known[b] > 0 THEN <<"newer", "reconcile">> ELSE <<"reconcile">>
  <2>1. known \in [Bills -> 0..MaxSeq]
    BY LatestBound
  <2>2. seen \in LineStates
    BY TipsBound, ImportedType DEF TypeOK
  <2>3. phases \in Seq({"newer", "reconcile"}) /\ phases # <<>>
    <3>1. <<"newer", "reconcile">> \in Seq({"newer", "reconcile"}) /\ <<"newer", "reconcile">> # <<>>
      OBVIOUS
    <3>2. <<"reconcile">> \in Seq({"newer", "reconcile"}) /\ <<"reconcile">> # <<>>
      OBVIOUS
    <3> QED
      BY <3>1, <3>2, Zenon
  <2>4. /\ sync' = [sync EXCEPT !.stage = "request", !.seen = seen, !.known = known, !.phases = phases]
        /\ lines' = seen
    BY <1>2 DEF Open
  <2> HIDE DEF known, seen, phases
  <2>5. sync' \in SyncStates /\ Directed'
    BY <2>1, <2>2, <2>3, <2>4 DEF TypeOK, SyncStates, Directed
  <2> QED
    BY <1>2, <2>2, <2>4, <2>5 DEF Open, TypeOK, world, desktop
<1>3. ASSUME NEW result \in {"error", "complete"}, Fails(result) PROVE TypeOK' /\ Directed'
  <2>1. sync' \in SyncStates /\ sync'.stage = "over"
    BY <1>3, OverType DEF Fails, Over, NoSync
  <2> QED
    BY <1>3, <2>1, SyncStateOf DEF Fails, Directed, desktop
<1>4. ASSUME NEW start \in 0..MaxTime, Request(start) PROVE TypeOK' /\ Directed'
  <2>1. sync' \in SyncStates
    BY <1>4, RangesType DEF Request, TypeOK, SyncStates
  <2>2. sync'.phases = sync.phases /\ sync.stage = "request"
    BY <1>4 DEF Request, TypeOK, SyncStates
  <2> QED
    BY <1>4, <2>1, <2>2, SyncStateOf DEF Request, Directed, desktop
<1>5. ASSUME NEW p \in Peers, Report(p) PROVE TypeOK' /\ Directed'
  <2>1. PICK page \in Pages(p, Direction) :
          sync' = [sync EXCEPT !.left = @ \ {p},
                               !.queue = [i \in 1..Len(page) |->
                                            [bill |-> page[i].bill, seq |-> page[i].seq, status |-> page[i].status]],
                               !.more = @ \/ (Len(page) >= PageLimit),
                               !.next = IF Len(page) >= PageLimit THEN page[PageLimit].at ELSE @,
                               !.answered = @ \cup {p}]
    BY <1>5 DEF Report
  <2>2. Len(page) \in 0..PageLimit /\ page \in [1..Len(page) -> Rows]
    BY PageType
  <2> DEFINE queue == [i \in 1..Len(page) |->
                         [bill |-> page[i].bill, seq |-> page[i].seq, status |-> page[i].status]]
  <2>3. queue \in Seq(Records)
    <3>1. \A i \in 1..Len(page) :
            [bill |-> page[i].bill, seq |-> page[i].seq, status |-> page[i].status] \in Records
      BY <2>2 DEF Rows, Records
    <3> QED
      BY <2>2, <3>1, PageAssumption
  <2> DEFINE next == IF Len(page) >= PageLimit THEN page[PageLimit].at ELSE sync.next
  <2>4. next \in 0..MaxTime
    <3>1. CASE Len(page) >= PageLimit
      <4>1. page[PageLimit] \in Rows
        BY <2>2, <3>1, PageAssumption
      <4> QED
        BY <3>1, <4>1 DEF Rows
    <3>2. CASE ~(Len(page) >= PageLimit)
      BY <3>2 DEF TypeOK, SyncStates
    <3> QED
      BY <3>1, <3>2
  <2> DEFINE more == sync.more \/ (Len(page) >= PageLimit)
  <2>5. more \in BOOLEAN
    BY DEF TypeOK, SyncStates
  <2>6. sync' = [sync EXCEPT !.left = @ \ {p}, !.queue = queue, !.more = more,
                             !.next = next, !.answered = @ \cup {p}]
    BY <2>1
  <2> HIDE DEF queue, next, more
  <2>7. sync' \in SyncStates
    BY <2>3, <2>4, <2>5, <2>6 DEF TypeOK, SyncStates
  <2>8. sync'.phases = sync.phases /\ sync.stage = "reports"
    BY <1>5, <2>6 DEF Report, TypeOK, SyncStates
  <2> QED
    BY <1>5, <2>7, <2>8, SyncStateOf DEF Report, Directed, desktop
<1>6. ASSUME NEW p \in Peers, PeerFails(p) PROVE TypeOK' /\ Directed'
  <2>1. /\ sync' \in SyncStates
        /\ sync'.phases = sync.phases /\ sync.stage = "reports"
    BY <1>6 DEF PeerFails, TypeOK, SyncStates
  <2> QED
    BY <1>6, <2>1, SyncStateOf DEF PeerFails, Directed, desktop
<1>7. CASE SkipRecord
  <2>1. /\ sync' \in SyncStates
        /\ sync'.phases = sync.phases /\ sync.stage = "reports"
    BY <1>7, HeadTail DEF SkipRecord, TypeOK, SyncStates
  <2> QED
    BY <1>7, <2>1, SyncStateOf DEF SkipRecord, Directed, desktop
<1>8. CASE TakeRecord
  <2> DEFINE r == Head(sync.queue)
  <2>1. r \in Records /\ Tail(sync.queue) \in Seq(Records)
    BY <1>8, HeadTail DEF TakeRecord
  <2>2. /\ store' = [store EXCEPT ![r.bill][r.seq] = Stronger(@, r.status)]
        /\ sync' = [sync EXCEPT !.queue = Tail(@), !.known[r.bill] = r.seq, !.processed = TRUE]
    BY <1>8 DEF TakeRecord
  <2> HIDE DEF r
  <2>3. [sync.known EXCEPT ![r.bill] = r.seq] \in [Bills -> 0..MaxSeq]
    <3>1. sync.known \in [Bills -> 0..MaxSeq]
      BY DEF TypeOK, SyncStates
    <3>2. r.bill \in Bills /\ r.seq \in 0..MaxSeq
      BY <2>1 DEF Records, Sequences
    <3> QED
      BY <3>1, <3>2
  <2>4. sync' = [sync EXCEPT !.queue = Tail(@), !.known = [sync.known EXCEPT ![r.bill] = r.seq],
                             !.processed = TRUE]
    BY <2>2 DEF TypeOK, SyncStates
  <2>5. /\ sync' \in SyncStates
        /\ sync'.phases = sync.phases /\ sync.stage = "reports"
    BY <1>8, <2>1, <2>3, <2>4 DEF TakeRecord, TypeOK, SyncStates
  <2>6. store' \in [Bills -> [Sequences -> Statuses]]
    BY <2>1, <2>2 DEF TypeOK, Records, Stronger, Statuses
  <2> QED
    BY <1>8, <2>5, <2>6 DEF TakeRecord, TypeOK, Directed, world, desktop
<1>9. ASSUME NEW error \in BOOLEAN, RefuseRecord(error) PROVE TypeOK' /\ Directed'
  <2> DEFINE errors == sync.errors \/ error
  <2>1. errors \in BOOLEAN
    OBVIOUS
  <2>2. sync' = [sync EXCEPT !.queue = Tail(@), !.missed = TRUE, !.errors = errors]
    BY <1>9 DEF RefuseRecord
  <2> HIDE DEF errors
  <2>3. /\ sync' \in SyncStates
        /\ sync'.phases = sync.phases /\ sync.stage = "reports"
    BY <1>9, <2>1, <2>2, HeadTail DEF RefuseRecord, TypeOK, SyncStates
  <2> QED
    BY <1>9, <2>3, SyncStateOf DEF RefuseRecord, Directed, desktop
<1>10. CASE EndRound
  <2>1. sync.phases # <<>> /\ sync.phases \in Seq({"newer", "reconcile"})
    BY <1>10 DEF EndRound, Directed, TypeOK, SyncStates
  <2>2. NoSync.ranges \in [Bills -> 0..MaxSeq]
    BY DEF NoSync
  <2>3. CASE sync.more /\ sync.processed
    <3>1. /\ sync' \in SyncStates
          /\ sync'.phases = sync.phases
      BY <1>10, <2>2, <2>3 DEF EndRound, TypeOK, SyncStates
    <3> QED
      BY <1>10, <2>1, <3>1, SyncStateOf DEF EndRound, Directed, desktop
  <2>4. CASE ~(sync.more /\ sync.processed)
    <3> DEFINE stalled == sync.stalled \/ (sync.more /\ Direction = "reconcile")
               stage == IF Len(sync.phases) = 1 THEN "complete" ELSE "request"
               phases == Tail(sync.phases)
    <3>1. stalled \in BOOLEAN /\ phases \in Seq({"newer", "reconcile"})
      BY <2>1
    <3>2. stage = "complete" \/ (stage = "request" /\ phases # <<>>)
      <4>1. CASE Len(sync.phases) = 1
        BY <4>1
      <4>2. CASE Len(sync.phases) # 1
        <5>1. Len(sync.phases) \in Nat /\ Len(sync.phases) # 0
          BY <2>1
        <5>2. Len(phases) = Len(sync.phases) - 1
          BY <2>1
        <5>3. Len(<<>>) = 0
          OBVIOUS
        <5> HIDE DEF phases
        <5>4. phases # <<>>
          <6>1. phases = <<>> => Len(phases) = 0
            BY <5>3, Zenon
          <6> QED
            BY <4>2, <5>1, <5>2, <6>1
        <5> QED
          BY <4>2, <5>4
      <4> QED
        BY <4>1, <4>2
    <3>3. sync' = [sync EXCEPT !.stage = stage, !.phases = phases, !.cursor = 0,
                               !.ranges = NoSync.ranges, !.more = FALSE, !.next = 0,
                               !.processed = FALSE, !.stalled = stalled]
      BY <1>10, <2>4 DEF EndRound
    <3> HIDE DEF stalled, stage, phases
    <3>4. sync' \in SyncStates
      <4>1. 0 \in 0..MaxTime /\ stage \in {"complete", "request"}
        BY <3>2
      <4> QED
        BY <2>2, <3>1, <4>1, <3>3 DEF TypeOK, SyncStates
    <3>5. sync'.stage = stage /\ sync'.phases = phases
      BY <3>3 DEF TypeOK, SyncStates
    <3> QED
      BY <1>10, <3>2, <3>4, <3>5, SyncStateOf DEF EndRound, Directed, desktop
  <2> QED
    BY <2>3, <2>4
<1>11. ASSUME NEW S \in SUBSET Bills, Complete(S) PROVE TypeOK' /\ Directed'
  <2>1. store' \in [Bills -> [Sequences -> Statuses]]
    BY <1>11 DEF Complete, Settled, TypeOK, Statuses
  <2>2. Tips' \in [Bills -> 0..MaxSeq]
    <3>1. ASSUME NEW b \in Bills
          PROVE  Latest(b, {"settled", "verified"})' \in 0..MaxSeq
      <4> DEFINE R == {s \in Sequences : Owned(s) /\ store'[b][s] \in {"settled", "verified"}}
      <4>1. R \subseteq 0..MaxSeq
        BY DEF Sequences
      <4> HIDE DEF R
      <4>2. MaxOf(R) \in 0..MaxSeq
        BY <4>1, MaxOfBound
      <4> QED
        BY <4>2 DEF Latest, R
    <3> QED
      BY <3>1 DEF Tips
  <2>3. Imported(sync.seen, Tips') \in LineStates
    BY <2>2, ImportedType DEF TypeOK, SyncStates
  <2>4. lines' \in LineStates
    BY <1>11, <2>3 DEF Complete, TypeOK
  <2> DEFINE waits == PendingBills(store') # {}
  <2>5. sync' = [Over("complete") EXCEPT !.pending = waits]
    BY <1>11 DEF Complete
  <2>6. sync' \in SyncStates /\ sync'.stage = "over"
    <3>1. waits \in BOOLEAN
      OBVIOUS
    <3> HIDE DEF waits
    <3>2. Over("complete") \in SyncStates /\ Over("complete").stage = "over"
      BY OverType DEF Over, NoSync
    <3> QED
      BY <2>5, <3>1, <3>2 DEF SyncStates
  <2> QED
    BY <1>11, <2>1, <2>4, <2>6 DEF Complete, TypeOK, Directed, world, desktop
<1> QED
  BY <1>1, <1>2, <1>3, <1>4, <1>5, <1>6, <1>7, <1>8, <1>9, <1>10, <1>11 DEF Worker


LEMMA NextType == TypeOK /\ Directed /\ [Next]_vars => TypeOK' /\ Directed'
<1> SUFFICES ASSUME TypeOK, Directed, [Next]_vars PROVE TypeOK' /\ Directed'
  OBVIOUS
<1>1. CASE Worker
  BY <1>1, WorkerType
<1>2. CASE World
  <2>1. sync' = sync
    BY <1>2 DEF World, Return, PeerLearns, PeerSettles
  <2> QED
    BY <1>2, <2>1, WorldType DEF Directed
<1>3. CASE Sign
  <2>1. sync' = sync
    BY <1>3 DEF Sign, SignRead, SignStore, SignWrite
  <2> QED
    BY <1>3, <2>1, SignType DEF Directed
<1>4. CASE SyncClick \/ TimerFires \/ PauseClick \/ Finish
  <2>1. sync' = sync \/ sync' = NoSync \/ sync' = [NoSync EXCEPT !.stage = "open", !.began = time]
    BY <1>4 DEF SyncClick, TimerFires, PauseClick, Finish, Start
  <2>2. NoSync.stage = "off" /\ [NoSync EXCEPT !.stage = "open", !.began = time].stage = "open"
    BY DEF NoSync
  <2>3. Directed'
    BY <2>1, <2>2, Zenon DEF Directed
  <2> QED
    BY <1>4, <2>3, DesktopType
<1>5. CASE UNCHANGED vars
  BY <1>5 DEF vars, TypeOK, Directed, world, desktop
<1> QED
  BY <1>1, <1>2, <1>3, <1>4, <1>5 DEF Next

\* Whatever a peer answers, whenever the user pauses and whoever writes the lines, the
\* state of the wallet and of its sync keeps its type (receive_bills, send_bills).
THEOREM TypeCorrect == Spec => []TypeOK
<1>1. Init => TypeOK /\ Directed
  <2>1. Init => Directed
    BY DEF Init, Directed, NoSync
  <2> QED
    BY <2>1, InitType
<1> QED
  BY <1>1, NextType, PTL DEF Spec

-----------------------------------------------------------------------------
(* No bill is signed away twice *)

\* A bill signed away at a sequence has a newer row in the store.
Marked ==
    \A b \in Bills, s \in Sequences :
        /\ spent[b][s] <= 1
        /\ spent[b][s] = 1 => s + 1 \in Sequences /\ store[b][s + 1] # "none"

\* No step takes a row from the store.
Grows == \A b \in Bills, s \in Sequences : store[b][s] # "none" => store'[b][s] # "none"

\* A step that signs nothing away either.
Keeps == spent' = spent /\ Grows

LEMMA KeepsMarked == Marked /\ Keeps => Marked'
  BY DEF Marked, Keeps, Grows

LEMMA WorkerKeeps == TypeOK /\ Worker => Keeps
<1> SUFFICES ASSUME TypeOK, Worker PROVE Keeps
  OBVIOUS
<1>1. CASE TakeRecord
  <2> DEFINE r == Head(sync.queue)
  <2>1. r \in Records
    BY <1>1, HeadTail DEF TakeRecord
  <2>2. store' = [store EXCEPT ![r.bill][r.seq] = Stronger(@, r.status)] /\ spent' = spent
    BY <1>1 DEF TakeRecord
  <2> HIDE DEF r
  <2>3. r.bill \in Bills /\ r.seq \in Sequences /\ r.status # "none"
    BY <2>1 DEF Records
  <2> QED
    BY <2>2, <2>3 DEF Keeps, Grows, Stronger, TypeOK
<1>2. ASSUME NEW S \in SUBSET Bills, Complete(S) PROVE Keeps
  BY <1>2 DEF Complete, Settled, Keeps, Grows
<1>3. CASE UNCHANGED <<store, spent>>
  BY <1>3 DEF Keeps, Grows
<1> QED
  BY <1>1, <1>2, <1>3 DEF Worker, Cancelled, Fails, Open, Request, Report, PeerFails,
                          SkipRecord, RefuseRecord, EndRound

LEMMA SignMarked == TypeOK /\ Marked /\ Sign => Marked'
<1> SUFFICES ASSUME TypeOK, Marked, Sign PROVE Marked'
  OBVIOUS
<1>1. CASE SignWrite
  BY <1>1, KeepsMarked DEF SignWrite, Keeps, Grows
<1>2. ASSUME NEW b \in Bills, SignRead(b) PROVE Marked'
  BY <1>2, KeepsMarked DEF SignRead, Keeps, Grows
<1>3. ASSUME NEW b \in Bills, SignStore(b) PROVE Marked'
  <2> DEFINE seq == Latest(b, SpendableStatuses)
  <2>1. CASE ~Spendable(b)
    BY <1>3, <2>1, KeepsMarked DEF SignStore, Keeps, Grows
  <2>2. CASE Spendable(b)
    <3>1. /\ store' = [store EXCEPT ![b][seq + 1] = "verified"]
          /\ spent' = [spent EXCEPT ![b][seq] = IF spent[b][seq] = 2 THEN 2 ELSE @ + 1]
          /\ seq < MaxSeq
      BY <1>3, <2>2 DEF SignStore
    <3>2. seq \in Sequences /\ ~Superseded(b, seq)
      BY <2>2, LatestIsTip
    <3> HIDE DEF seq
    <3>3. seq + 1 \in Sequences /\ seq + 1 > seq
      BY <3>1, <3>2, BoundAssumption DEF Sequences
    <3>4. store[b][seq + 1] = "none"
      BY <3>2, <3>3 DEF Superseded
    <3>5. spent[b][seq] = 0
      BY <3>2, <3>4 DEF Marked, TypeOK
    <3>6. spent'[b][seq] = 1
      BY <3>1, <3>2, <3>5 DEF TypeOK
    <3>7. store'[b][seq + 1] # "none"
      BY <3>1, <3>3 DEF TypeOK
    <3>8. \A c \in Bills, s \in Sequences :
            /\ <<c, s>> # <<b, seq>> => spent'[c][s] = spent[c][s]
            /\ store[c][s] # "none" => store'[c][s] # "none"
      BY <3>1 DEF TypeOK
    <3> QED
      BY <3>2, <3>3, <3>6, <3>7, <3>8 DEF Marked
  <2> QED
    BY <2>1, <2>2
<1> QED
  BY <1>1, <1>2, <1>3 DEF Sign

\* SpentOnce: the lines of the wallet may lose the mark of a sent bill, written over by
\* whichever worker ends last, and still commit_prepared_wallet_spend_v3 signs no bill
\* away twice at one sequence.
THEOREM NeverSpentTwice == Spec => []SpentOnce
<1>1. Init => Marked
  BY DEF Init, Marked
<1>2. TypeOK /\ Marked /\ [Next]_vars => Marked'
  <2> SUFFICES ASSUME TypeOK, Marked, [Next]_vars PROVE Marked'
    OBVIOUS
  <2>1. CASE Worker
    BY <2>1, WorkerKeeps, KeepsMarked
  <2>2. CASE Sign
    BY <2>2, SignMarked
  <2>3. CASE World \/ SyncClick \/ TimerFires \/ PauseClick \/ Finish \/ UNCHANGED vars
    <3>1. UNCHANGED <<store, spent>>
      BY <2>3 DEF World, Return, PeerLearns, PeerSettles, SyncClick, TimerFires, PauseClick,
                  Finish, vars
    <3> QED
      BY <3>1, KeepsMarked DEF Keeps, Grows
  <2> QED
    BY <2>1, <2>2, <2>3 DEF Next
<1>3. Marked => SpentOnce
  BY DEF Marked, SpentOnce
<1> QED
  BY <1>1, <1>2, <1>3, TypeCorrect, PTL DEF Spec

-----------------------------------------------------------------------------
(* Pages *)

\* A row is the tip of its bill in a table when no row of the bill there is newer.
LEMMA NewestIs ==
    ASSUME NEW T, T \subseteq Rows, NEW row \in T
    PROVE  row.seq = MaxOf({r.seq : r \in {q \in T : q.bill = row.bill}})
              <=> \A r \in T : r.bill = row.bill => r.seq <= row.seq
<1> DEFINE S == {r.seq : r \in {q \in T : q.bill = row.bill}}
<1>1. S \subseteq 0..MaxSeq
  BY BoundAssumption DEF Rows, Sequences
<1>2. row.seq \in S
  OBVIOUS
<1>3. (\A y \in S : y <= row.seq) <=> \A r \in T : r.bill = row.bill => r.seq <= row.seq
  OBVIOUS
<1> HIDE DEF S
<1>4. row.seq = MaxOf(S) <=> \A y \in S : y <= row.seq
  BY <1>1, <1>2, MaxOfIs, BoundAssumption
<1> QED
  BY <1>3, <1>4 DEF S

\* The store has the bill at this sequence or a later one.
Holds(b, seq) == \E s \in Sequences : s >= seq /\ store[b][s] # "none"

\* What a peer has had for the wallet since the sync began.
Due(p) == {row \in table[p] : /\ Owned(row.seq) /\ row.seq = Tip(p, row.bill)
                              /\ row.at <= sync.began}

\* Times of rows are distinct, and no row is younger than the clock.
Clocks ==
    /\ sync.began <= time
    /\ \A p \in Peers : \A row \in table[p] :
          row.at <= time /\ \A r \in table[p] : r.at = row.at => r = row

\* A line or a known sequence has its row in the store.
Grounded(view) == \A b \in Bills : view[b].mark # "none" => Holds(b, view[b].seq)

Backed ==
    /\ Grounded(lines) /\ Grounded(sync.seen) /\ Grounded(signer.seen)
    /\ \A b \in Bills : /\ sync.known[b] > 0 => Holds(b, sync.known[b])
                        /\ sync.ranges[b] > 0 => Holds(b, sync.ranges[b])

\* A sync starts with nothing asked, and newer rows come before the rest.
Phased ==
    /\ sync.stage = "open" => sync.answered = {} /\ sync.cursor = 0
    /\ sync.stage \in {"request", "reports"} =>
          sync.phases \in {<<"newer", "reconcile">>, <<"reconcile">>}

\* The sync to which the property applies: nobody else answered, nothing was refused.
Alone(p) == sync.answered \subseteq {p} /\ p \notin sync.failed /\ ~sync.missed /\ ~sync.stalled

Reconciles == sync.stage \in {"request", "reports"} /\ Direction = "reconcile"

Queued(row) == \E i \in DOMAIN sync.queue : sync.queue[i].bill = row.bill /\ sync.queue[i].seq >= row.seq

\* Between pages the wallet has all that is not behind the cursor, and all when it is done.
BeforePage(p) ==
    Reconciles /\ (sync.stage = "request" \/ p \in sync.left) =>
        /\ sync.stage = "reports" => ~sync.more
        /\ sync.cursor = 0 \/ \A row \in Due(p) : row.at >= sync.cursor => Holds(row.bill, row.seq)

OnPage(p) ==
    Reconciles /\ sync.stage = "reports" /\ p \notin sync.left =>
        \A row \in Due(p) :
            Holds(row.bill, row.seq) \/ Queued(row) \/ (sync.more /\ row.at < sync.next)

AfterPages(p) ==
    sync.stage = "complete" \/ (sync.stage = "over" /\ sync.result = "complete" /\ p \in sync.answered) =>
        \A row \in Due(p) : Holds(row.bill, row.seq)

Paged == \A p \in Peers : Alone(p) => BeforePage(p) /\ OnPage(p) /\ AfterPages(p)

Inv == TypeOK /\ Directed /\ Clocks /\ Backed /\ Phased /\ Paged

\* What the store has of a bill it keeps.
LEMMA GrowsHolds ==
    ASSUME Grows, NEW b \in Bills, NEW seq, Holds(b, seq)
    PROVE  Holds(b, seq)'
  BY DEF Grows, Holds

\* Rows that were due and held still are.
LEMMA DueHolds ==
    ASSUME TypeOK, Grows, NEW p \in Peers, NEW row \in Due(p), Holds(row.bill, row.seq)
    PROVE  Holds(row.bill, row.seq)'
<1>1. row.bill \in Bills
  BY DEF Due, TypeOK, Rows
<1> QED
  BY <1>1, GrowsHolds

\* A step that leaves the sync alone keeps its pages, as what is due can only get less.
LEMMA CalmPaged ==
    ASSUME TypeOK, Paged, Grows, sync' = sync, \A p \in Peers : Due(p)' \subseteq Due(p)
    PROVE  Paged' /\ Phased' = Phased /\ Directed' = Directed
<1>1. ASSUME NEW p \in Peers, Alone(p)' PROVE BeforePage(p)' /\ OnPage(p)' /\ AfterPages(p)'
  <2>1. Alone(p) /\ BeforePage(p) /\ OnPage(p) /\ AfterPages(p)
    BY <1>1 DEF Alone, Paged
  <2>2. \A row \in Due(p)' : row \in Due(p) /\ (Holds(row.bill, row.seq) => Holds(row.bill, row.seq)')
    BY DueHolds
  <2>3. BeforePage(p)'
    BY <2>1, <2>2 DEF BeforePage, Reconciles, Direction
  <2>4. OnPage(p)'
    BY <2>1, <2>2 DEF OnPage, Reconciles, Direction, Queued
  <2>5. AfterPages(p)'
    BY <2>1, <2>2 DEF AfterPages
  <2> QED
    BY <2>3, <2>4, <2>5
<1> QED
  BY <1>1 DEF Paged, Phased, Directed

LEMMA WorldInv == Inv /\ World => Clocks' /\ Backed' /\ Phased' /\ Paged'
<1> SUFFICES ASSUME Inv, World PROVE Clocks' /\ Backed' /\ Phased' /\ Paged'
  OBVIOUS
<1>1. UNCHANGED <<store, lines, sync, signer>>
  BY DEF World, Return, PeerLearns, PeerSettles
<1>2. Grows
  BY <1>1 DEF Grows
<1>3. Backed'
  BY <1>1 DEF Inv, Backed, Grounded, Holds
<1>4. Clocks' /\ \A p \in Peers : Due(p)' \subseteq Due(p)
  <2>1. CASE UNCHANGED <<table, time>>
    BY <1>1, <2>1 DEF Inv, Clocks, Due, Tip
  <2>2. ASSUME NEW p \in Peers, NEW b \in Bills, NEW status \in {"pending", "settled"},
               PeerLearns(p, b, status)
        PROVE  Clocks' /\ \A q \in Peers : Due(q)' \subseteq Due(q)
    <3> DEFINE new == [bill |-> b, seq |-> chain[b], status |-> status, at |-> time + 1]
    <3>1. /\ time' = time + 1 /\ time \in Nat
          /\ table' = [table EXCEPT ![p] = @ \cup {new}]
      BY <2>2, BoundAssumption DEF PeerLearns, Inv, TypeOK
    <3>2. new.at = time + 1
      OBVIOUS
    <3> HIDE DEF new
    <3>3. \A q \in Peers : table[q] \subseteq table'[q] /\ table'[q] \subseteq table[q] \cup {new}
      BY <3>1 DEF Inv, TypeOK
    <3>4. Clocks'
      <4>1. \A q \in Peers : \A row \in table'[q] : row = new \/ (row \in table[q] /\ row.at <= time /\ row.at \in Nat)
        BY <3>3 DEF Inv, Clocks, TypeOK, Rows
      <4>2. \A q \in Peers : \A row \in table'[q] : row.at <= time + 1 /\ \A r \in table'[q] : r.at = row.at => r = row
        BY <3>1, <3>2, <4>1 DEF Inv, Clocks
      <4>3. sync.began <= time + 1
        BY <3>1 DEF Inv, Clocks, TypeOK, SyncStates
      <4> QED
        BY <1>1, <3>1, <4>2, <4>3 DEF Clocks
    <3>5. ASSUME NEW q \in Peers, NEW row \in Due(q)' PROVE row \in Due(q)
      <4>1. row \in table[q]
        BY <1>1, <3>1, <3>2, <3>3, <3>5 DEF Due, Inv, Clocks, TypeOK, SyncStates
      <4>2. TypeOK'
        BY WorldType DEF Inv
      <4>3. \A r \in table'[q] : r.bill = row.bill => r.seq <= row.seq
        BY <3>5, <4>2, NewestIs DEF Due, Tip, TypeOK
      <4> QED
        BY <1>1, <3>3, <3>5, <4>1, <4>3, NewestIs DEF Due, Tip, Inv, TypeOK
    <3> QED
      BY <3>4, <3>5
  <2>3. ASSUME NEW p \in Peers, NEW old \in table[p], PeerSettles(p, old)
        PROVE  Clocks' /\ \A q \in Peers : Due(q)' \subseteq Due(q)
    <3> DEFINE new == [old EXCEPT !.status = "settled", !.at = time + 1]
    <3>1. /\ time' = time + 1 /\ time \in Nat
          /\ table' = [table EXCEPT ![p] = (@ \ {old}) \cup {new}]
      BY <2>3, BoundAssumption DEF PeerSettles, Inv, TypeOK
    <3>2. new.at = time + 1 /\ new.bill = old.bill /\ new.seq = old.seq
      BY DEF Inv, TypeOK, Rows
    <3> HIDE DEF new
    <3>3. \A q \in Peers : /\ table'[q] \subseteq table[q] \cup {new}
                           /\ \A r \in table[q] : r \in table'[q] \/ (r = old /\ new \in table'[q])
      BY <3>1 DEF Inv, TypeOK
    <3>4. Clocks'
      <4>1. \A q \in Peers : \A row \in table'[q] : row = new \/ (row \in table[q] /\ row.at <= time /\ row.at \in Nat)
        BY <3>3 DEF Inv, Clocks, TypeOK, Rows
      <4>2. \A q \in Peers : \A row \in table'[q] : row.at <= time + 1 /\ \A r \in table'[q] : r.at = row.at => r = row
        BY <3>1, <3>2, <4>1 DEF Inv, Clocks
      <4>3. sync.began <= time + 1
        BY <3>1 DEF Inv, Clocks, TypeOK, SyncStates
      <4> QED
        BY <1>1, <3>1, <4>2, <4>3 DEF Clocks
    <3>5. ASSUME NEW q \in Peers, NEW row \in Due(q)' PROVE row \in Due(q)
      <4>1. row \in table[q]
        BY <1>1, <3>1, <3>2, <3>3, <3>5 DEF Due, Inv, Clocks, TypeOK, SyncStates
      <4>2. TypeOK'
        BY WorldType DEF Inv
      <4>3. \A r \in table'[q] : r.bill = row.bill => r.seq <= row.seq
        BY <3>5, <4>2, NewestIs DEF Due, Tip, TypeOK
      <4>4. \A r \in table[q] : r.bill = row.bill => r.seq <= row.seq
        BY <3>2, <3>3, <4>3
      <4> QED
        BY <1>1, <3>5, <4>1, <4>4, NewestIs DEF Due, Tip, Inv, TypeOK
    <3> QED
      BY <3>4, <3>5
  <2> QED
    BY <2>1, <2>2, <2>3 DEF World, Return
<1> QED
  BY <1>1, <1>2, <1>3, <1>4, CalmPaged DEF Inv

\* The rows behind the latest sequence with one of these statuses.
LEMMA LatestIn ==
    ASSUME NEW rows, NEW statuses,
           NEW n, n = MaxOf({s \in Sequences : Owned(s) /\ rows[s] \in statuses}), n # 0
    PROVE  n \in Sequences /\ rows[n] \in statuses
<1> DEFINE S == {s \in Sequences : Owned(s) /\ rows[s] \in statuses}
<1>1. S \subseteq 0..MaxSeq
  BY BoundAssumption DEF Sequences
<1> HIDE DEF S
<1>2. n \in S
  BY <1>1, MaxOfBound, BoundAssumption DEF S
<1> QED
  BY <1>2 DEF S

\* A settled tip is a row of the store.
LEMMA TipsHold ==
    ASSUME TypeOK, NEW b \in Bills, Tips[b] # 0
    PROVE  Tips[b] \in Sequences /\ Holds(b, Tips[b])
<1>1. Tips[b] = Latest(b, {"settled", "verified"})
  BY DEF Tips
<1>2. Tips[b] \in Sequences /\ store[b][Tips[b]] \in {"settled", "verified"}
  BY <1>1, LatestIn DEF Latest
<1>3. Tips[b] >= Tips[b]
  BY <1>2, BoundAssumption DEF Sequences
<1> QED
  BY <1>2, <1>3 DEF Holds

\* Lines added for settled tips are grounded.
LEMMA ImportedGrounded ==
    ASSUME NEW seen, Grounded(seen),
           NEW tips, \A b \in Bills : tips[b] > 0 => Holds(b, tips[b])
    PROVE  Grounded(Imported(seen, tips))
  BY DEF Grounded, Imported

\* A transfer is a newer row of the store, and its line says so.
LEMMA SignInv == Inv /\ Sign => Clocks' /\ Backed' /\ Phased' /\ Paged'
<1> SUFFICES ASSUME Inv, Sign PROVE Clocks' /\ Backed' /\ Phased' /\ Paged'
  OBVIOUS
<1>1. UNCHANGED <<table, time, sync>>
  BY DEF Sign, SignRead, SignStore, SignWrite, world
<1>2. Clocks' /\ \A p \in Peers : Due(p)' \subseteq Due(p)
  BY <1>1 DEF Inv, Clocks, Due, Tip
<1>3. ASSUME Grows, Grounded(lines)', Grounded(signer.seen)' PROVE Backed'
  BY <1>1, <1>3, GrowsHolds DEF Inv, Backed, Grounded, TypeOK, SyncStates
<1>4. CASE SignWrite
  <2>1. lines' = signer.seen /\ signer'.seen = [b \in Bills |-> NoLine] /\ store' = store
    BY <1>4 DEF SignWrite, NoSigning
  <2>2. Grows /\ Grounded(lines)'
    BY <2>1 DEF Inv, Backed, Grounded, Grows, Holds
  <2>3. Grounded(signer.seen)'
    BY <2>1 DEF Grounded, NoLine
  <2> QED
    BY <1>1, <1>2, <1>3, <2>2, <2>3, CalmPaged DEF Inv
<1>5. ASSUME NEW b \in Bills, SignRead(b) PROVE Clocks' /\ Backed' /\ Phased' /\ Paged'
  <2>1. lines' = lines /\ signer'.seen = lines /\ store' = store
    BY <1>5 DEF SignRead
  <2>2. Grows /\ Grounded(lines)' /\ Grounded(signer.seen)'
    BY <2>1 DEF Inv, Backed, Grounded, Grows, Holds
  <2> QED
    BY <1>1, <1>2, <1>3, <2>2, CalmPaged DEF Inv
<1>6. ASSUME NEW b \in Bills, SignStore(b) PROVE Clocks' /\ Backed' /\ Phased' /\ Paged'
  <2> DEFINE seq == Latest(b, SpendableStatuses)
  <2>1. CASE ~Spendable(b)
    <3>1. lines' = lines /\ signer'.seen = signer.seen /\ store' = store
      BY <1>6, <2>1 DEF SignStore, Inv, TypeOK, SignerStates
    <3>2. Grows /\ Grounded(lines)' /\ Grounded(signer.seen)'
      BY <3>1 DEF Inv, Backed, Grounded, Grows, Holds
    <3> QED
      BY <1>1, <1>2, <1>3, <3>2, CalmPaged DEF Inv
  <2>2. CASE Spendable(b)
    <3>. PICK k : k = seq
      OBVIOUS
    <3>1. /\ store' = [store EXCEPT ![b][k + 1] = "verified"]
          /\ signer'.seen = [signer.seen EXCEPT ![b] = [mark |-> "sent", seq |-> k + 1]]
          /\ lines' = lines /\ k < MaxSeq
      BY <1>6, <2>2 DEF SignStore, Inv, TypeOK, SignerStates
    <3>2. k + 1 \in Sequences /\ k + 1 >= k + 1
      BY <2>2, <3>1, LatestIsTip, BoundAssumption DEF Sequences
    <3> HIDE DEF seq
    <3>3. Grows /\ store'[b][k + 1] = "verified"
      BY <3>1, <3>2 DEF Grows, Inv, TypeOK
    <3>4. Holds(b, k + 1)'
      BY <3>2, <3>3 DEF Holds
    <3>5. signer.seen \in [Bills -> [mark : {"none", "owned", "sent"}, seq : 0..MaxSeq]]
      BY DEF Inv, TypeOK, SignerStates, LineStates
    <3>6. \A c \in Bills : signer'.seen[c] = IF c = b THEN [mark |-> "sent", seq |-> k + 1] ELSE signer.seen[c]
      BY <3>1, <3>5
    <3>7. Grounded(signer.seen)'
      BY <3>3, <3>4, <3>6, GrowsHolds DEF Inv, Backed, Grounded
    <3>8. Grounded(lines)'
      BY <3>1, <3>3, GrowsHolds DEF Inv, Backed, Grounded
    <3> QED
      BY <1>1, <1>2, <1>3, <3>3, <3>7, <3>8, CalmPaged DEF Inv
  <2> QED
    BY <2>1, <2>2
<1> QED
  BY <1>4, <1>5, <1>6 DEF Sign

\* A worker that is off or has just started has asked nothing.
LEMMA FreshInv ==
    ASSUME Inv, UNCHANGED <<world, store, lines, signer>>,
           sync' = NoSync \/ sync' = [NoSync EXCEPT !.stage = "open", !.began = time]
    PROVE  Clocks' /\ Backed' /\ Phased' /\ Paged'
<1>1. /\ sync'.stage \in {"off", "open"} /\ sync'.began \in {0, time} /\ sync'.answered = {} /\ sync'.cursor = 0
      /\ sync'.seen = [b \in Bills |-> NoLine]
      /\ sync'.known = [b \in Bills |-> 0] /\ sync'.ranges = [b \in Bills |-> 0]
  <2>1. CASE sync' = NoSync
    BY <2>1 DEF NoSync
  <2>2. CASE sync' = [NoSync EXCEPT !.stage = "open", !.began = time]
    BY <2>2 DEF NoSync
  <2> QED
    BY <2>1, <2>2
<1>2. sync'.began <= time
  BY <1>1, BoundAssumption DEF Inv, TypeOK
<1>3. Clocks'
  BY <1>1, <1>2 DEF Inv, Clocks, world
<1>4. Backed'
  BY <1>1 DEF Inv, Backed, Grounded, NoLine, Holds
<1>5. Phased' /\ Paged'
  BY <1>1 DEF Phased, Paged, BeforePage, OnPage, AfterPages, Reconciles
<1> QED
  BY <1>3, <1>4, <1>5

LEMMA DesktopInv ==
    Inv /\ (SyncClick \/ TimerFires \/ PauseClick \/ Finish) => Clocks' /\ Backed' /\ Phased' /\ Paged'
<1> SUFFICES ASSUME Inv, SyncClick \/ TimerFires \/ PauseClick \/ Finish
             PROVE  Clocks' /\ Backed' /\ Phased' /\ Paged'
  OBVIOUS
<1>1. UNCHANGED <<world, store, lines, signer>>
  BY DEF SyncClick, TimerFires, PauseClick, Finish
<1>2. CASE PauseClick
  <2>1. sync' = sync /\ Grows
    BY <1>2 DEF PauseClick, Grows
  <2>2. Clocks' /\ Backed' /\ \A p \in Peers : Due(p)' \subseteq Due(p)
    BY <1>1, <2>1 DEF Inv, Clocks, Backed, Grounded, Holds, Due, Tip, world
  <2> QED
    BY <2>1, <2>2, CalmPaged DEF Inv
<1>3. CASE SyncClick \/ TimerFires
  <2>1. sync' = [NoSync EXCEPT !.stage = "open", !.began = time]
    BY <1>3 DEF SyncClick, TimerFires, Start
  <2> QED
    BY <1>1, <2>1, FreshInv
<1>4. CASE Finish
  <2>1. sync' = NoSync
    BY <1>4 DEF Finish
  <2> QED
    BY <1>1, <2>1, FreshInv
<1> QED
  BY <1>2, <1>3, <1>4

-----------------------------------------------------------------------------
(* The sync worker turns pages *)

\* A sync that was cancelled or failed promises nothing.
LEMMA OverInv ==
    ASSUME Inv, UNCHANGED <<world, store, lines, signer>>, NEW result, sync' = Over(result),
           result # "complete" \/ sync.answered = {}
    PROVE  Clocks' /\ Backed' /\ Phased' /\ Paged'
<1>1. /\ sync'.stage = "over" /\ sync'.began = sync.began /\ sync'.answered = sync.answered
      /\ sync'.result = result /\ sync'.seen = [b \in Bills |-> NoLine]
      /\ sync'.known = [b \in Bills |-> 0] /\ sync'.ranges = [b \in Bills |-> 0]
  BY DEF Over, NoSync
<1>2. Clocks'
  BY <1>1 DEF Inv, Clocks, world
<1>3. Backed'
  BY <1>1 DEF Inv, Backed, Grounded, NoLine, Holds
<1>4. Phased' /\ Paged'
  BY <1>1 DEF Phased, Paged, BeforePage, OnPage, AfterPages, Reconciles
<1> QED
  BY <1>2, <1>3, <1>4

\* What a step of the worker leaves alone.
LEMMA SameDue ==
    ASSUME Inv, UNCHANGED world, sync'.began = sync.began
    PROVE  Clocks' /\ \A p \in Peers : Due(p)' = Due(p)
  BY DEF Inv, Clocks, world, Due, Tip

\* The fields that the pages depend on.
LEMMA StoreSame ==
    ASSUME Inv, UNCHANGED <<store, lines, signer>>,
           sync'.seen = sync.seen, sync'.known = sync.known,
           \/ sync'.ranges = sync.ranges
           \/ \A b \in Bills : sync'.ranges[b] > 0 => Holds(b, sync'.ranges[b])
    PROVE  Backed' /\ \A b \in Bills, n \in Sequences : Holds(b, n)' = Holds(b, n)
  BY DEF Inv, Backed, Grounded, Holds

LEMMA OpenInv == Inv /\ Open => Clocks' /\ Backed' /\ Phased' /\ Paged'
<1> SUFFICES ASSUME Inv, Open PROVE Clocks' /\ Backed' /\ Phased' /\ Paged'
  OBVIOUS
<1> DEFINE known == [b \in Bills |-> Latest(b, {"settled", "verified"})]
           seen == Imported(lines, Tips)
<1>1. /\ sync' = [sync EXCEPT !.stage = "request", !.seen = seen, !.known = known,
                      !.phases = IF \E b \in Bills : known[b] > 0 THEN <<"newer", "reconcile">>
                                                                  ELSE <<"reconcile">>]
      /\ lines' = seen /\ UNCHANGED <<world, store, signer>> /\ sync.stage = "open"
  BY DEF Open
<1>2. \A b \in Bills : known[b] > 0 => Holds(b, known[b])
  <2>1. ASSUME NEW b \in Bills, known[b] > 0 PROVE Holds(b, known[b])
    <3>1. known[b] = Latest(b, {"settled", "verified"}) /\ known[b] # 0
      BY <2>1
    <3>2. known[b] \in Sequences /\ store[b][known[b]] \in {"settled", "verified"}
      BY <3>1, LatestIn DEF Latest
    <3>3. known[b] >= known[b]
      BY <3>2, BoundAssumption DEF Sequences
    <3> QED
      BY <3>2, <3>3 DEF Holds
  <2> QED
    BY <2>1
<1>3. Grounded(seen)
  <2>1. \A b \in Bills : Tips[b] > 0 => Holds(b, Tips[b])
    BY TipsHold DEF Inv
  <2> QED
    BY <2>1, ImportedGrounded DEF Inv, Backed
<1> HIDE DEF known, seen
<1>4. /\ sync'.stage = "request" /\ sync'.seen = seen /\ sync'.known = known
      /\ sync'.phases \in {<<"newer", "reconcile">>, <<"reconcile">>}
      /\ sync'.cursor = sync.cursor /\ sync'.ranges = sync.ranges /\ sync'.began = sync.began
  BY <1>1 DEF Inv, TypeOK, SyncStates
<1>5. Clocks'
  BY <1>1, <1>4, SameDue
<1>6. Backed'
  BY <1>1, <1>2, <1>3, <1>4 DEF Inv, Backed, Grounded, Holds
<1>7. Phased' /\ Paged'
  BY <1>1, <1>4 DEF Inv, Phased, Paged, BeforePage, OnPage, AfterPages, Reconciles
<1> QED
  BY <1>5, <1>6, <1>7

\* The ranges sent to a peer are in the store.
LEMMA RangesHold ==
    ASSUME Inv, NEW b \in Bills, KnownRanges[b] > 0
    PROVE  Holds(b, KnownRanges[b])
<1> DEFINE S == {Tips[b]} \cup (IF sync.seen[b].mark # "none" /\ Spendable(b) THEN {sync.seen[b].seq} ELSE {})
<1>1. KnownRanges[b] = MaxOf(S)
  BY DEF KnownRanges
<1>2. S \subseteq 0..MaxSeq
  BY TipsBound DEF Inv, TypeOK, SyncStates, LineStates
<1>3. MaxOf(S) # 0
  BY <1>1
<1>4. MaxOf(S) \in S
  <2> HIDE DEF S
  <2> QED
    BY <1>2, <1>3, MaxOfBound, BoundAssumption
<1>5. CASE KnownRanges[b] = Tips[b]
  BY <1>1, <1>3, <1>5, TipsHold DEF Inv
<1>6. CASE sync.seen[b].mark # "none" /\ KnownRanges[b] = sync.seen[b].seq
  BY <1>6 DEF Inv, Backed, Grounded
<1> QED
  BY <1>1, <1>4, <1>5, <1>6

LEMMA RequestInv ==
    ASSUME Inv, NEW start \in 0..MaxTime, Request(start)
    PROVE  Clocks' /\ Backed' /\ Phased' /\ Paged'
<1>1. UNCHANGED <<world, store, lines, signer>> /\ sync.stage = "request"
  BY DEF Request
<1>2. /\ sync'.stage = "reports" /\ sync'.left = Peers /\ sync'.ranges = KnownRanges /\ ~sync'.more
      /\ sync'.phases = sync.phases /\ sync'.seen = sync.seen /\ sync'.known = sync.known
      /\ sync'.began = sync.began /\ sync'.answered = sync.answered /\ sync'.failed = sync.failed
      /\ sync'.missed = sync.missed /\ sync'.stalled = sync.stalled
      /\ Direction # "newer" => sync'.cursor = sync.cursor
  BY DEF Request, Inv, TypeOK, SyncStates
<1>3. Clocks' /\ \A p \in Peers : Due(p)' = Due(p)
  BY <1>1, <1>2, SameDue
<1>4. \A b \in Bills : sync'.ranges[b] > 0 => Holds(b, sync'.ranges[b])
  BY <1>2, RangesHold
<1>5. Backed' /\ Grows
  BY <1>1, <1>2, <1>4, StoreSame DEF Grows
<1>6. Phased'
  BY <1>1, <1>2 DEF Inv, Phased
<1>7. ASSUME NEW p \in Peers, Alone(p)' PROVE BeforePage(p)' /\ OnPage(p)' /\ AfterPages(p)'
  <2>1. BeforePage(p)
    BY <1>2, <1>7 DEF Inv, Paged, Alone
  <2>2. \A row \in Due(p)' : row \in Due(p) /\ (Holds(row.bill, row.seq) => Holds(row.bill, row.seq)')
    BY <1>3, <1>5, DueHolds DEF Inv
  <2>3. BeforePage(p)'
    BY <1>1, <1>2, <2>1, <2>2 DEF BeforePage, Reconciles, Direction
  <2> QED
    BY <1>2, <2>3 DEF OnPage, AfterPages
<1> QED
  BY <1>3, <1>5, <1>6, <1>7 DEF Paged

\* A page ends with its oldest row: what was due and is not on it is older, or was held
\* before.
LEMMA PageHolds ==
    ASSUME Inv, NEW p \in Peers, sync.stage = "reports", Direction = "reconcile", BeforePage(p), p \in sync.left,
           NEW page \in Pages(p, "reconcile"), NEW row \in Due(p)
    PROVE  \/ Holds(row.bill, row.seq)
           \/ \E i \in 1..Len(page) : page[i] = row
           \/ Len(page) >= PageLimit /\ row.at < page[PageLimit].at
<1>1. Len(page) \in 0..PageLimit /\ page \in [1..Len(page) -> Rows]
  BY PageType DEF Inv
<1>2. PICK n \in 0..PageLimit : page \in [1..n -> Offered(p, "reconcile")]
  BY DEF Pages
<1>3. /\ Len(page) = PageLimit \/ \A r \in Offered(p, "reconcile") : \E i \in DOMAIN page : page[i] = r
      /\ \A i \in DOMAIN page, r \in Offered(p, "reconcile") :
            Before(r, page[i], "reconcile") <=> \E j \in 1..(i - 1) : page[j] = r
  BY DEF Pages
<1>4. DOMAIN page = 1..Len(page)
  BY <1>1
<1>5. row \in table[p] /\ row.bill \in Bills /\ row.seq \in Sequences /\ row.at \in 1..MaxTime
  BY DEF Due, Inv, TypeOK, Rows
<1>6. CASE row \notin Offered(p, "reconcile")
  <2>1. row.seq <= sync.ranges[row.bill] \/ (sync.cursor # 0 /\ row.at >= sync.cursor)
    BY <1>5, <1>6, BoundAssumption DEF Offered, Due, Inv, TypeOK, SyncStates, Sequences
  <2>2. CASE row.seq <= sync.ranges[row.bill]
    <3>1. sync.ranges[row.bill] \in 0..MaxSeq /\ row.seq > 0
      BY <1>5 DEF Inv, TypeOK, SyncStates, Sequences
    <3>2. Holds(row.bill, sync.ranges[row.bill])
      BY <1>5, <2>2, <3>1, BoundAssumption DEF Inv, Backed, Sequences
    <3> QED
      BY <1>5, <2>2, <3>1, <3>2, BoundAssumption DEF Holds, Sequences
  <2>3. CASE sync.cursor # 0 /\ row.at >= sync.cursor
    BY <2>3 DEF BeforePage, Reconciles
  <2> QED
    BY <2>1, <2>2, <2>3
<1>7. CASE row \in Offered(p, "reconcile") /\ Len(page) = PageLimit
  <2>1. PageLimit \in DOMAIN page /\ page[PageLimit] \in Offered(p, "reconcile")
    BY <1>1, <1>2, <1>4, <1>7, PageAssumption
  <2>2. page[PageLimit] \in table[p] /\ page[PageLimit].at \in 1..MaxTime
    BY <2>1 DEF Offered, Inv, TypeOK, Rows
  <2>3. CASE row.at > page[PageLimit].at
    <3>1. \E j \in 1..(PageLimit - 1) : page[j] = row
      BY <1>3, <1>7, <2>1, <2>3 DEF Before
    <3> QED
      BY <1>7, <3>1, PageAssumption
  <2>4. CASE row.at = page[PageLimit].at
    <3>1. row = page[PageLimit]
      BY <1>5, <2>2, <2>4 DEF Inv, Clocks
    <3> QED
      BY <1>4, <2>1, <3>1
  <2> QED
    BY <1>5, <1>7, <2>2, <2>3, <2>4, PageAssumption
<1>8. CASE row \in Offered(p, "reconcile") /\ Len(page) # PageLimit
  BY <1>3, <1>4, <1>8
<1> QED
  BY <1>6, <1>7, <1>8

LEMMA ReportInv ==
    ASSUME Inv, NEW p \in Peers, Report(p)
    PROVE  Clocks' /\ Backed' /\ Phased' /\ Paged'
<1> DEFINE full(page) == Len(page) >= PageLimit
           records(page) == [i \in 1..Len(page) |->
                               [bill |-> page[i].bill, seq |-> page[i].seq, status |-> page[i].status]]
<1>1. PICK page \in Pages(p, Direction) :
        sync' = [sync EXCEPT !.left = @ \ {p}, !.queue = records(page), !.more = @ \/ full(page),
                             !.next = IF full(page) THEN page[PageLimit].at ELSE @,
                             !.answered = @ \cup {p}]
  BY DEF Report
<1>2. UNCHANGED <<world, store, lines, signer>> /\ sync.stage = "reports" /\ p \in sync.left
  BY DEF Report
<1> HIDE DEF records
<1>3. /\ sync'.left = sync.left \ {p} /\ sync'.queue = records(page)
      /\ sync'.more = (sync.more \/ full(page))
      /\ full(page) => sync'.next = page[PageLimit].at
      /\ sync'.answered = sync.answered \cup {p}
      /\ sync'.stage = sync.stage /\ sync'.phases = sync.phases /\ sync'.cursor = sync.cursor
      /\ sync'.seen = sync.seen /\ sync'.known = sync.known /\ sync'.ranges = sync.ranges
      /\ sync'.began = sync.began /\ sync'.failed = sync.failed
      /\ sync'.missed = sync.missed /\ sync'.stalled = sync.stalled
  BY <1>1 DEF Inv, TypeOK, SyncStates
<1>4. Clocks' /\ \A q \in Peers : Due(q)' = Due(q)
  BY <1>2, <1>3, SameDue
<1>5. Backed' /\ Grows
  BY <1>2, <1>3, StoreSame DEF Grows
<1>6. Phased'
  BY <1>2, <1>3 DEF Inv, Phased
<1>7. ASSUME NEW q \in Peers, Alone(q)' PROVE BeforePage(q)' /\ OnPage(q)' /\ AfterPages(q)'
  <2>1. q = p
    BY <1>3, <1>7 DEF Alone
  <2>2. Alone(p) /\ BeforePage(p)
    BY <1>2, <1>3, <1>7, <2>1 DEF Inv, Paged, Alone
  <2>3. BeforePage(q)' /\ AfterPages(q)'
    BY <1>2, <1>3, <2>1 DEF BeforePage, AfterPages, Reconciles
  <2>4. ASSUME Direction = "reconcile", NEW row \in Due(p)
        PROVE  Holds(row.bill, row.seq)' \/ Queued(row)' \/ (sync'.more /\ row.at < sync'.next)
    <3>1. CASE Holds(row.bill, row.seq)
      BY <1>5, <3>1, DueHolds DEF Inv
    <3>2. ASSUME NEW i \in 1..Len(page), page[i] = row PROVE Queued(row)'
      <4>1. Len(page) \in Nat
        BY PageType DEF Inv
      <4>2. records(page)[i].bill = row.bill /\ records(page)[i].seq = row.seq /\ i \in DOMAIN records(page)
        BY <3>2, <4>1 DEF records
      <4>3. row.seq \in Sequences
        BY DEF Due, Inv, TypeOK, Rows
      <4> QED
        BY <1>3, <4>2, <4>3, BoundAssumption DEF Queued, Sequences
    <3>3. CASE full(page) /\ row.at < page[PageLimit].at
      BY <1>3, <3>3
    <3> QED
      BY <1>2, <2>2, <2>4, <3>1, <3>2, <3>3, PageHolds
  <2>5. OnPage(q)'
    BY <1>3, <1>4, <2>1, <2>4 DEF OnPage, Reconciles, Direction
  <2> QED
    BY <2>3, <2>5
<1> QED
  BY <1>4, <1>5, <1>6, <1>7 DEF Paged

LEMMA PeerFailsInv ==
    ASSUME Inv, NEW p \in Peers, PeerFails(p)
    PROVE  Clocks' /\ Backed' /\ Phased' /\ Paged'
<1>1. UNCHANGED <<world, store, lines, signer>> /\ sync.stage = "reports"
  BY DEF PeerFails
<1>2. /\ sync'.left = sync.left \ {p} /\ sync'.failed = sync.failed \cup {p}
      /\ sync'.queue = sync.queue /\ sync'.more = sync.more /\ sync'.next = sync.next
      /\ sync'.answered = sync.answered
      /\ sync'.stage = sync.stage /\ sync'.phases = sync.phases /\ sync'.cursor = sync.cursor
      /\ sync'.seen = sync.seen /\ sync'.known = sync.known /\ sync'.ranges = sync.ranges
      /\ sync'.began = sync.began /\ sync'.missed = sync.missed /\ sync'.stalled = sync.stalled
  BY DEF PeerFails, Inv, TypeOK, SyncStates
<1>3. Clocks' /\ \A q \in Peers : Due(q)' = Due(q)
  BY <1>1, <1>2, SameDue
<1>4. Backed' /\ Grows
  BY <1>1, <1>2, StoreSame DEF Grows
<1>5. Phased'
  BY <1>1, <1>2 DEF Inv, Phased
<1>6. ASSUME NEW q \in Peers, Alone(q)' PROVE BeforePage(q)' /\ OnPage(q)' /\ AfterPages(q)'
  <2>1. q # p /\ Alone(q) /\ (q \in sync'.left <=> q \in sync.left)
    BY <1>2, <1>6 DEF Alone
  <2>2. BeforePage(q) /\ OnPage(q)
    BY <2>1 DEF Inv, Paged
  <2>3. \A row \in Due(q)' : row \in Due(q) /\ (Holds(row.bill, row.seq) => Holds(row.bill, row.seq)')
    BY <1>3, <1>4, DueHolds DEF Inv
  <2>4. BeforePage(q)'
    BY <1>2, <2>1, <2>2, <2>3 DEF BeforePage, Reconciles, Direction
  <2>5. OnPage(q)'
    BY <1>2, <2>1, <2>2, <2>3 DEF OnPage, Reconciles, Direction, Queued
  <2>6. AfterPages(q)'
    BY <1>1, <1>2 DEF AfterPages
  <2> QED
    BY <2>4, <2>5, <2>6
<1> QED
  BY <1>3, <1>4, <1>5, <1>6 DEF Paged

\* A record that is taken out of the queue has its row in the store by then.
LEMMA QueuePaged ==
    ASSUME Inv, sync.stage = "reports", sync.queue # <<>>, Grows, world' = world,
           sync'.queue = Tail(sync.queue), NEW r, r = Head(sync.queue), Holds(r.bill, r.seq)',
           sync'.left = sync.left, sync'.more = sync.more, sync'.next = sync.next,
           sync'.stage = sync.stage, sync'.phases = sync.phases, sync'.cursor = sync.cursor,
           sync'.began = sync.began, sync'.answered = sync.answered, sync'.failed = sync.failed,
           sync'.missed = sync.missed, sync'.stalled = sync.stalled
    PROVE  Clocks' /\ Phased' /\ Paged'
<1>1. Clocks' /\ \A p \in Peers : Due(p)' = Due(p)
  BY SameDue
<1>2. Phased'
  BY DEF Inv, Phased
<1>3. ASSUME NEW p \in Peers, Alone(p)' PROVE BeforePage(p)' /\ OnPage(p)' /\ AfterPages(p)'
  <2>1. BeforePage(p) /\ OnPage(p)
    BY <1>3 DEF Inv, Paged, Alone
  <2>2. \A row \in Due(p)' : row \in Due(p) /\ (Holds(row.bill, row.seq) => Holds(row.bill, row.seq)')
    BY <1>1, DueHolds DEF Inv
  <2>3. BeforePage(p)'
    BY <2>1, <2>2 DEF BeforePage, Reconciles, Direction
  <2>4. ASSUME NEW row \in Due(p)', Queued(row) PROVE Holds(row.bill, row.seq)' \/ Queued(row)'
    <3> DEFINE q == sync.queue
    <3>1. q \in Seq(Records) /\ Len(q) \in Nat /\ Len(q) > 0
      BY DEF Inv, TypeOK, SyncStates
    <3>2. PICK i \in 1..Len(q) : q[i].bill = row.bill /\ q[i].seq >= row.seq
      BY <2>4, <3>1 DEF Queued
    <3>3. CASE i = 1
      <4>1. r = q[1] /\ q[1] \in Records
        BY <3>1
      <4>2. row.seq \in Sequences
        BY <1>1, <2>4 DEF Due, Inv, TypeOK, Rows
      <4>3. PICK s \in Sequences : s >= q[1].seq /\ store'[row.bill][s] # "none"
        BY <3>2, <3>3, <4>1 DEF Holds
      <4>4. s >= row.seq
        <5>1. q[1].seq \in Int /\ s \in Int /\ row.seq \in Int
          BY <4>1, <4>2, BoundAssumption DEF Records, Sequences
        <5> QED
          BY <3>2, <3>3, <4>3, <5>1
      <4> QED
        BY <4>3, <4>4 DEF Holds
    <3>4. CASE i # 1
      <4>1. i - 1 \in 1..Len(Tail(q)) /\ Tail(q)[i - 1] = q[i] /\ DOMAIN Tail(q) = 1..Len(Tail(q))
        <5>1. Len(Tail(q)) = Len(q) - 1 /\ \A j \in 1..(Len(q) - 1) : Tail(q)[j] = q[j + 1]
          BY <3>1
        <5>2. i - 1 \in 1..(Len(q) - 1) /\ (i - 1) + 1 = i
          BY <3>1, <3>4
        <5>3. Tail(q) \in Seq(Records)
          BY <3>1
        <5> HIDE DEF q
        <5> QED
          BY <5>1, <5>2, <5>3
      <4> QED
        BY <3>2, <4>1 DEF Queued
    <3> QED
      BY <3>3, <3>4
  <2>5. OnPage(p)'
    BY <2>1, <2>2, <2>4 DEF OnPage, Reconciles, Direction
  <2>6. AfterPages(p)'
    BY DEF AfterPages
  <2> QED
    BY <2>3, <2>5, <2>6
<1> QED
  BY <1>1, <1>2, <1>3 DEF Paged

LEMMA SkipInv == Inv /\ SkipRecord => Clocks' /\ Backed' /\ Phased' /\ Paged'
<1> SUFFICES ASSUME Inv, SkipRecord PROVE Clocks' /\ Backed' /\ Phased' /\ Paged'
  OBVIOUS
<1> PICK r : r = Head(sync.queue)
  OBVIOUS
<1>1. /\ UNCHANGED <<world, store, lines, signer>> /\ sync.stage = "reports" /\ sync.queue # <<>>
      /\ sync.known[r.bill] >= r.seq
  BY DEF SkipRecord
<1>2. /\ sync'.queue = Tail(sync.queue)
      /\ sync'.left = sync.left /\ sync'.more = sync.more /\ sync'.next = sync.next
      /\ sync'.stage = sync.stage /\ sync'.phases = sync.phases /\ sync'.cursor = sync.cursor
      /\ sync'.began = sync.began /\ sync'.answered = sync.answered /\ sync'.failed = sync.failed
      /\ sync'.missed = sync.missed /\ sync'.stalled = sync.stalled
      /\ sync'.seen = sync.seen /\ sync'.known = sync.known /\ sync'.ranges = sync.ranges
  BY DEF SkipRecord, Inv, TypeOK, SyncStates
<1>3. Backed' /\ Grows
  BY <1>1, <1>2, StoreSame DEF Grows
<1>4. Holds(r.bill, r.seq)
  <2>1. r.bill \in Bills /\ r.seq \in 1..MaxSeq
    BY <1>1, HeadTail DEF Inv, Records, Sequences
  <2>2. sync.known[r.bill] \in 0..MaxSeq
    BY <2>1 DEF Inv, TypeOK, SyncStates
  <2>3. PICK s \in Sequences : s >= sync.known[r.bill] /\ store[r.bill][s] # "none"
    BY <1>1, <2>1, <2>2, BoundAssumption DEF Inv, Backed, Holds
  <2>4. s >= r.seq
    BY <1>1, <2>1, <2>2, <2>3, BoundAssumption DEF Sequences
  <2> QED
    BY <2>3, <2>4 DEF Holds
<1>5. Holds(r.bill, r.seq)'
  BY <1>1, <1>4 DEF Holds
<1> QED
  BY <1>1, <1>2, <1>3, <1>5, QueuePaged

LEMMA TakeInv == Inv /\ TakeRecord => Clocks' /\ Backed' /\ Phased' /\ Paged'
<1> SUFFICES ASSUME Inv, TakeRecord PROVE Clocks' /\ Backed' /\ Phased' /\ Paged'
  OBVIOUS
<1> PICK r : r = Head(sync.queue)
  OBVIOUS
<1>1. /\ UNCHANGED <<world, lines, signer>> /\ sync.stage = "reports" /\ sync.queue # <<>>
      /\ store' = [store EXCEPT ![r.bill][r.seq] = Stronger(store[r.bill][r.seq], r.status)]
  BY DEF TakeRecord
<1>2. r \in Records /\ r.bill \in Bills /\ r.seq \in Sequences /\ r.status \in {"pending", "settled"}
  BY <1>1, HeadTail DEF Inv, Records
<1>3. /\ sync'.queue = Tail(sync.queue) /\ sync'.known = [sync.known EXCEPT ![r.bill] = r.seq]
      /\ sync'.left = sync.left /\ sync'.more = sync.more /\ sync'.next = sync.next
      /\ sync'.stage = sync.stage /\ sync'.phases = sync.phases /\ sync'.cursor = sync.cursor
      /\ sync'.began = sync.began /\ sync'.answered = sync.answered /\ sync'.failed = sync.failed
      /\ sync'.missed = sync.missed /\ sync'.stalled = sync.stalled
      /\ sync'.seen = sync.seen /\ sync'.ranges = sync.ranges
  BY DEF TakeRecord, Inv, TypeOK, SyncStates
<1>4. Grows
  BY <1>1, <1>2 DEF Grows, Stronger, Inv, TypeOK
<1>5. store'[r.bill][r.seq] # "none"
  BY <1>1, <1>2 DEF Stronger, Inv, TypeOK
<1>6. Holds(r.bill, r.seq)'
  <2>1. r.seq >= r.seq
    BY <1>2, BoundAssumption DEF Sequences
  <2> QED
    BY <1>2, <1>5, <2>1 DEF Holds
<1>7. \A b \in Bills : sync'.known[b] = IF b = r.bill THEN r.seq ELSE sync.known[b]
  BY <1>2, <1>3 DEF Inv, TypeOK, SyncStates
<1>8. Backed'
  BY <1>1, <1>3, <1>4, <1>6, <1>7, GrowsHolds DEF Inv, Backed, Grounded
<1> QED
  BY <1>1, <1>3, <1>4, <1>6, <1>8, QueuePaged

\* A refused record is one the property does not speak of.
LEMMA RefuseInv ==
    ASSUME Inv, NEW error \in BOOLEAN, RefuseRecord(error)
    PROVE  Clocks' /\ Backed' /\ Phased' /\ Paged'
<1>1. UNCHANGED <<world, store, lines, signer>> /\ sync.stage = "reports"
  BY DEF RefuseRecord
<1>2. /\ sync'.missed = TRUE /\ sync'.began = sync.began
      /\ sync'.stage = sync.stage /\ sync'.phases = sync.phases
      /\ sync'.seen = sync.seen /\ sync'.known = sync.known /\ sync'.ranges = sync.ranges
  BY DEF RefuseRecord, Inv, TypeOK, SyncStates
<1>3. Clocks' /\ Backed'
  BY <1>1, <1>2, SameDue, StoreSame
<1>4. Phased' /\ Paged'
  BY <1>1, <1>2 DEF Inv, Phased, Paged, Alone
<1> QED
  BY <1>3, <1>4

\* A round ends with every report in and its queue empty: what is due is held, but for
\* what lies behind the next cursor.
LEMMA EndRoundInv == Inv /\ EndRound => Clocks' /\ Backed' /\ Phased' /\ Paged'
<1> SUFFICES ASSUME Inv, EndRound PROVE Clocks' /\ Backed' /\ Phased' /\ Paged'
  OBVIOUS
<1>1. /\ UNCHANGED <<world, store, lines, signer>>
      /\ sync.stage = "reports" /\ sync.queue = <<>> /\ sync.left = {}
  BY DEF EndRound
<1>2. /\ sync'.ranges = [b \in Bills |-> 0] /\ sync'.seen = sync.seen /\ sync'.known = sync.known
      /\ sync'.began = sync.began /\ sync'.answered = sync.answered /\ sync'.failed = sync.failed
      /\ sync'.missed = sync.missed /\ (sync'.stalled = FALSE => sync.stalled = FALSE)
      /\ sync'.stage \in {"request", "complete"}
  BY DEF EndRound, NoSync, Inv, TypeOK, SyncStates
<1>3. Clocks' /\ \A p \in Peers : Due(p)' = Due(p)
  BY <1>1, <1>2, SameDue
<1>4. Backed' /\ Grows
  <2>1. \A b \in Bills : sync'.ranges[b] > 0 => Holds(b, sync'.ranges[b])
    BY <1>2
  <2> QED
    BY <1>1, <1>2, <2>1, StoreSame DEF Grows
<1>5. sync.phases \in {<<"newer", "reconcile">>, <<"reconcile">>}
  BY <1>1 DEF Inv, Phased
<1>6. CASE sync.more /\ sync.processed
  <2>1. sync'.stage = "request" /\ sync'.phases = sync.phases /\ sync'.cursor = sync.next
    BY <1>6 DEF EndRound, Inv, TypeOK, SyncStates
  <2>2. ASSUME NEW p \in Peers, Alone(p)' PROVE BeforePage(p)' /\ OnPage(p)' /\ AfterPages(p)'
    <3>1. OnPage(p)
      BY <1>2, <2>2 DEF Inv, Paged, Alone, TypeOK, SyncStates
    <3>2. \A row \in Due(p)' : row \in Due(p) /\ (Holds(row.bill, row.seq) => Holds(row.bill, row.seq)')
      BY <1>3, <1>4, DueHolds DEF Inv
    <3>3. \A row \in Due(p) : ~Queued(row) /\ (row.at >= sync.next => ~(row.at < sync.next))
      <4>1. DOMAIN sync.queue = {}
        BY <1>1
      <4> QED
        BY <4>1 DEF Queued, Due, Inv, TypeOK, Rows, SyncStates
    <3>4. BeforePage(p)'
      BY <1>1, <2>1, <3>1, <3>2, <3>3 DEF BeforePage, OnPage, Reconciles, Direction
    <3> QED
      BY <2>1, <3>4 DEF OnPage, AfterPages
  <2> QED
    BY <1>3, <1>4, <1>5, <2>1, <2>2 DEF Paged, Phased
<1>7. CASE ~(sync.more /\ sync.processed) /\ sync.phases = <<"newer", "reconcile">>
  <2>1. sync'.stage = "request" /\ sync'.phases = Tail(sync.phases) /\ sync'.cursor = 0
    BY <1>7 DEF EndRound, Inv, TypeOK, SyncStates
  <2>2. sync'.phases = <<"reconcile">>
    BY <1>7, <2>1
  <2>3. Phased' /\ Paged'
    BY <2>1, <2>2 DEF Phased, Paged, BeforePage, OnPage, AfterPages
  <2> QED
    BY <1>3, <1>4, <2>3
<1>8. CASE ~(sync.more /\ sync.processed) /\ sync.phases = <<"reconcile">>
  <2>1. Direction = "reconcile" /\ Len(sync.phases) = 1
    BY <1>8 DEF Direction
  <2>2. sync'.stage = "complete" /\ (sync'.stalled = FALSE => ~sync.more)
    BY <1>8, <2>1 DEF EndRound, Inv, TypeOK, SyncStates
  <2>3. ASSUME NEW p \in Peers, Alone(p)' PROVE BeforePage(p)' /\ OnPage(p)' /\ AfterPages(p)'
    <3>1. OnPage(p) /\ ~sync.more
      BY <1>2, <2>2, <2>3 DEF Inv, Paged, Alone, TypeOK, SyncStates
    <3>2. \A row \in Due(p)' : row \in Due(p) /\ (Holds(row.bill, row.seq) => Holds(row.bill, row.seq)')
      BY <1>3, <1>4, DueHolds DEF Inv
    <3>3. \A row \in Due(p) : ~Queued(row)
      BY <1>1 DEF Queued
    <3>4. AfterPages(p)'
      BY <1>1, <2>1, <3>1, <3>2, <3>3 DEF OnPage, AfterPages, Reconciles
    <3> QED
      BY <2>2, <3>4 DEF BeforePage, OnPage, Reconciles
  <2>4. Phased'
    BY <2>2 DEF Phased
  <2> QED
    BY <1>3, <1>4, <2>3, <2>4 DEF Paged
<1> QED
  BY <1>5, <1>6, <1>7, <1>8

\* The end of a sync keeps its rows and promises what the last page did.
LEMMA CompleteInv ==
    ASSUME Inv, NEW S \in SUBSET Bills, Complete(S)
    PROVE  Clocks' /\ Backed' /\ Phased' /\ Paged'
<1> PICK seen : seen = Imported(sync.seen, Tips')
  OBVIOUS
<1>1. /\ sync.stage = "complete" /\ store' = Settled(S) /\ UNCHANGED <<world, signer>>
      /\ lines' \in {seen, lines}
      /\ sync' = [Over("complete") EXCEPT !.pending = PendingBills(store') # {}]
  BY DEF Complete
<1>2. /\ sync'.stage = "over" /\ sync'.began = sync.began /\ sync'.answered = sync.answered
      /\ sync'.failed = sync.failed /\ sync'.missed = sync.missed /\ sync'.stalled = sync.stalled
      /\ sync'.seen = [b \in Bills |-> NoLine]
      /\ sync'.known = [b \in Bills |-> 0] /\ sync'.ranges = [b \in Bills |-> 0]
  <2> DEFINE waits == PendingBills(store') # {}
  <2>1. sync' = [Over("complete") EXCEPT !.pending = waits]
    BY <1>1
  <2> HIDE DEF waits
  <2> QED
    BY <2>1 DEF Over, NoSync
<1>3. Clocks' /\ \A p \in Peers : Due(p)' = Due(p)
  BY <1>1, <1>2, SameDue
<1>4. Grows
  BY <1>1 DEF Grows, Settled
<1>5. ASSUME NEW b \in Bills, Tips'[b] > 0 PROVE Holds(b, Tips[b])'
  <2> PICK n : n = Tips'[b]
    OBVIOUS
  <2>1. n # 0 /\ n = MaxOf({s \in Sequences : Owned(s) /\ store'[b][s] \in {"settled", "verified"}})
    BY <1>5 DEF Tips, Latest
  <2>2. n \in Sequences /\ store'[b][n] \in {"settled", "verified"}
    BY <2>1, LatestIn
  <2>3. n >= n
    BY <2>2, BoundAssumption DEF Sequences
  <2> QED
    BY <2>2, <2>3 DEF Holds
<1>6. \A b \in Bills : seen[b].mark # "none" => Holds(b, seen[b].seq)'
  <2>1. ASSUME NEW b \in Bills, seen[b].mark # "none" PROVE Holds(b, seen[b].seq)'
    <3>1. CASE Tips'[b] > 0 /\ sync.seen[b].mark = "none"
      <4>1. seen[b].seq = Tips'[b]
        BY <3>1 DEF Imported
      <4> QED
        BY <1>5, <3>1, <4>1 DEF Holds
    <3>2. CASE ~(Tips'[b] > 0 /\ sync.seen[b].mark = "none")
      <4>1. seen[b] = sync.seen[b]
        BY <3>2 DEF Imported
      <4>2. Holds(b, sync.seen[b].seq)
        BY <2>1, <4>1 DEF Inv, Backed, Grounded
      <4> QED
        BY <1>4, <4>1, <4>2, GrowsHolds
    <3> QED
      BY <3>1, <3>2
  <2> QED
    BY <2>1
<1>7. Backed'
  <2>1. Grounded(lines)'
    BY <1>1, <1>4, <1>6, GrowsHolds DEF Inv, Backed, Grounded
  <2>2. Grounded(signer.seen)'
    BY <1>1, <1>4, GrowsHolds DEF Inv, Backed, Grounded
  <2>3. Grounded(sync.seen)' /\ \A b \in Bills : ~(sync'.known[b] > 0) /\ ~(sync'.ranges[b] > 0)
    BY <1>2 DEF Grounded, NoLine
  <2> QED
    BY <2>1, <2>2, <2>3 DEF Backed
<1>8. ASSUME NEW p \in Peers, Alone(p)' PROVE BeforePage(p)' /\ OnPage(p)' /\ AfterPages(p)'
  <2>1. AfterPages(p)
    BY <1>2, <1>8 DEF Inv, Paged, Alone
  <2>2. \A row \in Due(p)' : row \in Due(p) /\ (Holds(row.bill, row.seq) => Holds(row.bill, row.seq)')
    BY <1>3, <1>4, DueHolds DEF Inv
  <2> QED
    BY <1>1, <1>2, <2>1, <2>2 DEF BeforePage, OnPage, AfterPages, Reconciles
<1>9. Phased'
  BY <1>2 DEF Phased
<1> QED
  BY <1>3, <1>7, <1>8, <1>9 DEF Paged

LEMMA WorkerInv == Inv /\ Worker => Clocks' /\ Backed' /\ Phased' /\ Paged'
<1> SUFFICES ASSUME Inv, Worker PROVE Clocks' /\ Backed' /\ Phased' /\ Paged'
  OBVIOUS
<1>1. CASE Cancelled
  BY <1>1, OverInv DEF Cancelled
<1>2. ASSUME NEW result \in {"error", "complete"}, Fails(result)
      PROVE  Clocks' /\ Backed' /\ Phased' /\ Paged'
  <2>1. result # "complete" \/ sync.answered = {}
    BY <1>2 DEF Fails, Inv, Phased
  <2> QED
    BY <1>2, <2>1, OverInv DEF Fails
<1> QED
  BY <1>1, <1>2, OpenInv, RequestInv, ReportInv, PeerFailsInv, SkipInv, TakeInv, RefuseInv,
     EndRoundInv, CompleteInv DEF Worker

LEMMA InitInv == Init => Inv
<1> SUFFICES ASSUME Init PROVE Inv
  OBVIOUS
<1>1. /\ sync.stage = "open" /\ sync.answered = {} /\ sync.cursor = 0 /\ sync.began = 0
      /\ sync.seen = [b \in Bills |-> NoLine]
      /\ sync.known = [b \in Bills |-> 0] /\ sync.ranges = [b \in Bills |-> 0]
  BY DEF Init, NoSync
<1>2. TypeOK /\ Directed
  BY <1>1, InitType DEF Directed
<1>3. Clocks
  BY <1>1 DEF Init, Clocks
<1>4. Backed
  BY <1>1 DEF Init, NoSigning, NoLine, Backed, Grounded
<1>5. Phased /\ Paged
  BY <1>1 DEF Phased, Paged, BeforePage, OnPage, AfterPages, Reconciles
<1> QED
  BY <1>2, <1>3, <1>4, <1>5 DEF Inv

LEMMA NextInv == Inv /\ [Next]_vars => Clocks' /\ Backed' /\ Phased' /\ Paged'
<1> SUFFICES ASSUME Inv, [Next]_vars PROVE Clocks' /\ Backed' /\ Phased' /\ Paged'
  OBVIOUS
<1>1. CASE UNCHANGED vars
  <2>1. /\ sync' = sync /\ Grows /\ Clocks' /\ Backed'
        /\ \A p \in Peers : Due(p)' \subseteq Due(p)
    BY <1>1 DEF vars, world, Grows, Inv, Clocks, Backed, Grounded, Holds, Due, Tip
  <2> QED
    BY <2>1, CalmPaged DEF Inv
<1> QED
  BY <1>1, WorkerInv, WorldInv, SignInv, DesktopInv DEF Next

\* A sync that one peer answered holds every bill of its owner that peer had when it began,
\* however its table changes meanwhile and whatever the page size (receive_bills,
\* wallet_bill_sync_page).
THEOREM SyncFindsAll == Spec => []PagesAreComplete
<1>1. Inv /\ [Next]_vars => Inv'
  BY NextType, NextInv DEF Inv
<1>2. Inv => PagesAreComplete
  <2> SUFFICES ASSUME Inv, sync.stage = "over", sync.result = "complete", ~sync.missed, ~sync.stalled,
                      NEW p \in Peers, sync.answered = {p}, p \notin sync.failed, NEW row \in table[p],
                      Owned(row.seq), row.seq = Tip(p, row.bill), row.at <= sync.began
               PROVE  \E s \in Sequences : s >= row.seq /\ store[row.bill][s] # "none"
    BY DEF PagesAreComplete
  <2>1. Alone(p) /\ row \in Due(p)
    BY DEF Alone, Due
  <2> QED
    BY <2>1 DEF Inv, Paged, AfterPages, Holds
<1> QED
  BY <1>1, <1>2, InitInv, PTL DEF Spec

=============================================================================
