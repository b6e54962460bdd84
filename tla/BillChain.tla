----------------------------- MODULE BillChain -----------------------------
(***************************************************************************)
(* One bill, its checkpoints and its evidence: a bill is a checkpoint, a   *)
(* reference to the proof bundle of that checkpoint, and the transfers     *)
(* since.  Wallets sign transfers on it, nodes verify what they are told   *)
(* from their own store and compact what they settled.                     *)
(* src/ind/protocol_v3.py, archive_segment_v3.py, proof_bundle_v3.py and   *)
(* the functions of src/ind/store.py that keep those objects.              *)
(*                                                                         *)
(* A hash stands for what it commits to.  A checkpoint core, an archive    *)
(* segment and a proof bundle commit to the one before, so each of them is *)
(* the sequence of the contents up to it, and a reference to the one       *)
(* before is the sequence without its last element; to resolve a reference *)
(* is to find that sequence in a store.                                    *)
(***************************************************************************)
EXTENDS Integers, Sequences, FiniteSets, SequencesExt

CONSTANTS
    Nodes,             \* nodes with a wallet, a store and a settlement worker
    Transfers,         \* transfers that may be signed
    Genesis,           \* the state the bill is issued in
    Issued,            \* the transfer of the issue
    Parent,            \* the transfer, or Genesis, that a transfer spends
    Recipient,         \* the node whose wallet a transfer pays
    Time,              \* timestamps
    DayLength,         \* seconds of a day
    MaxPerDay,         \* MAX_TRANSFERS_PER_BILL_PER_DAY
    Interval,          \* checkpoint_interval_transfers
    MinConfirmations,  \* settlement_min_remote_confirmations
    MaxFailures,       \* bound
    None, Invalid

States == [sequence : Nat, tip : Transfers \cup {Genesis}, time : Nat, count : Nat]

ASSUME TreeAssumption ==
    /\ Parent \in [Transfers -> Transfers \cup {Genesis}] /\ Genesis \notin Transfers
    /\ Recipient \in [Transfers -> Nodes] /\ Time \in [Transfers -> Nat]
    /\ Issued \in Transfers /\ Parent[Issued] = Genesis /\ Time[Issued] > 0
    /\ Invalid \notin States
ASSUME LimitAssumption ==
    /\ {DayLength, MaxPerDay, Interval} \subseteq Nat \ {0}
    /\ {MinConfirmations, MaxFailures} \subseteq Nat

VARIABLES
    logged,    \* checkpoints the operator has logged
    claimed,   \* transfers the operator holds spend claims for
    announced, \* transfer announcements that were sent
    rows,      \* bills_v3 of each node, oldest update first
    segments,  \* archive_segments_v3
    bundles,   \* proof_bundles_v3
    job,       \* the thread of each node inside _compact_bill_v3
    failures

stores == <<rows, segments, bundles>>
billVars == <<logged, claimed, announced, rows, segments, bundles, job, failures>>

-----------------------------------------------------------------------------
(* Transfers *)

Start == [sequence |-> 0, tip |-> Genesis, time |-> 0, count |-> 0]

Day(time) == time \div DayLength

After(state, t) ==
    [sequence |-> state.sequence + 1, tip |-> t, time |-> Time[t],
     count |-> IF Day(Time[t]) = Day(state.time) THEN state.count + 1 ELSE 1]

\* The sender of a transfer is the recipient of its parent, so that to extend the
\* tip is to be signed by the owner.
Extends(state, t) ==
    /\ Parent[t] = state.tip /\ Time[t] > state.time
    /\ After(state, t).count <= MaxPerDay

Replay(state, transfers) ==
    LET after[i \in 0..Len(transfers)] ==
            IF i = 0 THEN state
            ELSE IF after[i - 1] # Invalid /\ Extends(after[i - 1], transfers[i])
                 THEN After(after[i - 1], transfers[i]) ELSE Invalid
    IN after[Len(transfers)]

-----------------------------------------------------------------------------
(* Archive segments, proof bundles and bills, verified with what a store has *)

\* A checkpoint core is the states of the checkpoints up to it, a segment the pieces
\* of the archive up to it, and a bundle the items of evidence up to it.
Cores    == Seq(States)
Pieces   == [base : States, transfers : Seq(Transfers), previousCore : Cores]
Segments == Seq(Pieces) \ {<<>>}
Items    == [core : Cores \ {<<>>}, segment : Segments, by : Nodes \cup {None}]
Bundles  == Seq(Items) \ {<<>>}
Bills    == [core : Cores \ {<<>>}, bundle : Bundles, recent : Seq(Transfers)]

UpTo(chain, i) == SubSeq(chain, 1, i)

\* Mutant of BaseOf: the counter of the day starts again behind a checkpoint.
BaseOfNewDay(core) == [Last(core) EXCEPT !.count = 0]

BaseOf(core) == Last(core)

\* The checkpoint a piece leads to.
CoreOf(piece) == Append(piece.previousCore, Replay(piece.base, piece.transfers))

\* Each piece replays from the checkpoint of the one before, which is in the store,
\* the first from the genesis.
Connects(segment, i, known) ==
    LET piece == segment[i] IN
    /\ piece.transfers # <<>> /\ Replay(piece.base, piece.transfers) # Invalid
    /\ IF i = 1 THEN piece.previousCore = <<>> /\ piece.base = Start
       ELSE /\ UpTo(segment, i - 1) \in known
            /\ piece.previousCore = CoreOf(segment[i - 1]) /\ piece.base = BaseOf(piece.previousCore)

Verified(segment, known) == \A i \in 1..Len(segment) : Connects(segment, i, known)

\* Each checkpoint is that of a verified segment, is logged, and its last transfer holds
\* its spend key; the one before it has a bundle in the store.
Attests(bundle, i, knownSegments, knownBundles) ==
    LET item == bundle[i] IN
    /\ item.segment \in knownSegments /\ Verified(item.segment, knownSegments)
    /\ item.core = CoreOf(Last(item.segment))
    /\ item.core \in logged /\ Last(item.core).tip \in claimed
    /\ IF i = 1 THEN Front(item.core) = <<>>
       ELSE UpTo(bundle, i - 1) \in knownBundles /\ Front(item.core) = bundle[i - 1].core

Proves(bundle, knownSegments, knownBundles) ==
    \A i \in 1..Len(bundle) : Attests(bundle, i, knownSegments, knownBundles)

\* The state of a bill whose bundle is at hand, or Invalid.
StateOf(bill, knownSegments, knownBundles) ==
    IF Proves(bill.bundle, knownSegments, knownBundles) /\ Last(bill.bundle).core = bill.core
    THEN Replay(BaseOf(bill.core), bill.recent) ELSE Invalid

\* cached_bill_state: the same without the evidence.
Tip(bill) == IF bill.recent = <<>> THEN Last(bill.core).tip ELSE Last(bill.recent)
SequenceOf(bill) == Last(bill.core).sequence + Len(bill.recent)
OwnerOf(bill) == Recipient[Tip(bill)]

\* The segments of a bundle and of the bundles before it, as far as they are held.
SegmentsBehind(bundle, knownBundles) ==
    {bundle[i].segment : i \in {i \in 1..Len(bundle) :
        \A j \in i..Len(bundle) - 1 : UpTo(bundle, j) \in knownBundles}}

\* Segments are stored one by one, each verified with those stored before; the first
\* that is refused, the one after the k-th, ends it.
StoresFirst(k, list, known) ==
    /\ \A i \in 1..k : Verified(list[i], known \cup Range(UpTo(list, i - 1)))
    /\ k < Len(list) => ~Verified(list[k + 1], known \cup Range(UpTo(list, k)))

-----------------------------------------------------------------------------
(* Rows *)

Stronger(current, incoming) ==
    IF current \in {"settled", "verified"} /\ incoming = "pending" THEN current ELSE incoming

\* INSERT OR REPLACE under the bill's hash; the row is the latest updated one.
Put(table, bill, status) ==
    IF \E i \in 1..Len(table) : table[i].bill = bill
    THEN LET i == CHOOSE i \in 1..Len(table) : table[i].bill = bill
         IN Append(RemoveAt(table, i), [bill |-> bill, status |-> Stronger(table[i].status, status)])
    ELSE Append(table, [bill |-> bill, status |-> status])

Rows(n) == Range(rows[n])
Longest(R) == {r \in R : \A s \in R : SequenceOf(s.bill) <= SequenceOf(r.bill)}
Shortest(R) == {r \in R : \A s \in R : Len(r.bill.recent) <= Len(s.bill.recent)}

\* get_spendable_bill_v3_by_display_id: the shortest of the newest settled rows,
\* unless there is a newer row of whatever status.
Spendable(n) ==
    Shortest({r \in Longest(Rows(n)) : r.status = "settled" /\ OwnerOf(r.bill) = n})

\* What peer_settlement_response_v3 says it holds: the last transfer that is in the
\* latest updated row of the highest sequence, if that row has one.
LocalTip(n) ==
    LET newest == SelectLastInSeq(rows[n], LAMBDA r : r \in Longest(Rows(n)))
    IN IF rows[n] = <<>> \/ rows[n][newest].bill.recent = <<>> THEN None
       ELSE Last(rows[n][newest].bill.recent)

NoJob == [stage |-> "idle", bill |-> None, status |-> "settled", segment |-> None, bundle |-> None]
StartJob(bill, status) == [NoJob EXCEPT !.stage = "start", !.bill = bill, !.status = status]

Due(bill) == Len(bill.recent) >= Interval

IssueCore == <<After(Start, Issued)>>
IssueSegment == <<[base |-> Start, transfers |-> <<Issued>>, previousCore |-> <<>>]>>
IssueBundle == <<[core |-> IssueCore, segment |-> IssueSegment, by |-> None]>>
IssueBill == [core |-> IssueCore, bundle |-> IssueBundle, recent |-> <<>>]

\* The bill was issued to one wallet; everybody else learns of it by announcements.
BillInit ==
    LET at(n, x, y) == IF n = Recipient[Issued] THEN x ELSE y IN
    /\ logged = {IssueCore} /\ claimed = {Issued} /\ announced = {} /\ failures = 0
    /\ rows = [n \in Nodes |-> at(n, <<[bill |-> IssueBill, status |-> "settled"]>>, <<>>)]
    /\ segments = [n \in Nodes |-> at(n, {IssueSegment}, {})]
    /\ bundles = [n \in Nodes |-> at(n, {IssueBundle}, {})]
    /\ job = [n \in Nodes |-> NoJob]

-----------------------------------------------------------------------------
(* Spending and hearing of transfers *)

\* The wallet signs on the bill it holds, without looking at the evidence again,
\* and sends along the bundle and the segments it has.
Spend(n, t) ==
    \E r \in Spendable(n) :
        LET bill == [r.bill EXCEPT !.recent = Append(@, t)] IN
        /\ Replay(BaseOf(r.bill.core), bill.recent) # Invalid
        /\ rows' = [rows EXCEPT ![n] = Put(@, bill, "verified")]
        /\ announced' = announced \cup
              {[bill |-> bill, segments |-> SegmentsBehind(bill.bundle, bundles[n]) \cap segments[n]]}
        /\ UNCHANGED <<logged, claimed, segments, bundles, job, failures>>

\* An announcement is verified with the segments it carries; the bundles before its
\* own come from the store.
VerifiesAnnouncement(n, m) == StateOf(m.bill, segments[n] \cup m.segments, bundles[n]) # Invalid

\* Referenced segments are stored, in the order the sender listed them (by hash, so
\* in any), then the bundle, then the bill.
TakeAnnouncement(n, m, list) ==
    \E k \in 0..Len(list) :
        /\ VerifiesAnnouncement(n, m) /\ StoresFirst(k, list, segments[n])
        /\ segments' = [segments EXCEPT ![n] = @ \cup Range(UpTo(list, k))]
        /\ IF k = Len(list)
           THEN /\ bundles' = [bundles EXCEPT ![n] = @ \cup {m.bill.bundle}]
                /\ rows' = [rows EXCEPT ![n] = Put(@, m.bill, "pending")]
           ELSE UNCHANGED <<bundles, rows>>
        /\ UNCHANGED <<logged, claimed, announced, job, failures>>

Deliver(n) ==
    \E m \in announced :
        \E list \in SetToSeqs(m.segments \cap SegmentsBehind(m.bill.bundle, bundles[n])) :
            TakeAnnouncement(n, m, list)

\* The operator is told of an announced transfer.  One wallet signs one transfer of
\* a state, so no spend key is claimed twice here.
Claim(t) ==
    /\ t \notin claimed /\ \E m \in announced : Tip(m.bill) = t
    /\ claimed' = claimed \cup {t}
    /\ UNCHANGED <<logged, announced, stores, job, failures>>

\* Wallet sync: a peer's record of a bill of this wallet, with its evidence.  Here
\* the segments come first and must all be accepted, whether referenced or not.
TakeRecord(n, r, list) ==
    \E k \in 0..Len(list) :
        LET known == segments[n] \cup Range(UpTo(list, k)) IN
        /\ job[n].stage = "idle"
        /\ StoresFirst(k, list, segments[n])
        /\ segments' = [segments EXCEPT ![n] = known]
        /\ IF k = Len(list) /\ StateOf(r.bill, known, bundles[n]) # Invalid
           THEN /\ bundles' = [bundles EXCEPT ![n] = @ \cup {r.bill.bundle}]
                /\ rows' = [rows EXCEPT ![n] = Put(@, r.bill, r.status)]
                /\ job' = IF r.status # "pending" /\ Due(r.bill)
                          THEN [job EXCEPT ![n] = StartJob(r.bill, r.status)] ELSE job
           ELSE UNCHANGED <<bundles, rows, job>>
        /\ UNCHANGED <<logged, claimed, announced, failures>>

\* A peer reports bills of this wallet that go beyond what it knows of.
Sync(n, m) ==
    \E r \in Rows(m) :
        /\ OwnerOf(r.bill) = n
        /\ \A s \in Rows(n) : SequenceOf(s.bill) < SequenceOf(r.bill)
        /\ \E list \in SetToSeqs(SegmentsBehind(r.bill.bundle, bundles[m]) \cap segments[m]) :
              TakeRecord(n, r, list)

-----------------------------------------------------------------------------
(* Settling and compacting *)

\* finalize_pending, with the peers' answers to the settlement query.  The same
\* thread compacts, so it does not settle meanwhile.
Settle(n) ==
    \E r \in Rows(n) :
        LET t     == Tip(r.bill)
            peers == Nodes \ {n}
        IN
        /\ r.status = "pending" /\ r.bill.recent # <<>> /\ t \in claimed
        /\ \A m \in peers : LocalTip(m) \in {t, None}
        /\ Cardinality({m \in peers : LocalTip(m) = t}) >= MinConfirmations
        /\ job[n].stage = "idle"
        /\ rows' = [rows EXCEPT ![n] = Put(@, r.bill, "settled")]
        /\ job' = IF Due(r.bill) THEN [job EXCEPT ![n] = StartJob(r.bill, "settled")] ELSE job
        /\ UNCHANGED <<logged, claimed, announced, segments, bundles, failures>>

\* compact_bill_v3_now, whatever the interval.
CompactNow(n) ==
    /\ job[n].stage = "idle"
    /\ \E r \in Shortest(Longest({s \in Rows(n) : s.status # "pending"})) :
          /\ r.bill.recent # <<>>
          /\ job' = [job EXCEPT ![n] = StartJob(r.bill, r.status)]
    /\ UNCHANGED <<logged, claimed, announced, stores, failures>>

\* The new segment goes on from that of the bill's bundle.
SegmentFor(bill) ==
    Append(Last(bill.bundle).segment,
           [base |-> BaseOf(bill.core), transfers |-> bill.recent, previousCore |-> bill.core])

\* The operator replays the one new piece on the checkpoint it has logged.
OperatorTakes(piece) ==
    /\ piece.previousCore \in logged /\ piece.base = BaseOf(piece.previousCore)
    /\ Replay(piece.base, piece.transfers) # Invalid

SubmitCheckpoint(n) ==
    LET bill    == job[n].bill
        segment == SegmentFor(bill)
        core    == CoreOf(Last(segment))
        item    == [core |-> core, segment |-> segment, by |-> n]
    IN
    /\ job[n].stage = "start"
    /\ bill.bundle \in bundles[n] /\ StateOf(bill, segments[n], bundles[n]) # Invalid
    /\ Verified(segment, segments[n]) /\ Last(core).tip = Tip(bill) /\ OperatorTakes(Last(segment))
    /\ logged' = logged \cup {core}
    /\ job' = [job EXCEPT ![n] = [job[n] EXCEPT !.stage = "submitted",
          !.segment = segment, !.bundle = Append(bill.bundle, item)]]
    /\ UNCHANGED <<claimed, announced, stores, failures>>

Advance(n, from, to) ==
    /\ job[n].stage = from
    /\ job' = [job EXCEPT ![n].stage = to]

\* The signed root that holds the checkpoint proves the claim of the last transfer.
FetchProofs(n) ==
    /\ Advance(n, "submitted", "proved")
    /\ Last(Last(job[n].bundle).core).tip \in claimed
    /\ UNCHANGED <<logged, claimed, announced, stores, failures>>

\* Mutant of StoreSegment: the compact bill is stored next.
StoreSegmentThenBill(n) ==
    /\ Advance(n, "proved", "bundled")
    /\ segments' = [segments EXCEPT ![n] = @ \cup {job[n].segment}]
    /\ UNCHANGED <<logged, claimed, announced, rows, bundles, failures>>

StoreSegment(n) ==
    /\ Advance(n, "proved", "archived")
    /\ segments' = [segments EXCEPT ![n] = @ \cup {job[n].segment}]
    /\ UNCHANGED <<logged, claimed, announced, rows, bundles, failures>>

\* Mutant of StoreBundle: the bundle takes the place of the one before it.
StoreBundleInPlace(n) ==
    /\ Advance(n, "archived", "bundled")
    /\ Proves(job[n].bundle, segments[n], bundles[n])
    /\ bundles' = [bundles EXCEPT ![n] = (@ \ {Front(job[n].bundle)}) \cup {job[n].bundle}]
    /\ UNCHANGED <<logged, claimed, announced, rows, segments, failures>>

StoreBundle(n) ==
    /\ Advance(n, "archived", "bundled")
    /\ Proves(job[n].bundle, segments[n], bundles[n])
    /\ bundles' = [bundles EXCEPT ![n] = @ \cup {job[n].bundle}]
    /\ UNCHANGED <<logged, claimed, announced, rows, segments, failures>>

\* The bill that was compacted keeps its row.
StoreCompact(n) ==
    LET new == job[n].bundle IN
    /\ job[n].stage = "bundled"
    /\ rows' = [rows EXCEPT ![n] =
          Put(@, [core |-> Last(new).core, bundle |-> new, recent |-> <<>>], job[n].status)]
    /\ job' = [job EXCEPT ![n] = NoJob]
    /\ UNCHANGED <<logged, claimed, announced, segments, bundles, failures>>

\* The submission or the wait for its proof ends in an error.  Nothing tries again.
GiveUp(n) ==
    /\ failures < MaxFailures /\ job[n].stage \in {"start", "submitted"}
    /\ failures' = failures + 1
    /\ job' = [job EXCEPT ![n] = NoJob]
    /\ UNCHANGED <<logged, claimed, announced, stores>>

Crash(n) ==
    /\ failures < MaxFailures /\ job[n] # NoJob
    /\ failures' = failures + 1
    /\ job' = [job EXCEPT ![n] = NoJob]
    /\ UNCHANGED <<logged, claimed, announced, stores>>

-----------------------------------------------------------------------------

Compact(n) ==
    SubmitCheckpoint(n) \/ FetchProofs(n) \/ StoreSegment(n) \/ StoreBundle(n) \/ StoreCompact(n)

BillNext ==
    \/ \E t \in Transfers : Claim(t) \/ \E n \in Nodes : Spend(n, t)
    \/ \E n \in Nodes :
          \/ Deliver(n) \/ Settle(n) \/ CompactNow(n) \/ Compact(n) \/ GiveUp(n) \/ Crash(n)
          \/ \E m \in Nodes \ {n} : Sync(n, m)

BillSpec == BillInit /\ [][BillNext]_billVars

\* Settlement workers run, and what was announced reaches the operator.
BillFairness ==
    /\ \A t \in Transfers : WF_billVars(Claim(t))
    /\ \A n \in Nodes : WF_billVars(Settle(n)) /\ WF_billVars(Compact(n))

BillLiveSpec == BillSpec /\ BillFairness

-----------------------------------------------------------------------------
(* Properties *)

BillTypeOK ==
    /\ logged \subseteq Cores \ {<<>>} /\ claimed \subseteq Transfers /\ failures \in 0..MaxFailures
    /\ announced \subseteq [bill : Bills, segments : SUBSET Segments]
    /\ rows \in [Nodes -> Seq([bill : Bills, status : {"pending", "verified", "settled"}])]
    /\ segments \in [Nodes -> SUBSET Segments] /\ bundles \in [Nodes -> SUBSET Bundles]
    /\ job \in [Nodes -> [stage : {"idle", "start", "submitted", "proved", "archived", "bundled"},
                         bill : Bills \cup {None}, status : {"pending", "verified", "settled"},
                         segment : Segments \cup {None}, bundle : Bundles \cup {None}]]

\* Whatever a node stored a bill from - an announcement, a sync record, its own
\* signature, a compaction that a crash may cut short - it can verify it again from
\* its own tables alone, as spending, syncing and compacting it later need.
StoresStandAlone ==
    \A n \in Nodes : \A r \in Rows(n) :
        r.bill.bundle \in bundles[n] /\ StateOf(r.bill, segments[n], bundles[n]) # Invalid

\* A transfer and those before it: what every set has that has it and the parents of
\* its members.
History == [t \in Transfers |->
    {s \in Transfers : \A C \in SUBSET Transfers :
        t \in C /\ (\A c \in C : Parent[c] \in C \cup {Genesis}) => s \in C}]

\* README.md, "the daily transfer counter needed for the 10/day rule": no bill a node
\* holds has more transfers in a day than allowed, however many of them were compacted
\* away by however many nodes.
DailyLimitHolds ==
    \A n \in Nodes : \A r \in Rows(n) : \A t \in History[Tip(r.bill)] :
        Cardinality({s \in History[Tip(r.bill)] : Day(Time[s]) = Day(Time[t])}) <= MaxPerDay

Holds(n, bill) == \E r \in Rows(n) : r.bill = bill

\* A node that heard every earlier announcement of a bill takes the next one, although
\* nodes compact on their own and the sender's bundle is none the node has seen: the
\* bundles before it came with the earlier announcements.
WhoHeardAllGoesOn ==
    \A n \in Nodes : \A m \in announced :
        (\A e \in announced : Tip(e.bill) \in History[Tip(m.bill)] \ {Tip(m.bill)} => Holds(n, e.bill))
        => VerifiesAnnouncement(n, m)

\* README.md: "The recipient verifies the genesis, the checkpoint hash, the checkpoint
\* inclusion proof against mirrored signed roots, the spend-map proof for the settled
\* last transfer, and the recent transfer signatures after the checkpoint."
CompactPaymentsVerify ==
    \A m \in announced : Last(m.bill.core).tip \in claimed => VerifiesAnnouncement(OwnerOf(m.bill), m)

\* README.md: "`settled` means the transfer survived the local finality buffer and [...]
\* a majority of configured append-capable operators prove the same spend-map claim."
\* So a proved bill that every node has as its newest does not stay pending.
ProvenBillsSettle ==
    \A n \in Nodes : \A t \in Transfers :
        /\ \A m \in Nodes : Rows(m) # {} /\ \A r \in Longest(Rows(m)) : Tip(r.bill) = t
        /\ t \in claimed /\ \E r \in Rows(n) : Tip(r.bill) = t /\ r.status = "pending"
        ~> \/ \E m \in Nodes : \E r \in Longest(Rows(m)) : Tip(r.bill) # t
           \/ \E r \in Rows(n) : Tip(r.bill) = t /\ r.status # "pending"

=============================================================================
