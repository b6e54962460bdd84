------------------------------ MODULE WalletSync ------------------------------
(***************************************************************************)
(* How the desktop wallet learns of its bills: a sync worker asks peers    *)
(* page by page for rows owned by its address, stores them, and writes new *)
(* bills to the wallet's lines, while a signing worker spends bills and    *)
(* writes the same lines, and the Tk thread starts, pauses and retries.    *)
(* sender_node.receive_bills, store.wallet_bill_sync_page, desktop.py      *)
(* start_wallet_sync.                                                      *)
(*                                                                         *)
(* One unlocked wallet; peers answer with records (the legacy message form *)
(* is left out).  A bill's rows are numbered by sequence: the wallet owns  *)
(* the odd ones, somebody else the even ones.  Times of rows are distinct, *)
(* as the order by time, sequence and token makes them.                    *)
(***************************************************************************)
EXTENDS Integers, Sequences, FiniteSets

CONSTANTS
    Bills, Peers,
    Returning,  \* the bills their next owner pays back
    Quorum,     \* settlement_quorum_enabled
    MaxSeq,     \* bound: how long a bill's chain grows
    MaxTime,    \* bound: how often a peer's table changes
    PageLimit,  \* WALLET_SYNC_RESPONSE_LIMIT
    MaxTries,   \* WALLET_PENDING_RETRY_MAX_ATTEMPTS
    MaxClicks   \* bound: how often the user clicks

ASSUME BoundAssumption == /\ MaxSeq \in Nat \ {0}
                          /\ MaxTime \in Nat /\ MaxTries \in Nat /\ MaxClicks \in Nat
ASSUME ReturnAssumption == Returning \subseteq Bills
ASSUME QuorumAssumption == Quorum \in BOOLEAN
ASSUME PageAssumption == PageLimit \in Nat \ {0}

VARIABLES
    chain,   \* the last sequence of each bill there is
    table,   \* bills_v3 at each peer
    time,    \* of the last change of a peer's table
    store,   \* bills_v3 of the wallet, by bill and sequence
    lines,   \* the unlocked wallet's lines; "-" marks a sent bill
    sync,    \* the worker of start_wallet_sync
    signer,  \* the worker of start_wallet_signing_worker
    pause,   \* wallet_sync_cancel_event
    timer,   \* wallet_pending_retry_after_id
    tries,   \* wallet_pending_retry_attempts
    clicks,  \* of the user
    spent    \* how often each bill was signed away, by sequence

desktop == <<pause, timer, tries, clicks>>
world == <<chain, table, time>>
vars == <<world, store, lines, sync, signer, desktop, spent>>

Sequences == 1..MaxSeq
Owned(seq) == seq % 2 = 1
MaxOf(S) == IF S = {} THEN 0 ELSE CHOOSE x \in S : \A y \in S : y <= x

Records == [bill : Bills, seq : Sequences, status : {"pending", "settled"}]
NoLine == [mark |-> "none", seq |-> 0]

NoSync == [stage |-> "off", seen |-> [b \in Bills |-> NoLine], known |-> [b \in Bills |-> 0],
           phases |-> <<>>, cursor |-> 0, ranges |-> [b \in Bills |-> 0], left |-> {},
           queue |-> <<>>, more |-> FALSE, next |-> 0, processed |-> FALSE,
           result |-> "none", pending |-> FALSE,
           errors |-> FALSE, began |-> 0, answered |-> {}, failed |-> {}, stalled |-> FALSE, missed |-> FALSE]
NoSigning == [stage |-> "off", seen |-> [b \in Bills |-> NoLine], todo |-> {}]

LineStates == [Bills -> [mark : {"none", "owned", "sent"}, seq : 0..MaxSeq]]
Statuses == {"none", "pending", "verified", "settled"}
Rows == [bill : Bills, seq : Sequences, status : {"pending", "settled"}, at : 1..MaxTime]
SyncStates ==
    [stage : {"off", "open", "request", "reports", "complete", "over"},
     seen : LineStates, known : [Bills -> 0..MaxSeq],
     phases : Seq({"newer", "reconcile"}), cursor : 0..MaxTime,
     ranges : [Bills -> 0..MaxSeq], left : SUBSET Peers, queue : Seq(Records),
     more : BOOLEAN, next : 0..MaxTime, processed : BOOLEAN,
     result : {"none", "complete", "cancelled", "error"}, pending : BOOLEAN,
     errors : BOOLEAN, began : 0..MaxTime, answered : SUBSET Peers, failed : SUBSET Peers,
     stalled : BOOLEAN, missed : BOOLEAN]
SignerStates == [stage : {"off", "store", "write"}, seen : LineStates, todo : SUBSET Bills]

TypeOK ==
    /\ chain \in [Bills -> Sequences]
    /\ table \in [Peers -> SUBSET Rows]
    /\ time \in 0..MaxTime
    /\ store \in [Bills -> [Sequences -> Statuses]]
    /\ lines \in LineStates
    /\ sync \in SyncStates
    /\ signer \in SignerStates
    /\ pause \in BOOLEAN /\ timer \in BOOLEAN
    /\ tries \in 0..MaxTries /\ clicks \in 0..MaxClicks
    /\ spent \in [Bills -> [Sequences -> 0..2]]

\* Signing in starts a sync.
Init ==
    /\ chain = [b \in Bills |-> 1]
    /\ table = [p \in Peers |-> {}] /\ time = 0
    /\ store = [b \in Bills |-> [s \in Sequences |-> "none"]]
    /\ lines = [b \in Bills |-> NoLine]
    /\ sync = [NoSync EXCEPT !.stage = "open"] /\ signer = NoSigning
    /\ pause = FALSE /\ timer = FALSE /\ tries = 0 /\ clicks = 0
    /\ spent = [b \in Bills |-> [s \in Sequences |-> 0]]

-----------------------------------------------------------------------------
(* The world: every bill was paid to the wallet once, one it sent may come back,
   and peers hear of it. *)

Return(b) ==
    /\ b \in Returning /\ chain[b] < MaxSeq /\ time < MaxTime
    /\ ~Owned(chain[b])
    /\ chain' = [chain EXCEPT ![b] = @ + 1]
    /\ UNCHANGED <<table, time, store, lines, sync, signer, desktop, spent>>

Tip(p, b) == MaxOf({row.seq : row \in {r \in table[p] : r.bill = b}})

PeerLearns(p, b, status) ==
    /\ Tip(p, b) < chain[b] /\ time < MaxTime
    /\ status = "settled" \/ Owned(chain[b])
    /\ time' = time + 1
    /\ table' = [table EXCEPT ![p] = @ \cup {[bill |-> b, seq |-> chain[b], status |-> status, at |-> time']}]
    /\ UNCHANGED <<chain, store, lines, sync, signer, desktop, spent>>

\* A settled row takes the time of its settlement.
PeerSettles(p, row) ==
    /\ row \in table[p] /\ row.status = "pending" /\ time < MaxTime
    /\ time' = time + 1
    /\ table' = [table EXCEPT ![p] = (@ \ {row}) \cup {[row EXCEPT !.status = "settled", !.at = time']}]
    /\ UNCHANGED <<chain, store, lines, sync, signer, desktop, spent>>

-----------------------------------------------------------------------------
(* The wallet's store and lines *)

\* _has_materialized_newer_v3_branch_conn
Superseded(b, s) == \E later \in Sequences : later > s /\ store[b][later] # "none"

\* bill_v3_metadata_records_for_owner, settled or verified
SettledTips == {b \in Bills : \E s \in Sequences :
                    Owned(s) /\ store[b][s] \in {"settled", "verified"} /\ ~Superseded(b, s)}

Latest(b, statuses) == MaxOf({s \in Sequences : Owned(s) /\ store[b][s] \in statuses})

\* spendable_bill_v3_statuses
SpendableStatuses == IF Quorum THEN {"settled"} ELSE {"settled", "verified"}

\* A row of the wallet is enough.
EverOwned(b) == \E s \in Sequences : Owned(s) /\ store[b][s] \in SpendableStatuses

\* spendable_bill_v3_display_ids: the newest row too
Spendable(b) == \E s \in Sequences :
                    Owned(s) /\ store[b][s] \in SpendableStatuses /\ ~Superseded(b, s)

\* The sequence of each settled tip, 0 for none.
Tips == [b \in Bills |-> IF b \in SettledTips THEN Latest(b, {"settled", "verified"}) ELSE 0]

\* add_new_settled_bills: from the lines read at the start, not from the file.
Imported(seen, tips) ==
    [b \in Bills |->
        IF tips[b] > 0 /\ seen[b].mark = "none" THEN [mark |-> "owned", seq |-> tips[b]] ELSE seen[b]]

\* wallet_delta_sync_request: the store's settled tips, and the lines that can
\* be spent.
KnownRanges ==
    [b \in Bills |->
        MaxOf({Tips[b]} \cup (IF sync.seen[b].mark # "none" /\ Spendable(b) THEN {sync.seen[b].seq} ELSE {}))]

-----------------------------------------------------------------------------
(* A peer's answer, wallet_bill_sync_page *)

Offered(p, direction) ==
    {row \in table[p] :
        /\ Owned(row.seq) /\ row.seq = Tip(p, row.bill)
        /\ row.seq > sync.ranges[row.bill]
        /\ sync.cursor = 0 \/ (IF direction = "newer" THEN row.at > sync.cursor
                                                      ELSE row.at < sync.cursor)}

\* Oldest first or newest first, as the direction says.
Before(r, s, direction) == IF direction = "newer" THEN r.at < s.at ELSE r.at > s.at

\* The first rows in that order: PageLimit of them, or all there are.
Pages(p, direction) ==
    LET rows == Offered(p, direction) IN
    {page \in UNION {[1..n -> rows] : n \in 0..PageLimit} :
        /\ Len(page) = PageLimit \/ \A row \in rows : \E i \in DOMAIN page : page[i] = row
        /\ \A i \in DOMAIN page, row \in rows :
              Before(row, page[i], direction) <=> \E j \in 1..(i - 1) : page[j] = row}

-----------------------------------------------------------------------------
(* The sync worker, receive_bills *)

Direction == Head(sync.phases)
Over(result) ==
    [NoSync EXCEPT !.stage = "over", !.result = result, !.errors = sync.errors, !.began = sync.began,
                   !.answered = sync.answered, !.failed = sync.failed,
                   !.stalled = sync.stalled, !.missed = sync.missed]

\* The worker looks at the event before each round, report and record; what it
\* would do next is given up.
Cancelled ==
    /\ pause
    /\ \/ sync.stage \in {"open", "request"}
       \/ sync.stage = "reports" /\ (sync.queue # <<>> \/ sync.left # {})
    /\ sync' = Over("cancelled")
    /\ UNCHANGED <<world, store, lines, signer, desktop, spent>>

\* The check of the operators' consistency or the finalizing fails; a store that waits
\* for mirrors counts as a complete sync.
Fails(result) ==
    /\ sync.stage = "open" \/ (sync.stage = "complete" /\ result = "error")
    /\ sync' = Over(result)
    /\ UNCHANGED <<world, store, lines, signer, desktop, spent>>

\* The wallet is read and what the store has settled added.
Open ==
    LET known == [b \in Bills |-> Latest(b, {"settled", "verified"})]
        seen == Imported(lines, Tips)
    IN
    /\ sync.stage = "open" /\ ~pause
    /\ lines' = seen
    /\ sync' = [sync EXCEPT !.stage = "request", !.seen = seen, !.known = known,
                    !.phases = IF \E b \in Bills : known[b] > 0 THEN <<"newer", "reconcile">>
                                                                ELSE <<"reconcile">>]
    /\ UNCHANGED <<world, store, signer, desktop, spent>>

\* The first request for newer rows starts at the newest time in the wallet's own
\* store, which no peer's clock is tied to.
Request(start) ==
    /\ sync.stage = "request" /\ ~pause
    /\ start = 0 \/ (sync.cursor = 0 /\ Direction = "newer")
    /\ sync' = [sync EXCEPT !.stage = "reports", !.left = Peers, !.ranges = KnownRanges,
                            !.cursor = IF start = 0 THEN @ ELSE start,
                            !.more = FALSE, !.next = 0, !.processed = FALSE]
    /\ UNCHANGED <<world, store, lines, signer, desktop, spent>>

\* A report that is full offers more; the last such report sets the cursor.
Report(p) ==
    /\ sync.stage = "reports" /\ ~pause /\ sync.queue = <<>> /\ p \in sync.left
    /\ \E page \in Pages(p, Direction) :
          LET full == Len(page) >= PageLimit IN
          sync' = [sync EXCEPT !.left = @ \ {p},
                               !.queue = [i \in 1..Len(page) |->
                                            [bill |-> page[i].bill, seq |-> page[i].seq, status |-> page[i].status]],
                               !.more = @ \/ full,
                               !.next = IF full THEN page[PageLimit].at ELSE @,
                               !.answered = @ \cup {p}]
    /\ UNCHANGED <<world, store, lines, signer, desktop, spent>>

\* No connection, a time-out or a malformed answer.
PeerFails(p) ==
    /\ sync.stage = "reports" /\ ~pause /\ sync.queue = <<>> /\ p \in sync.left
    /\ sync' = [sync EXCEPT !.left = @ \ {p}, !.failed = @ \cup {p}]
    /\ UNCHANGED <<world, store, lines, signer, desktop, spent>>

\* _stronger_bill_v3_status
Stronger(old, new) == IF old \in {"settled", "verified"} /\ new = "pending" THEN old ELSE new

\* process_records: a record no newer than what is known is skipped.
SkipRecord ==
    LET r == Head(sync.queue) IN
    /\ sync.stage = "reports" /\ ~pause /\ sync.queue # <<>>
    /\ sync.known[r.bill] >= r.seq
    /\ sync' = [sync EXCEPT !.queue = Tail(@)]
    /\ UNCHANGED <<world, store, lines, signer, desktop, spent>>

TakeRecord ==
    LET r == Head(sync.queue) IN
    /\ sync.stage = "reports" /\ ~pause /\ sync.queue # <<>>
    /\ sync.known[r.bill] < r.seq
    /\ store' = [store EXCEPT ![r.bill][r.seq] = Stronger(@, r.status)]
    /\ sync' = [sync EXCEPT !.queue = Tail(@), !.known[r.bill] = r.seq, !.processed = TRUE]
    /\ UNCHANGED <<world, lines, signer, desktop, spent>>

\* Its proofs wait for a mirror, or it does not verify, which counts as an error;
\* the sync goes on.
RefuseRecord(error) ==
    /\ sync.stage = "reports" /\ ~pause /\ sync.queue # <<>>
    /\ sync.known[Head(sync.queue).bill] < Head(sync.queue).seq
    /\ sync' = [sync EXCEPT !.queue = Tail(@), !.missed = TRUE,
                            !.errors = @ \/ error]
    /\ UNCHANGED <<world, store, lines, signer, desktop, spent>>

\* The sync ends with the newer rows.
EndAfterNewer ==
    /\ sync.stage = "reports" /\ sync.queue = <<>> /\ sync.left = {}
    /\ sync' = IF sync.more /\ sync.processed
               THEN [sync EXCEPT !.stage = "request", !.cursor = sync.next]
               ELSE [sync EXCEPT !.stage = "complete"]
    /\ UNCHANGED <<world, store, lines, signer, desktop, spent>>

\* The next page of the same direction, or the next direction, or the end.
EndRound ==
    /\ sync.stage = "reports" /\ sync.queue = <<>> /\ sync.left = {}
    /\ sync' =
        IF sync.more /\ sync.processed
        THEN [sync EXCEPT !.stage = "request", !.cursor = sync.next, !.ranges = NoSync.ranges]
        ELSE [sync EXCEPT !.stage = IF Len(sync.phases) = 1 THEN "complete" ELSE "request",
                          !.phases = Tail(@), !.cursor = 0, !.ranges = NoSync.ranges,
                          !.more = FALSE, !.next = 0, !.processed = FALSE,
                          !.stalled = @ \/ (sync.more /\ Direction = "reconcile")]
    /\ UNCHANGED <<world, store, lines, signer, desktop, spent>>

PendingBills(rows) == {b \in Bills : \E s \in Sequences : Owned(s) /\ rows[b][s] = "pending"}

\* finalize_ready_bills settles what its proofs and their age allow, and with a quorum
\* nothing, as no reconciler is given; the new bills get their lines and those that
\* still wait are counted.
Settled(S) ==
    [b \in Bills |-> [s \in Sequences |->
        IF b \in S /\ Owned(s) /\ store[b][s] = "pending" THEN "settled" ELSE store[b][s]]]

Complete(S) ==
    /\ sync.stage = "complete" /\ S \subseteq PendingBills(store)
    /\ S = {} \/ ~Quorum
    /\ store' = Settled(S)
    /\ LET seen == Imported(sync.seen, Tips') IN
       /\ lines' = IF seen # sync.seen THEN seen ELSE lines
       /\ sync' = [Over("complete") EXCEPT !.pending = PendingBills(store') # {}]
    /\ UNCHANGED <<world, signer, desktop, spent>>

-----------------------------------------------------------------------------
(* The signing worker, send_bills of one bill.  WalletSend has its transfers and
   their files; here it is what it does to the store and the lines. *)

SignRead(b) ==
    /\ signer.stage = "off"
    /\ lines[b].mark = "owned" /\ Spendable(b) /\ Latest(b, SpendableStatuses) < MaxSeq
    /\ signer' = [stage |-> "store", seen |-> lines, todo |-> {b}]
    /\ UNCHANGED <<world, store, lines, sync, desktop, spent>>

\* ensure_prepared_wallet_spend_is_current, then the new tip; an error leaves
\* the lines as they were read.
SignStore(b) ==
    LET seq == Latest(b, SpendableStatuses) IN
    /\ signer.stage = "store" /\ b \in signer.todo /\ seq < MaxSeq
    /\ IF Spendable(b)
       THEN /\ store' = [store EXCEPT ![b][seq + 1] = "verified"]
            /\ chain' = [chain EXCEPT ![b] = IF @ <= seq THEN seq + 1 ELSE @]
            /\ spent' = [spent EXCEPT ![b][seq] = IF spent[b][seq] = 2 THEN 2 ELSE @ + 1]
            /\ signer' = [signer EXCEPT !.stage = "write", !.seen[b] = [mark |-> "sent", seq |-> seq + 1]]
       ELSE /\ signer' = [signer EXCEPT !.stage = "write"]
            /\ UNCHANGED <<store, chain, spent>>
    /\ UNCHANGED <<table, time, lines, sync, desktop>>

\* All lines are written as they were read, but for those just spent.
SignWrite ==
    /\ signer.stage = "write"
    /\ lines' = signer.seen
    /\ signer' = NoSigning
    /\ UNCHANGED <<world, store, sync, desktop, spent>>

-----------------------------------------------------------------------------
(* The Tk thread *)

Running == sync.stage # "off"

\* start_wallet_sync
Start ==
    /\ sync' = [NoSync EXCEPT !.stage = "open", !.began = time]
    /\ pause' = FALSE

\* The Sync button, which a running sync turns into Pause.
SyncClick ==
    /\ clicks < MaxClicks /\ ~Running /\ ~timer
    /\ clicks' = clicks + 1
    /\ Start
    /\ timer' = FALSE /\ tries' = 0
    /\ UNCHANGED <<world, store, lines, signer, spent>>

TimerFires ==
    /\ timer /\ ~Running
    /\ timer' = FALSE
    /\ Start
    /\ UNCHANGED <<world, store, lines, signer, tries, clicks, spent>>

\* request_wallet_sync_cancel
PauseClick ==
    /\ clicks < MaxClicks /\ (Running \/ timer)
    /\ clicks' = clicks + 1
    /\ timer' = FALSE /\ tries' = 0 /\ pause' = Running
    /\ UNCHANGED <<world, store, lines, sync, signer, spent>>

\* pending_sync_retry_decision, but for the count of retries
Waiting == sync.result = "complete" /\ sync.pending

\* Every sync that was not cancelled is tried again, uncounted.
FinishUncounted ==
    /\ sync.stage = "over"
    /\ sync' = NoSync /\ pause' = FALSE
    /\ timer' = (sync.result # "cancelled")
    /\ UNCHANGED <<world, store, lines, signer, tries, clicks, spent>>

\* finish_now and schedule_wallet_pending_retry: a sync that left bills pending
\* is tried again, a few times.
Finish ==
    /\ sync.stage = "over"
    /\ sync' = NoSync /\ pause' = FALSE
    /\ IF sync.result = "error" \/ sync.errors THEN UNCHANGED <<timer, tries>>
       ELSE IF ~Waiting THEN tries' = 0 /\ UNCHANGED timer
       ELSE IF tries < MaxTries THEN timer' = TRUE /\ tries' = tries + 1
       ELSE UNCHANGED <<timer, tries>>
    /\ UNCHANGED <<world, store, lines, signer, clicks, spent>>

-----------------------------------------------------------------------------
Worker ==
    \/ Cancelled \/ Open
    \/ \E result \in {"error", "complete"} : Fails(result)
    \/ \E start \in 0..MaxTime : Request(start)
    \/ \E p \in Peers : Report(p) \/ PeerFails(p)
    \/ SkipRecord \/ TakeRecord \/ \E error \in BOOLEAN : RefuseRecord(error)
    \/ EndRound
    \/ \E S \in SUBSET Bills : Complete(S)

World ==
    \/ \E b \in Bills : Return(b)
    \/ \E p \in Peers, b \in Bills, status \in {"pending", "settled"} : PeerLearns(p, b, status)
    \/ \E p \in Peers : \E row \in table[p] : PeerSettles(p, row)

Sign == SignWrite \/ \E b \in Bills : SignRead(b) \/ SignStore(b)

Next ==
    \/ Worker \/ World \/ Sign
    \/ SyncClick \/ PauseClick \/ TimerFires \/ Finish

Spec == Init /\ [][Next]_vars

\* The worker thread runs and the Tk thread runs its callbacks; nothing makes a
\* user click, a peer learn or a proof settle.
LiveSpec == Spec /\ WF_vars(Worker) /\ WF_vars(TimerFires) /\ WF_vars(Finish)

-----------------------------------------------------------------------------
(* Properties *)

\* receive_bills pages through a peer's table while the table changes under it and
\* the cursor of another peer would do for its own.  A sync that completes with one
\* answering peer, no refused record and no page it knew all of, holds every bill of
\* its owner that peer had before the sync began.
PagesAreComplete ==
    sync.stage = "over" /\ sync.result = "complete" /\ ~sync.missed /\ ~sync.stalled =>
        \A p \in Peers : sync.answered = {p} /\ p \notin sync.failed =>
            \A row \in table[p] :
                Owned(row.seq) /\ row.seq = Tip(p, row.bill) /\ row.at <= sync.began =>
                    \E s \in Sequences : s >= row.seq /\ store[row.bill][s] # "none"

\* The sync and the signing worker both write back all the lines they once read, so
\* the mark of a sent bill can be lost (send_bills, add_new_settled_bills); no bill
\* is signed away twice at one sequence all the same.
SpentOnce == \A b \in Bills, s \in Sequences : spent[b][s] <= 1

\* What wallet_balance_counts shows as spendable can be sent once a sync is done: a
\* line of the wallet says so.  (tests/test_wallet_services.py:167 has a bill that
\* came back in the balance.)
BalanceIsSendable ==
    sync.stage = "over" /\ sync.result = "complete" /\ sync.answered # {} /\ signer.stage = "off" =>
        \A b \in Bills :
            Spendable(b) /\ (lines[b].mark = "sent" => Latest(b, SpendableStatuses) > lines[b].seq) =>
                lines[b].mark = "owned"

\* The rounds of a sync end whatever peers answer, and retries for pending bills are
\* given up: once the user stops clicking the wallet is idle
\* (receive_bills, schedule_wallet_pending_retry).
ComesToRest == <>[](~Running /\ ~timer)

=============================================================================
