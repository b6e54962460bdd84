------------------------ MODULE TransparencyOperator ------------------------
(***************************************************************************)
(* One transparency-log operator: class TransparencyLog and the threads of *)
(* serve() in src/ind/transparency_server.py.                              *)
(*                                                                         *)
(* The database (log entries, transfer bodies, spend claims, signed roots, *)
(* operator state) survives a crash; request, publisher and recovery       *)
(* threads do not.  Every action is one database transaction or one step   *)
(* taken under _append_lock, so a crash can fall between any two of them.  *)
(* Mirror directories are outside the process and survive a lost disk.     *)
(***************************************************************************)
EXTENDS Integers, Sequences, FiniteSets

CONSTANTS
    Transfers,          \* hashes of valid signed transfers
    Checkpoints,        \* hashes of valid compact checkpoints
    SpendKeyOf,         \* spend key of each transfer
    FeedRank,           \* rank by (timestamp, announced_at, message hash)
    Requests,           \* append worker threads
    Publishers,         \* threads that may call maybe_publish_root
    RecoveryThread,     \* the thread running _recovery_worker
    NoRoot, Idle,       \* "no root here" and "no request here"
    RecoveryRequired,   \* --recovery-required
    WriteArchives,      \* WRITE_MIRROR_PROOF_ARCHIVES
    MaxClock,           \* bound on the clock readings publish_root may see
    MaxIdleRoots,       \* bound on roots that repeat the one before them
    MaxCrashes,         \* bound on crashes outside an archive restore
    MaxRestoreCrashes,  \* bound on crashes inside an archive restore
    MaxDiskLosses       \* bound on restarts with a blank database

ASSUME TransferAssumption == Transfers \cap Checkpoints = {}
ASSUME SpendKeyAssumption == DOMAIN SpendKeyOf = Transfers
ASSUME FeedAssumption == FeedRank \in [Transfers -> Nat]
ASSUME ThreadAssumption == /\ RecoveryThread \notin Publishers
                           /\ Idle \notin Transfers \cup Checkpoints
ASSUME FlagAssumption == RecoveryRequired \in BOOLEAN /\ WriteArchives \in BOOLEAN
ASSUME BoundAssumption ==
    /\ MaxClock \in Nat /\ MaxIdleRoots \in Nat /\ MaxCrashes \in Nat
    /\ MaxRestoreCrashes \in Nat /\ MaxDiskLosses \in Nat

VARIABLES
    opState,     \* operator_recovery_state: key "state"
    failure,     \* operator_recovery_state: key "failure_reason"
    log,         \* log_entries by leaf_index
    bodies,      \* transfers whose log_entries row has transfer_json
    claim,       \* spend_claims: 1-based leaf of the transfer, 0 for no row
    roots,       \* signed_roots
    request,     \* announcement each worker has validated, or Idle
    publish,     \* where each thread is in publish_root
    recovery,    \* where the recovery thread is in run_recovery
    restoring,   \* signed root whose archive is being restored
    claimsLeft,  \* archive claims still to be restored
    feedLeft,    \* feed candidates still to be appended
    mirror,      \* roots.jsonl of the mirror directory
    archive,     \* proof_archives/root_<size>.json, as the roots they are for
    crashes, restoreCrashes, diskLosses, idleRoots   \* bounded counters

database == <<opState, failure, log, bodies, claim, roots>>
threads  == <<request, publish, recovery, restoring, claimsLeft, feedLeft>>
outside  == <<mirror, archive>>
counters == <<crashes, restoreCrashes, diskLosses, idleRoots>>
vars     == <<database, threads, outside, counters>>

-----------------------------------------------------------------------------
(* Data *)

Entries  == Transfers \cup Checkpoints
OpStates == {"recovering", "catching_up", "active", "failed_safe"}
Threads  == Publishers \cup {RecoveryThread}

\* A signed root: root_hash commits to the entries, spend_map_root to the map.
Root == [entries : Seq(Entries), map : SUBSET Transfers, ts : Nat]

Siblings(t, u) == t # u /\ SpendKeyOf[t] = SpendKeyOf[u]

Unconflicted(S) == \A t, u \in S : ~Siblings(t, u)

Prefix(s, t) == Len(s) =< Len(t) /\ \A i \in 1..Len(s) : s[i] = t[i]

InLog(e) == \E i \in 1..Len(log) : log[i] = e

LeafOf(e, lg) == CHOOSE i \in 1..Len(lg) : lg[i] = e

Claimed == {t \in Transfers : claim[t] # 0}

\* _spend_claim_records(tree_size): the claims whose leaf is inside the tree.
SpendMapAt(size) == {t \in Transfers : claim[t] # 0 /\ claim[t] =< size}

\* The newest signed root of a set, by (timestamp, tree_size).
LatestRoot(S) ==
    CHOOSE r \in S : \A s \in S :
        \/ s.ts < r.ts
        \/ s.ts = r.ts /\ Len(s.entries) =< Len(r.entries)

NotPublishing == [stage |-> "idle", root |-> NoRoot]

TypeOK ==
    /\ opState \in OpStates
    /\ failure \in {"none", "conflict", "sources", "unavailable", "feeds",
                   "mirror"}
    /\ log \in Seq(Entries)
    /\ bodies \subseteq Transfers
    /\ claim \in [Transfers -> Nat]
    /\ roots \subseteq Root
    /\ request \in [Requests -> Entries \cup {Idle}]
    /\ publish \in [Threads -> [stage : {"idle", "begun", "signed", "mirrored"},
                               root : Root \cup {NoRoot}]]
    /\ recovery \in {"idle", "local", "sources", "entries", "claims", "feeds",
                     "catch_up", "activate", "publish"}
    /\ restoring \in Root \cup {NoRoot}
    /\ claimsLeft \subseteq Transfers
    /\ feedLeft \subseteq Transfers
    /\ mirror \in Seq(Root)
    /\ archive \subseteq Root
    /\ crashes \in Nat /\ restoreCrashes \in Nat
    /\ diskLosses \in Nat /\ idleRoots \in Nat

\* Everything a process start resets.
ThreadsAtRest ==
    /\ request' = [q \in Requests |-> Idle]
    /\ publish' = [p \in Threads |-> NotPublishing]
    /\ recovery' = "idle"
    /\ restoring' = NoRoot
    /\ claimsLeft' = {}
    /\ feedLeft' = {}

\* _initialize_operator_state on a database without a state row.
FirstState == IF RecoveryRequired THEN "recovering" ELSE "active"

Init ==
    /\ opState = FirstState
    /\ failure = "none"
    /\ log = <<>> /\ bodies = {} /\ claim = [t \in Transfers |-> 0]
    /\ roots = {}
    /\ request = [q \in Requests |-> Idle]
    /\ publish = [p \in Threads |-> NotPublishing]
    /\ recovery = "idle" /\ restoring = NoRoot
    /\ claimsLeft = {} /\ feedLeft = {}
    /\ mirror = <<>>
    /\ archive = {}
    /\ crashes = 0 /\ restoreCrashes = 0 /\ diskLosses = 0 /\ idleRoots = 0

-----------------------------------------------------------------------------
(* Appending *)

\* append_log_entry_conn: idempotent by entry hash, COALESCE on transfer_json.
AppendEntry(e) == log' = IF InLog(e) THEN log ELSE Append(log, e)

\* Mutants of RecordClaim: a 1-based leaf index taken for a 0-based one, and an
\* UPDATE without COALESCE that stores the tree size.
RecordClaimOffByOne(t, lg) ==
    claim' = [claim EXCEPT ![t] = IF @ = 0 THEN LeafOf(t, lg) + 1 ELSE @]
RecordClaimRebinds(t, lg) == claim' = [claim EXCEPT ![t] = Len(lg)]

\* _record_spend_claim: INSERT OR IGNORE, then COALESCE of the leaf index.
RecordClaim(t, lg) ==
    claim' = [claim EXCEPT ![t] = IF @ = 0 THEN LeafOf(t, lg) ELSE @]

\* Mutant of ConflictingClaim: only claims under a signed root count.
ConflictingSignedClaim(t) == \E r \in roots : \E u \in r.map : Siblings(t, u)

\* _reject_conflicting_spend_claim.
ConflictingClaim(t) == \E u \in Claimed : Siblings(t, u)

\* Mutants of AppendTransfer: no conflict check; no spend claim.
AppendTransferUnchecked(t) ==
    /\ AppendEntry(t)
    /\ bodies' = bodies \cup {t}
    /\ RecordClaim(t, log')
AppendTransferUnclaimed(t) ==
    /\ ~ConflictingClaim(t)
    /\ AppendEntry(t)
    /\ bodies' = bodies \cup {t}
    /\ UNCHANGED claim

\* The transaction of append_transfer_announcement.
AppendTransfer(t) ==
    /\ ~ConflictingClaim(t)
    /\ AppendEntry(t)
    /\ bodies' = bodies \cup {t}
    /\ RecordClaim(t, log')

\* is_active() is read here, before validation and outside the lock.
BeginAppend(q, e) ==
    /\ request[q] = Idle
    /\ opState = "active"
    /\ request' = [request EXCEPT ![q] = e]
    /\ UNCHANGED <<database, publish, recovery, restoring, claimsLeft, feedLeft,
                   outside, counters>>

\* The announcement is invalid, late without witnesses, or conflicts.
RefuseAppend(q) ==
    /\ request[q] # Idle
    /\ request' = [request EXCEPT ![q] = Idle]
    /\ UNCHANGED <<database, publish, recovery, restoring, claimsLeft, feedLeft,
                   outside, counters>>

CommitTransfer(q) ==
    /\ request[q] \in Transfers
    /\ AppendTransfer(request[q])
    /\ request' = [request EXCEPT ![q] = Idle]
    /\ UNCHANGED <<opState, failure, roots, publish, recovery, restoring,
                   claimsLeft, feedLeft, outside, counters>>

CommitCheckpoint(q) ==
    /\ request[q] \in Checkpoints
    /\ AppendEntry(request[q])
    /\ request' = [request EXCEPT ![q] = Idle]
    /\ UNCHANGED <<opState, failure, bodies, claim, roots, publish, recovery,
                   restoring, claimsLeft, feedLeft, outside, counters>>

-----------------------------------------------------------------------------
(* Publishing signed roots *)

\* _reconcile_transfer_spend_claims: claims for logged bodies that have none.
Reconciled ==
    [t \in Transfers |->
        IF claim[t] = 0 /\ t \in bodies /\ InLog(t) THEN LeafOf(t, log)
        ELSE claim[t]]

\* Mutants of RootTimestamp: the clock as it is; the bump with the wrong sign.
RootTimestampClock(clock) == clock
RootTimestampBackwards(clock) ==
    IF roots = {} \/ clock > LatestRoot(roots).ts THEN clock
    ELSE LatestRoot(roots).ts - 1

\* The timestamp never repeats nor precedes the newest stored root.
RootTimestamp(clock) ==
    IF roots = {} \/ clock > LatestRoot(roots).ts THEN clock
    ELSE LatestRoot(roots).ts + 1

NewRoot(clock) ==
    [entries |-> log, map |-> {t \in Transfers : Reconciled[t] # 0},
     ts |-> RootTimestamp(clock)]

\* Mutant of BeginPublish: only the first root is ever due.
BeginFirstPublish(p) ==
    /\ p \in Publishers
    /\ publish[p] = NotPublishing
    /\ opState = "active" /\ roots = {}
    /\ publish' = [publish EXCEPT ![p].stage = "begun"]
    /\ UNCHANGED <<database, request, recovery, restoring, claimsLeft, feedLeft,
                   outside, counters>>

\* maybe_publish_root and GET /v3/root read is_active outside the lock.
BeginPublish(p) ==
    /\ p \in Publishers
    /\ publish[p] = NotPublishing
    /\ opState = "active"
    /\ publish' = [publish EXCEPT ![p].stage = "begun"]
    /\ UNCHANGED <<database, request, recovery, restoring, claimsLeft, feedLeft,
                   outside, counters>>

\* A root that repeats the newest one is an idle root; their number is bounded.
CountIdle(p, r) ==
    LET idle == /\ p \in Publishers
                /\ \E s \in roots : s.entries = r.entries /\ s.map = r.map
    IN  /\ idle => idleRoots < MaxIdleRoots
        /\ idleRoots' = IF idle THEN idleRoots + 1 ELSE idleRoots

\* _conflicting_spend_claim, on the claims as reconciled.
NoConflictingClaim == Unconflicted({t \in Transfers : Reconciled[t] # 0})

\* publish_root under _append_lock: reconcile, refuse a conflicting map, sign.
SignRoot(p) ==
    /\ \/ p \in Publishers /\ publish[p].stage = "begun"
       \/ p = RecoveryThread /\ recovery = "publish"
    /\ claim' = Reconciled
    /\ recovery' = IF p = RecoveryThread THEN "idle" ELSE recovery
    /\ \/ /\ NoConflictingClaim
          /\ \E clock \in 0..MaxClock :
                LET r == NewRoot(clock) IN
                /\ CountIdle(p, r)
                /\ roots' = roots \cup {r}
                /\ publish' = [publish EXCEPT ![p] =
                                 [stage |-> "signed", root |-> r]]
          /\ UNCHANGED <<opState, failure>>
       \/ /\ ~NoConflictingClaim
          /\ opState' = "failed_safe" /\ failure' = "conflict"
          /\ publish' = [publish EXCEPT ![p] = NotPublishing]
          /\ UNCHANGED <<roots, idleRoots>>
    /\ UNCHANGED <<log, bodies, request, restoring, claimsLeft, feedLeft,
                   outside, crashes, restoreCrashes, diskLosses>>

\* _mirror_root, outside the lock: the root files, then the proof archive.
MirrorRoot(p) ==
    /\ publish[p].stage = "signed"
    /\ mirror' = Append(mirror, publish[p].root)
    /\ publish' = [publish EXCEPT ![p] = IF WriteArchives
                                        THEN [@ EXCEPT !.stage = "mirrored"]
                                        ELSE NotPublishing]
    /\ UNCHANGED <<database, request, recovery, restoring, claimsLeft, feedLeft,
                   archive, counters>>

\* proof_archive(size) is for the newest stored root of that size.
RootForTreeSize(size) == LatestRoot({r \in roots : Len(r.entries) = size})

MirrorArchive(p) ==
    LET size == Len(publish[p].root.entries)
        r    == RootForTreeSize(size)
    IN  /\ publish[p].stage = "mirrored"
        /\ SpendMapAt(size) = r.map
        /\ archive' = {a \in archive : Len(a.entries) # size} \cup {r}
        /\ publish' = [publish EXCEPT ![p] = NotPublishing]
        /\ UNCHANGED <<database, request, recovery, restoring, claimsLeft,
                       feedLeft, mirror, counters>>

\* A mirror write raises: publishers log it, run_recovery fails safe.
MirrorFailure(p) ==
    /\ publish[p].stage \in {"signed", "mirrored"}
    /\ publish' = [publish EXCEPT ![p] = NotPublishing]
    /\ IF p = RecoveryThread
       THEN opState' = "failed_safe" /\ failure' = "mirror"
       ELSE UNCHANGED <<opState, failure>>
    /\ UNCHANGED <<log, bodies, claim, roots, request, recovery, restoring,
                   claimsLeft, feedLeft, outside, counters>>

-----------------------------------------------------------------------------
(* Recovery *)

FailSafe(why) ==
    /\ opState' = "failed_safe" /\ failure' = why
    /\ recovery' = "idle" /\ restoring' = NoRoot
    /\ claimsLeft' = {} /\ feedLeft' = {}

\* Mutant of StartRecovery: the recovery sources are never verified.
StartRecoveryUnverified ==
    /\ RecoveryRequired
    /\ recovery = "idle" /\ opState = "recovering"
    /\ opState' = "catching_up" /\ failure' = "none"
    /\ recovery' = "feeds"
    /\ UNCHANGED <<log, bodies, claim, roots, request, publish, restoring,
                   claimsLeft, feedLeft, outside, counters>>

\* _recovery_worker runs once, at process start.
StartRecovery ==
    /\ RecoveryRequired
    /\ recovery = "idle" /\ opState = "recovering"
    /\ opState' = "catching_up" /\ failure' = "none"
    /\ recovery' = "local"
    /\ UNCHANGED <<log, bodies, claim, roots, request, publish, restoring,
                   claimsLeft, feedLeft, outside, counters>>

\* equivocation_collision_type: same size or time, different fingerprint.
Equivocates(r, s) ==
    /\ Len(r.entries) = Len(s.entries) \/ r.ts = s.ts
    /\ r.entries # s.entries \/ r.map # s.map

LocalRootsHold ==
    /\ \A r, s \in roots : ~Equivocates(r, s)
    /\ \A r \in roots : Prefix(r.entries, log)

CheckLocalRoots ==
    /\ recovery = "local"
    /\ IF LocalRootsHold
       THEN /\ recovery' = "sources"
            /\ UNCHANGED <<opState, failure, restoring, claimsLeft, feedLeft>>
       ELSE FailSafe("sources")
    /\ UNCHANGED <<log, bodies, claim, roots, request, publish, outside, counters>>

\* Mirrored roots the local tree already covers must match it.
MirroredRootsHold ==
    \A i \in DOMAIN mirror :
        Len(mirror[i].entries) =< Len(log) => Prefix(mirror[i].entries, log)

\* Mutant of FirstBehind: a mirrored root ahead of the log is passed over.
FirstBehindIgnored(i) == FALSE

\* Roots are visited by tree size, equal sizes in mirror order.
FirstBehind(i) ==
    /\ Len(mirror[i].entries) > Len(log)
    /\ \A j \in DOMAIN mirror :
         Len(mirror[j].entries) > Len(log) =>
            \/ Len(mirror[i].entries) < Len(mirror[j].entries)
            \/ Len(mirror[i].entries) = Len(mirror[j].entries) /\ i =< j

\* verify_proof_archive ties an archive to one signed root by its id.
CanRestore(r) == r \in archive /\ Prefix(log, r.entries)

CheckSources ==
    /\ recovery = "sources"
    /\ \/ /\ MirroredRootsHold
          /\ \A i \in DOMAIN mirror : ~FirstBehind(i)
          /\ recovery' = "feeds"
          /\ UNCHANGED <<opState, failure, restoring, claimsLeft, feedLeft>>
       \/ /\ MirroredRootsHold
          /\ \E i \in DOMAIN mirror :
               /\ FirstBehind(i) /\ CanRestore(mirror[i])
               /\ restoring' = mirror[i]
               /\ claimsLeft' = mirror[i].map
          /\ recovery' = "entries"
          /\ UNCHANGED <<opState, failure, feedLeft>>
       \/ /\ \/ ~MirroredRootsHold
             \/ \E i \in DOMAIN mirror :
                    FirstBehind(i) /\ ~CanRestore(mirror[i])
          /\ FailSafe("sources")
       \/ FailSafe("unavailable")   \* a source cannot be read
    /\ UNCHANGED <<log, bodies, claim, roots, request, publish, outside, counters>>

\* _restore_prefix_from_proof_archive: every entry, then every claim.
RestoreEntry ==
    /\ recovery = "entries"
    /\ IF Len(log) < Len(restoring.entries)
       THEN /\ log' = Append(log, restoring.entries[Len(log) + 1])
            /\ UNCHANGED recovery
       ELSE recovery' = "claims" /\ UNCHANGED log
    /\ UNCHANGED <<opState, failure, bodies, claim, roots, request, publish,
                   restoring, claimsLeft, feedLeft, outside, counters>>

\* The transfer body of a claim is written in a transaction of its own.
RestoreBody(t) ==
    /\ recovery = "claims"
    /\ t \in claimsLeft
    /\ claimsLeft \cap bodies = {}
    /\ bodies' = bodies \cup {t}
    /\ UNCHANGED <<opState, failure, log, claim, roots, request, publish,
                   recovery, restoring, claimsLeft, feedLeft, outside, counters>>

RestoreClaim(t) ==
    /\ recovery = "claims"
    /\ t \in claimsLeft \cap bodies
    /\ RecordClaim(t, log)
    /\ claimsLeft' = claimsLeft \ {t}
    /\ UNCHANGED <<opState, failure, log, bodies, roots, request, publish,
                   recovery, restoring, feedLeft, outside, counters>>

FinishRestore ==
    /\ recovery = "claims" /\ claimsLeft = {}
    /\ IF SpendMapAt(Len(restoring.entries)) = restoring.map
       THEN /\ roots' = roots \cup {restoring}
            /\ recovery' = "sources" /\ restoring' = NoRoot
            /\ UNCHANGED <<opState, failure, claimsLeft, feedLeft>>
       ELSE FailSafe("sources") /\ UNCHANGED roots
    /\ UNCHANGED <<log, bodies, claim, request, publish, outside, counters>>

\* catch_up_from_recovery_feeds: the candidates a quorum of feeds carries.
LoadFeeds ==
    /\ recovery = "feeds"
    /\ \/ /\ feedLeft' \in SUBSET Transfers
          /\ recovery' = "catch_up"
          /\ UNCHANGED <<opState, failure, restoring, claimsLeft>>
       \/ FailSafe("feeds")
    /\ UNCHANGED <<log, bodies, claim, roots, request, publish, outside, counters>>

\* Mutant of CatchUp: a candidate that cannot be appended is tried again.
CatchUpRetries(t) ==
    /\ recovery = "catch_up" /\ t \in feedLeft
    /\ \A u \in feedLeft : FeedRank[t] =< FeedRank[u]
    /\ feedLeft' = feedLeft \ {t}
    /\ ~InLog(t) /\ AppendTransfer(t)
    /\ UNCHANGED <<opState, failure, roots, request, publish, recovery,
                   restoring, claimsLeft, outside, counters>>

\* A logged candidate is a duplicate; a conflicting or unwitnessed one is
\* reported and skipped.
CatchUp(t) ==
    /\ recovery = "catch_up" /\ t \in feedLeft
    /\ \A u \in feedLeft : FeedRank[t] =< FeedRank[u]
    /\ feedLeft' = feedLeft \ {t}
    /\ \/ ~InLog(t) /\ AppendTransfer(t)
       \/ UNCHANGED <<log, bodies, claim>>
    /\ UNCHANGED <<opState, failure, roots, request, publish, recovery,
                   restoring, claimsLeft, outside, counters>>

CaughtUp ==
    /\ recovery = "catch_up" /\ feedLeft = {}
    /\ recovery' = "activate"
    /\ UNCHANGED <<database, request, publish, restoring, claimsLeft, feedLeft,
                   outside, counters>>

\* activate() commits before run_recovery publishes its first root.
Activate ==
    /\ recovery = "activate"
    /\ opState' = "active" /\ failure' = "none"
    /\ recovery' = "publish"
    /\ UNCHANGED <<log, bodies, claim, roots, request, publish, restoring,
                   claimsLeft, feedLeft, outside, counters>>

-----------------------------------------------------------------------------
(* Crashes *)

InRestore == recovery \in {"entries", "claims"}

\* Mutant of RestartState: a restart clears fail-safe.
RestartStateCleared == IF RecoveryRequired THEN "recovering" ELSE opState

\* _initialize_operator_state on a database that has a state row.
RestartState ==
    IF RecoveryRequired /\ opState # "failed_safe" THEN "recovering" ELSE opState

Crash ==
    /\ IF InRestore
       THEN /\ restoreCrashes < MaxRestoreCrashes
            /\ restoreCrashes' = restoreCrashes + 1 /\ UNCHANGED crashes
       ELSE /\ crashes < MaxCrashes
            /\ crashes' = crashes + 1 /\ UNCHANGED restoreCrashes
    /\ ThreadsAtRest
    /\ opState' = RestartState
    /\ failure' = IF RestartState = "recovering" THEN "none" ELSE failure
    /\ UNCHANGED <<log, bodies, claim, roots, outside, diskLosses, idleRoots>>

\* The operator is restarted with its keys and mirrors but a blank database.
DiskLoss ==
    /\ RecoveryRequired
    /\ diskLosses < MaxDiskLosses
    /\ diskLosses' = diskLosses + 1
    /\ ThreadsAtRest
    /\ opState' = FirstState /\ failure' = "none"
    /\ log' = <<>> /\ bodies' = {} /\ claim' = [t \in Transfers |-> 0]
    /\ roots' = {}
    /\ UNCHANGED <<outside, crashes, restoreCrashes, idleRoots>>

-----------------------------------------------------------------------------
RecoveryStep ==
    \/ StartRecovery \/ CheckLocalRoots \/ CheckSources \/ RestoreEntry
    \/ \E t \in Transfers : RestoreBody(t) \/ RestoreClaim(t) \/ CatchUp(t)
    \/ FinishRestore \/ LoadFeeds \/ CaughtUp \/ Activate
    \/ SignRoot(RecoveryThread)

PublishStep(p) == BeginPublish(p) \/ SignRoot(p)

MirrorStep(p) == MirrorRoot(p) \/ MirrorArchive(p) \/ MirrorFailure(p)

Next ==
    \/ \E q \in Requests :
          \/ \E e \in Entries : BeginAppend(q, e)
          \/ RefuseAppend(q) \/ CommitTransfer(q) \/ CommitCheckpoint(q)
    \/ \E p \in Publishers : PublishStep(p)
    \/ \E p \in Threads : MirrorStep(p)
    \/ RecoveryStep
    \/ Crash \/ DiskLoss

Spec == Init /\ [][Next]_vars

\* The recovery worker, the publisher loop, the append workers and the mirror
\* writes they end in are ordinary threads that the scheduler keeps running.
Fairness ==
    /\ WF_vars(RecoveryStep)
    /\ \A p \in Publishers : WF_vars(PublishStep(p))
    /\ \A p \in Threads : WF_vars(MirrorStep(p))

LiveSpec == Spec /\ Fairness
-----------------------------------------------------------------------------
(* Properties *)

MirroredRoots == {mirror[i] : i \in DOMAIN mirror}

\* No signed root, stored or mirrored, carries two transfers of one spend key:
\* publish_root reconciles the claims and fails safe before it would sign.
SignedRootsUnconflicted ==
    \A r \in roots \cup MirroredRoots \cup archive : Unconflicted(r.map)

\* Every spend claim names the leaf that holds its transfer, also while an
\* archive is being restored and after a crash at any point of it.
ClaimsPointAtLog ==
    \A t \in Claimed : claim[t] \in 1..Len(log) /\ log[claim[t]] = t

\* While the operator accepts appends, every logged transfer has its claim: the
\* append transaction and the archive restore leave no leaf without one.
ActiveLogFullyClaimed ==
    opState = "active" => \A t \in Transfers : InLog(t) => claim[t] # 0

\* An operator that accepts appends has not forgotten anything it mirrored: each
\* mirrored root is a prefix of its log, even after the disk was lost.
MirroredHistoryKept ==
    opState = "active" => \A r \in MirroredRoots : Prefix(r.entries, log)

\* The roots the operator mirrored over all its incarnations are one history:
\* of any two, one extends the other, and equal sizes sign equal spend maps.
MirrorNeverSplits ==
    \A r, s \in MirroredRoots :
        /\ Prefix(r.entries, s.entries) \/ Prefix(s.entries, r.entries)
        /\ r.entries = s.entries => r.map = s.map

\* Without a lost disk no two roots are equivocation evidence against their own
\* signer: publish_root never reuses a timestamp, whatever the clock says.
NoSelfEquivocation ==
    diskLosses = 0 =>
        \A r, s \in roots \cup MirroredRoots : ~Equivocates(r, s)

\* A claim once committed is never rebound and the log never shrinks, except
\* when the database itself is lost.
HistoryOnlyGrows ==
    [][diskLosses' = diskLosses =>
         /\ Prefix(log, log')
         /\ \A t \in Claimed : claim'[t] = claim[t]]_vars

\* Nothing but a blank database takes the operator out of fail-safe.
FailSafeIsSticky ==
    [][opState = "failed_safe" /\ diskLosses' = diskLosses
         => opState' = "failed_safe"]_vars

\* What a proof archive on the mirror proves.
ArchivedClaims == UNION {a.map : a \in archive}

\* The operator implements the first-claim-wins registry: no step of any thread,
\* crash or recovery lets a second transfer take a key whose claim is live or
\* archived.
Registry == INSTANCE SpendRegistry WITH
                registered <- Claimed \cup ArchivedClaims,
                durable    <- ArchivedClaims

ImplementsRegistry == Registry!Spec

\* THREAT_MODEL.md: the operator "rejects a conflicting spend claim for a spend
\* key it has already accepted".  No claim rivals one that an archive proves.
AcceptedClaimsHonoured ==
    \A t \in Claimed : \A u \in ArchivedClaims : ~Siblings(t, u)

\* Recovery ends: the operator serves appends again or stops in fail-safe.
RecoveryEnds ==
    opState \in {"recovering", "catching_up"} ~> opState \in {"active", "failed_safe"}

\* A claim an active operator accepted reaches a signed root, unless the operator
\* leaves the active state.
AcceptedIsSigned ==
    \A t \in Transfers :
        (opState = "active" /\ claim[t] # 0)
            ~> (opState # "active" \/ \E r \in roots : t \in r.map)

=============================================================================
