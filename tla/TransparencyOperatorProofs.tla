--------------------- MODULE TransparencyOperatorProofs ---------------------
(***************************************************************************)
(* Proofs about TransparencyOperator that hold for every set of transfers, *)
(* threads and bounds: type correctness, claims that point at the log,     *)
(* signed roots without a conflict, and a history that only grows.  While  *)
(* its disk lasts no two roots of an operator are evidence against it and  *)
(* fail-safe is for good.  A lost disk does not cost it what it mirrored:  *)
(* recovery restores the tree before the operator serves again and, unless *)
(* a crash tears the restore, the claims with it, so the operator          *)
(* implements SpendRegistry.                                               *)
(***************************************************************************)
EXTENDS TransparencyOperator, WellFoundedInduction, TLAPS

-----------------------------------------------------------------------------
(* The newest root of a bounded set of roots exists *)

\* A non-empty bounded set of naturals has a largest element, which is what makes
\* "ORDER BY timestamp DESC LIMIT 1" return a row.
LEMMA MaxOfBounded ==
    ASSUME NEW S \in SUBSET Nat, NEW b \in Nat, S # {}, \A n \in S : n =< b
    PROVE  \E m \in S : \A n \in S : n =< m
<1> DEFINE T == {b - n : n \in S}
<1>1. T \subseteq Nat /\ T # {}
    <2>1. \A n \in S : n \in Nat /\ b - n \in Nat
        OBVIOUS
    <2>2. PICK n \in S : TRUE
        OBVIOUS
    <2>3. b - n \in T
        BY <2>2
    <2> QED BY <2>1, <2>3
<1>2. \E x \in T : \A y \in T : ~(<<y, x>> \in OpToRel(<, Nat))
    BY <1>1, NatLessThanWellFounded, WFMin
<1>3. PICK x \in T : \A y \in T : ~(y < x)
    BY <1>1, <1>2 DEF OpToRel
<1>4. PICK m \in S : x = b - m
    BY <1>3
<1>5. \A n \in S : ~(b - n < b - m)
    BY <1>3, <1>4
<1> QED
    BY <1>4, <1>5

\* Every timestamp and tree size of a set of roots is below some bound.
Bounded(S) == \E b \in Nat : \A r \in S : r.ts =< b /\ Len(r.entries) =< b

\* latest_root and root_for_tree_size return one of the rows they select from.
LEMMA LatestRootIn ==
    ASSUME NEW S \in SUBSET Root, S # {}, Bounded(S)
    PROVE  LatestRoot(S) \in S
<1>1. PICK b \in Nat : \A r \in S : r.ts =< b /\ Len(r.entries) =< b
    BY DEF Bounded
<1>2. \A r \in S : r.ts \in Nat /\ Len(r.entries) \in Nat
    BY DEF Root
<1> DEFINE Times == {r.ts : r \in S}
<1>3. PICK m \in Times : \A n \in Times : n =< m
    <2>1. Times \in SUBSET Nat /\ Times # {} /\ \A n \in Times : n =< b
        BY <1>1, <1>2
    <2> HIDE DEF Times
    <2> QED BY <2>1, MaxOfBounded
<1> DEFINE Newest == {r \in S : r.ts = m}
           Sizes  == {Len(r.entries) : r \in Newest}
<1>4. PICK z \in Sizes : \A n \in Sizes : n =< z
    <2>1. Sizes \in SUBSET Nat /\ Sizes # {} /\ \A n \in Sizes : n =< b
        BY <1>1, <1>2, <1>3
    <2> HIDE DEF Sizes
    <2> QED BY <2>1, MaxOfBounded
<1>5. PICK r \in S : r.ts = m /\ Len(r.entries) = z
    BY <1>4
<1>6. \A s \in S : s.ts < r.ts \/ (s.ts = r.ts /\ Len(s.entries) =< Len(r.entries))
    <2> SUFFICES ASSUME NEW s \in S
                 PROVE  s.ts < m \/ (s.ts = m /\ Len(s.entries) =< z)
        BY <1>5
    <2>1. s.ts \in Times /\ s.ts \in Nat /\ m \in Nat
        BY <1>2, <1>3
    <2>2. s.ts < m \/ s.ts = m
        <3> HIDE DEF Times
        <3>1. s.ts =< m
            BY <1>3, <2>1
        <3> QED BY <2>1, <3>1
    <2>3. CASE s.ts = m
        <3>1. Len(s.entries) \in Sizes
            BY <2>3
        <3> QED BY <1>4, <2>3, <3>1
    <2> QED BY <2>2, <2>3
<1> QED
    BY <1>6 DEF LatestRoot

-----------------------------------------------------------------------------
(* The inductive invariant *)

AllRoots == roots \cup MirroredRoots \cup archive

\* No request or publisher is under way until recovery has activated the
\* operator, so the restore steps run alone.
QuietRecovery ==
    /\ opState \in {"recovering", "catching_up"} =>
         /\ \A q \in Requests : request[q] = Idle
         /\ \A p \in Threads : publish[p] = NotPublishing
    /\ recovery \notin {"idle", "publish"} => opState = "catching_up"
    /\ recovery = "publish" => opState \in {"active", "failed_safe"}

\* A restore works on a mirrored root and stays inside its prefix.
RestoreTracksMirror ==
    /\ InRestore => restoring \in MirroredRoots /\ claimsLeft \subseteq restoring.map
    /\ recovery = "entries" => Prefix(log, restoring.entries)
    /\ recovery = "claims" => log = restoring.entries

\* A root on its way to the mirror is already stored.
PublishedStored ==
    \A p \in Threads : publish[p].stage \in {"signed", "mirrored"} =>
                          publish[p].root \in roots

\* A root's spend map only names transfers of its tree.
MapInTree(r) == \A t \in r.map : \E i \in 1..Len(r.entries) : r.entries[i] = t

MapsInTrees == \A r \in AllRoots : MapInTree(r)

Inv ==
    /\ TypeOK
    /\ Bounded(roots)
    /\ QuietRecovery
    /\ RestoreTracksMirror
    /\ PublishedStored
    /\ MapsInTrees
    /\ ClaimsPointAtLog
    /\ SignedRootsUnconflicted

-----------------------------------------------------------------------------
(* Facts about the helpers *)

\* The leaf of a logged entry is the position that holds it.
LEMMA LeafOfLogged ==
    ASSUME NEW e, NEW lg \in Seq(Entries), \E i \in 1..Len(lg) : lg[i] = e
    PROVE  LeafOf(e, lg) \in 1..Len(lg) /\ lg[LeafOf(e, lg)] = e
BY DEF LeafOf

\* Reconciling adds claims for logged bodies and keeps the others.
LEMMA ReconciledPoints ==
    ASSUME Inv
    PROVE  /\ Reconciled \in [Transfers -> Nat]
           /\ \A t \in Transfers : Reconciled[t] # 0 =>
                 Reconciled[t] \in 1..Len(log) /\ log[Reconciled[t]] = t
           /\ \A t \in Transfers : claim[t] # 0 => Reconciled[t] = claim[t]
<1>1. log \in Seq(Entries) /\ claim \in [Transfers -> Nat] /\ Len(log) \in Nat
    BY DEF Inv, TypeOK
<1>2. ASSUME NEW t \in Transfers
      PROVE  /\ Reconciled[t] \in Nat
             /\ Reconciled[t] # 0 =>
                  Reconciled[t] \in 1..Len(log) /\ log[Reconciled[t]] = t
             /\ claim[t] # 0 => Reconciled[t] = claim[t]
    <2>1. CASE claim[t] = 0 /\ t \in bodies /\ InLog(t)
        <3>1. Reconciled[t] = LeafOf(t, log)
            BY <2>1 DEF Reconciled
        <3> QED BY <1>1, <2>1, <3>1, LeafOfLogged DEF InLog
    <2>2. CASE ~(claim[t] = 0 /\ t \in bodies /\ InLog(t))
        <3>1. Reconciled[t] = claim[t]
            BY <2>2 DEF Reconciled
        <3> QED BY <1>1, <3>1 DEF Inv, ClaimsPointAtLog, Claimed
    <2> QED BY <2>1, <2>2
<1>3. Reconciled = [t \in Transfers |-> Reconciled[t]]
    BY DEF Reconciled
<1> QED BY <1>2, <1>3

\* The transaction of append_transfer_announcement extends the log by at most one
\* leaf and binds the claim to the transfer's own leaf.
LEMMA AppendTransferFacts ==
    ASSUME Inv, NEW t \in Transfers, AppendTransfer(t)
    PROVE  /\ log' \in Seq(Entries) /\ Prefix(log, log')
           /\ claim' \in [Transfers -> Nat] /\ bodies' \subseteq Transfers
           /\ \A u \in Claimed : claim'[u] = claim[u]
           /\ ClaimsPointAtLog'
<1>1. /\ log \in Seq(Entries) /\ claim \in [Transfers -> Nat] /\ Len(log) \in Nat
      /\ t \in Entries
    BY DEF Inv, TypeOK, Entries
<1>2. /\ log' \in Seq(Entries) /\ Prefix(log, log') /\ Len(log') \in Nat
      /\ \E i \in 1..Len(log') : log'[i] = t
    BY <1>1 DEF AppendTransfer, AppendEntry, InLog, Prefix
<1>3. LeafOf(t, log') \in 1..Len(log') /\ log'[LeafOf(t, log')] = t
    BY <1>2, LeafOfLogged
<1>4. /\ claim' \in [Transfers -> Nat]
      /\ \A u \in Transfers : u # t => claim'[u] = claim[u]
      /\ claim'[t] = IF claim[t] = 0 THEN LeafOf(t, log') ELSE claim[t]
    BY <1>1, <1>2, <1>3 DEF AppendTransfer, RecordClaim
<1>5. \A u \in Claimed : claim'[u] = claim[u]
    BY <1>4 DEF Claimed
<1>6. ClaimsPointAtLog'
    <2> SUFFICES ASSUME NEW u \in Transfers, claim'[u] # 0
                 PROVE  claim'[u] \in 1..Len(log') /\ log'[claim'[u]] = u
        BY DEF ClaimsPointAtLog, Claimed
    <2>1. CASE claim[u] # 0
        <3>1. claim[u] \in 1..Len(log) /\ log[claim[u]] = u
            BY <2>1 DEF Inv, ClaimsPointAtLog, Claimed
        <3>2. claim'[u] = claim[u]
            BY <1>4, <2>1
        <3> QED BY <1>1, <1>2, <3>1, <3>2 DEF Prefix
    <2>2. CASE claim[u] = 0
        BY <1>3, <1>4, <2>2
    <2> QED BY <2>1, <2>2
<1>7. bodies' \subseteq Transfers
    BY DEF AppendTransfer, Inv, TypeOK
<1> QED BY <1>2, <1>4, <1>5, <1>6, <1>7

\* A new root added to a bounded set leaves it bounded.
LEMMA BoundedAdd ==
    ASSUME NEW S \in SUBSET Root, Bounded(S), NEW r \in Root
    PROVE  Bounded(S \cup {r})
<1>1. PICK b \in Nat : \A s \in S : s.ts =< b /\ Len(s.entries) =< b
    BY DEF Bounded
<1>2. r.ts \in Nat /\ Len(r.entries) \in Nat
    BY DEF Root
<1>3. \A s \in S : s.ts \in Nat /\ Len(s.entries) \in Nat
    BY DEF Root
<1> DEFINE c == b + r.ts + Len(r.entries)
<1>4. c \in Nat /\ \A s \in S \cup {r} : s.ts =< c /\ Len(s.entries) =< c
    BY <1>1, <1>2, <1>3
<1> QED BY <1>4 DEF Bounded

\* What publish_root signs is a well-formed root of the current tree.
LEMMA NewRootFacts ==
    ASSUME Inv, NEW clock \in 0..MaxClock
    PROVE  NewRoot(clock) \in Root /\ MapInTree(NewRoot(clock))
<1>1. RootTimestamp(clock) \in Nat
    <2>1. clock \in Nat
        BY BoundAssumption
    <2>2. roots # {} => LatestRoot(roots).ts \in Nat
        BY LatestRootIn DEF Inv, TypeOK, Root
    <2> QED BY <2>1, <2>2 DEF RootTimestamp
<1>2. log \in Seq(Entries)
    BY DEF Inv, TypeOK
<1>3. NewRoot(clock) \in Root
    BY <1>1, <1>2 DEF NewRoot, Root
<1>4. MapInTree(NewRoot(clock))
    BY ReconciledPoints DEF NewRoot, MapInTree
<1> QED BY <1>3, <1>4

\* The archive written for a mirrored root is for a stored root of its size.
LEMMA RootForTreeSizeStored ==
    ASSUME Inv, NEW r \in roots
    PROVE  RootForTreeSize(Len(r.entries)) \in roots
<1> DEFINE S == {s \in roots : Len(s.entries) = Len(r.entries)}
<1>1. S \in SUBSET Root /\ S # {} /\ Bounded(S)
    BY DEF Inv, TypeOK, Bounded
<1>2. LatestRoot(S) \in S
    <2> HIDE DEF S
    <2> QED BY <1>1, LatestRootIn
<1> QED BY <1>2 DEF RootForTreeSize

\* Appending to the mirror adds exactly the appended root.
LEMMA MirrorAppend ==
    ASSUME TypeOK, NEW r \in Root, mirror' = Append(mirror, r)
    PROVE  mirror' \in Seq(Root) /\ MirroredRoots' = MirroredRoots \cup {r}
<1>1. /\ mirror \in Seq(Root) /\ mirror' \in Seq(Root)
      /\ Len(mirror) \in Nat /\ Len(mirror') = Len(mirror) + 1
      /\ \A i \in 1..Len(mirror) : mirror'[i] = mirror[i]
      /\ mirror'[Len(mirror) + 1] = r
    BY DEF TypeOK
<1>2. DOMAIN mirror = 1..Len(mirror) /\ DOMAIN mirror' = 1..(Len(mirror) + 1)
    BY <1>1
<1>3. DOMAIN mirror' = DOMAIN mirror \cup {Len(mirror) + 1}
    BY <1>1, <1>2
<1>4. \A i \in DOMAIN mirror : mirror'[i] = mirror[i]
    BY <1>1, <1>2
<1> QED BY <1>1, <1>3, <1>4 DEF MirroredRoots

-----------------------------------------------------------------------------
(* Steps that leave the log, the claims, the roots and the mirror alone *)

\* The invariants about roots depend on the stored, mirrored and archived roots only.
LEMMA RootsUnchanged ==
    ASSUME Inv, UNCHANGED <<roots, outside>>
    PROVE  Bounded(roots)' /\ MapsInTrees' /\ SignedRootsUnconflicted'
<1>1. roots' = roots /\ mirror' = mirror /\ archive' = archive
    BY DEF outside
<1>2. MirroredRoots' = MirroredRoots
    BY <1>1 DEF MirroredRoots
<1>3. AllRoots' = AllRoots
    BY <1>1, <1>2 DEF AllRoots
<1>4. Bounded(roots)' /\ MapsInTrees'
    BY <1>1, <1>3 DEF Inv, Bounded, MapsInTrees, MapInTree
<1>5. SignedRootsUnconflicted'
    BY <1>1, <1>2 DEF Inv, SignedRootsUnconflicted, Unconflicted, Siblings
<1> QED BY <1>4, <1>5

Stored == <<log, claim, roots, outside>>

\* A step that leaves the database alone keeps what the invariant says of it.
LEMMA StoredUnchanged ==
    ASSUME Inv, UNCHANGED Stored
    PROVE  /\ Bounded(roots)' /\ MapsInTrees'
           /\ ClaimsPointAtLog' /\ SignedRootsUnconflicted'
<1>1. ClaimsPointAtLog'
    BY DEF Inv, Stored, ClaimsPointAtLog, Claimed
<1> QED BY <1>1, RootsUnchanged DEF Stored

\* do_POST takes a request: only the append thread changes.
LEMMA BeginAppendInv ==
    ASSUME Inv, NEW q \in Requests, NEW e \in Entries, BeginAppend(q, e)
    PROVE  Inv'
<1> USE DEF BeginAppend, database, outside, counters
<1>1. TypeOK'
    BY DEF Inv, TypeOK
<1>2. QuietRecovery'
    BY DEF Inv, QuietRecovery, TypeOK
<1>3. RestoreTracksMirror'
    BY DEF Inv, RestoreTracksMirror, InRestore, MirroredRoots, Prefix
<1>4. PublishedStored'
    BY DEF Inv, TypeOK, PublishedStored
<1> QED
    BY <1>1, <1>2, <1>3, <1>4, StoredUnchanged DEF Stored, Inv

\* A refused append only frees its thread.
LEMMA RefuseAppendInv ==
    ASSUME Inv, NEW q \in Requests, RefuseAppend(q)
    PROVE  Inv'
<1> USE DEF RefuseAppend, database, outside, counters
<1>1. TypeOK'
    BY DEF Inv, TypeOK
<1>2. QuietRecovery'
    BY DEF Inv, QuietRecovery, TypeOK
<1>3. RestoreTracksMirror'
    BY DEF Inv, RestoreTracksMirror, InRestore, MirroredRoots, Prefix
<1>4. PublishedStored'
    BY DEF Inv, TypeOK, PublishedStored
<1> QED
    BY <1>1, <1>2, <1>3, <1>4, StoredUnchanged DEF Stored, Inv

\* maybe_publish_root starts a publication: only the publisher changes.
LEMMA BeginPublishInv ==
    ASSUME Inv, NEW p \in Publishers, BeginPublish(p)
    PROVE  Inv'
<1> USE DEF BeginPublish, database, outside, counters, Threads, NotPublishing
<1>1. TypeOK'
    BY DEF Inv, TypeOK
<1>2. QuietRecovery'
    BY DEF Inv, QuietRecovery, TypeOK
<1>3. RestoreTracksMirror'
    BY DEF Inv, RestoreTracksMirror, InRestore, MirroredRoots, Prefix
<1>4. PublishedStored'
    BY DEF Inv, TypeOK, PublishedStored
<1> QED
    BY <1>1, <1>2, <1>3, <1>4, StoredUnchanged DEF Stored, Inv

\* A failed mirror write leaves database and mirror as they are.
LEMMA MirrorFailureInv ==
    ASSUME Inv, NEW p \in Threads, MirrorFailure(p)
    PROVE  Inv'
<1> USE DEF MirrorFailure, database, outside, counters, NotPublishing, OpStates
<1>1. TypeOK'
    BY DEF Inv, TypeOK
<1>2. QuietRecovery'
    BY DEF Inv, QuietRecovery, TypeOK
<1>3. RestoreTracksMirror'
    BY DEF Inv, RestoreTracksMirror, InRestore, MirroredRoots, Prefix
<1>4. PublishedStored'
    BY DEF Inv, TypeOK, PublishedStored
<1> QED
    BY <1>1, <1>2, <1>3, <1>4, StoredUnchanged DEF Stored, Inv

\* _recovery_worker starts without touching the database.
LEMMA StartRecoveryInv ==
    ASSUME Inv, StartRecovery
    PROVE  Inv'
<1> USE DEF StartRecovery, database, outside, counters, OpStates
<1>1. TypeOK'
    BY DEF Inv, TypeOK
<1>2. QuietRecovery'
    BY DEF Inv, QuietRecovery, TypeOK
<1>3. RestoreTracksMirror'
    BY DEF Inv, RestoreTracksMirror, InRestore, MirroredRoots, Prefix
<1>4. PublishedStored'
    BY DEF Inv, TypeOK, PublishedStored
<1> QED
    BY <1>1, <1>2, <1>3, <1>4, StoredUnchanged DEF Stored, Inv

\* Checking the local roots only reads them.
LEMMA CheckLocalRootsInv ==
    ASSUME Inv, CheckLocalRoots
    PROVE  Inv'
<1> USE DEF CheckLocalRoots, database, outside, counters, FailSafe, OpStates
<1>1. TypeOK'
    BY DEF Inv, TypeOK
<1>2. QuietRecovery'
    BY DEF Inv, QuietRecovery, TypeOK
<1>3. RestoreTracksMirror'
    BY DEF Inv, RestoreTracksMirror, InRestore, MirroredRoots, Prefix
<1>4. PublishedStored'
    BY DEF Inv, TypeOK, PublishedStored
<1> QED
    BY <1>1, <1>2, <1>3, <1>4, StoredUnchanged DEF Stored, Inv

\* Checking the mirrored roots picks the archive to restore, if any.
LEMMA CheckSourcesInv ==
    ASSUME Inv, CheckSources
    PROVE  Inv'
<1> USE DEF CheckSources, database, outside, counters, FailSafe, OpStates
<1>1. \A i \in DOMAIN mirror : mirror[i] \in Root /\ mirror[i].map \subseteq Transfers
    <2>1. \A i \in DOMAIN mirror : mirror[i] \in Root
        BY DEF Inv, TypeOK
    <2> QED BY <2>1 DEF Root
<1>2. TypeOK'
    BY <1>1 DEF Inv, TypeOK
<1>3. QuietRecovery'
    BY DEF Inv, QuietRecovery, TypeOK
<1>4. RestoreTracksMirror'
    BY DEF RestoreTracksMirror, InRestore, MirroredRoots, CanRestore, Prefix
<1>5. PublishedStored'
    BY DEF Inv, TypeOK, PublishedStored
<1> QED
    BY <1>2, <1>3, <1>4, <1>5, StoredUnchanged DEF Stored, Inv

\* Reading the feeds changes the recovery thread only.
LEMMA LoadFeedsInv ==
    ASSUME Inv, LoadFeeds
    PROVE  Inv'
<1> USE DEF LoadFeeds, database, outside, counters, FailSafe, OpStates
<1>1. TypeOK'
    BY DEF Inv, TypeOK
<1>2. QuietRecovery'
    BY DEF Inv, QuietRecovery, TypeOK
<1>3. RestoreTracksMirror'
    BY DEF Inv, RestoreTracksMirror, InRestore, MirroredRoots, Prefix
<1>4. PublishedStored'
    BY DEF Inv, TypeOK, PublishedStored
<1> QED
    BY <1>1, <1>2, <1>3, <1>4, StoredUnchanged DEF Stored, Inv

\* The end of the catch-up changes the recovery thread only.
LEMMA CaughtUpInv ==
    ASSUME Inv, CaughtUp
    PROVE  Inv'
<1> USE DEF CaughtUp, database, outside, counters
<1>1. TypeOK'
    BY DEF Inv, TypeOK
<1>2. QuietRecovery'
    BY DEF Inv, QuietRecovery, TypeOK
<1>3. RestoreTracksMirror'
    BY DEF Inv, RestoreTracksMirror, InRestore, MirroredRoots, Prefix
<1>4. PublishedStored'
    BY DEF Inv, TypeOK, PublishedStored
<1> QED
    BY <1>1, <1>2, <1>3, <1>4, StoredUnchanged DEF Stored, Inv

\* Activation writes the operator state only.
LEMMA ActivateInv ==
    ASSUME Inv, Activate
    PROVE  Inv'
<1> USE DEF Activate, database, outside, counters, OpStates
<1>1. TypeOK'
    BY DEF Inv, TypeOK
<1>2. QuietRecovery'
    BY DEF Inv, QuietRecovery, TypeOK
<1>3. RestoreTracksMirror'
    BY DEF Inv, RestoreTracksMirror, InRestore, MirroredRoots, Prefix
<1>4. PublishedStored'
    BY DEF Inv, TypeOK, PublishedStored
<1> QED
    BY <1>1, <1>2, <1>3, <1>4, StoredUnchanged DEF Stored, Inv

\* A crash loses threads and keeps the committed tables and the mirror.
LEMMA CrashInv ==
    ASSUME Inv, Crash
    PROVE  Inv'
<1> USE DEF Crash, database, outside, counters, ThreadsAtRest, RestartState, NotPublishing, OpStates
<1>1. TypeOK'
    BY DEF Inv, TypeOK
<1>2. QuietRecovery'
    BY DEF Inv, QuietRecovery, TypeOK
<1>3. RestoreTracksMirror'
    BY DEF Inv, RestoreTracksMirror, InRestore, MirroredRoots, Prefix
<1>4. PublishedStored'
    BY DEF Inv, TypeOK, PublishedStored
<1> QED
    BY <1>1, <1>2, <1>3, <1>4, StoredUnchanged DEF Stored, Inv

\* A restored transfer body adds neither a leaf nor a claim.
LEMMA RestoreBodyInv ==
    ASSUME Inv, NEW t \in Transfers, RestoreBody(t)
    PROVE  Inv'
<1> USE DEF RestoreBody, database, outside, counters
<1>1. TypeOK'
    BY DEF Inv, TypeOK
<1>2. QuietRecovery'
    BY DEF Inv, QuietRecovery, TypeOK
<1>3. RestoreTracksMirror'
    BY DEF Inv, RestoreTracksMirror, InRestore, MirroredRoots, Prefix
<1>4. PublishedStored'
    BY DEF Inv, TypeOK, PublishedStored
<1> QED
    BY <1>1, <1>2, <1>3, <1>4, StoredUnchanged DEF Stored, Inv

-----------------------------------------------------------------------------
(* Steps that change them *)

\* Appending while a request is open: recovery is not restoring anything.
LEMMA CommitTransferInv ==
    ASSUME Inv, NEW q \in Requests, CommitTransfer(q)
    PROVE  Inv'
<1> USE DEF CommitTransfer, outside, counters
<1>1. request[q] # Idle /\ request[q] \in Transfers
    BY ThreadAssumption
<1>2. opState \notin {"recovering", "catching_up"} /\ recovery \in {"idle", "publish"}
    BY <1>1 DEF Inv, QuietRecovery
<1>3. /\ log' \in Seq(Entries) /\ claim' \in [Transfers -> Nat]
      /\ bodies' \subseteq Transfers /\ ClaimsPointAtLog'
    BY <1>1, AppendTransferFacts
<1>4. TypeOK'
    BY <1>3 DEF Inv, TypeOK
<1>5. QuietRecovery' /\ RestoreTracksMirror'
    BY <1>2 DEF Inv, QuietRecovery, RestoreTracksMirror, InRestore
<1>6. PublishedStored'
    BY DEF Inv, PublishedStored
<1> QED BY <1>3, <1>4, <1>5, <1>6, RootsUnchanged DEF Inv

\* A checkpoint entry is appended without a claim.
LEMMA CommitCheckpointInv ==
    ASSUME Inv, NEW q \in Requests, CommitCheckpoint(q)
    PROVE  Inv'
<1> USE DEF CommitCheckpoint, outside, counters
<1>1. request[q] # Idle /\ request[q] \in Entries
    BY ThreadAssumption DEF Entries
<1>2. opState \notin {"recovering", "catching_up"} /\ recovery \in {"idle", "publish"}
    BY <1>1 DEF Inv, QuietRecovery
<1>3. log \in Seq(Entries) /\ log' \in Seq(Entries) /\ Prefix(log, log')
    BY <1>1 DEF Inv, TypeOK, AppendEntry, Prefix
<1>4. TypeOK'
    BY <1>3 DEF Inv, TypeOK
<1>5. QuietRecovery' /\ RestoreTracksMirror'
    BY <1>2 DEF Inv, QuietRecovery, RestoreTracksMirror, InRestore
<1>6. PublishedStored'
    BY DEF Inv, PublishedStored
<1>7. ClaimsPointAtLog'
    BY <1>3 DEF Inv, ClaimsPointAtLog, Claimed, Prefix
<1> QED BY <1>4, <1>5, <1>6, <1>7, RootsUnchanged DEF Inv

\* The catch-up appends a transfer like a request, or skips it.
LEMMA CatchUpInv ==
    ASSUME Inv, NEW t \in Transfers, CatchUp(t)
    PROVE  Inv'
<1> USE DEF CatchUp, outside, counters
<1>1. /\ log' \in Seq(Entries) /\ claim' \in [Transfers -> Nat]
      /\ bodies' \subseteq Transfers /\ ClaimsPointAtLog'
    <2>1. CASE AppendTransfer(t)
        BY <2>1, AppendTransferFacts
    <2>2. CASE UNCHANGED <<log, bodies, claim>>
        BY <2>2 DEF Inv, TypeOK, ClaimsPointAtLog, Claimed
    <2> QED BY <2>1, <2>2
<1>2. TypeOK'
    BY <1>1 DEF Inv, TypeOK
<1>3. QuietRecovery' /\ RestoreTracksMirror'
    BY DEF Inv, QuietRecovery, RestoreTracksMirror, InRestore
<1>4. PublishedStored'
    BY DEF Inv, PublishedStored
<1> QED BY <1>1, <1>2, <1>3, <1>4, RootsUnchanged DEF Inv

\* publish_root: the map it signs is the reconciled one it checked.
LEMMA SignRootInv ==
    ASSUME Inv, NEW p \in Threads, SignRoot(p)
    PROVE  Inv'
<1> USE DEF SignRoot, outside
<1>1. /\ claim' = Reconciled /\ log' = log /\ mirror' = mirror /\ archive' = archive
      /\ MirroredRoots' = MirroredRoots
    BY DEF MirroredRoots
<1>2. /\ opState \in {"active", "failed_safe"}
      /\ recovery \in {"idle", "publish"} /\ recovery' \in {"idle", "publish"}
    <2>1. CASE recovery = "publish"
        BY <2>1 DEF Inv, QuietRecovery
    <2>2. CASE p \in Publishers /\ publish[p].stage = "begun"
        <3>1. publish[p] # NotPublishing
            BY <2>2 DEF NotPublishing
        <3> QED BY <2>2, <3>1, ThreadAssumption
                DEF Inv, QuietRecovery, TypeOK, OpStates, Threads
    <2> QED BY <2>1, <2>2
<1>3. ClaimsPointAtLog' /\ claim' \in [Transfers -> Nat]
    BY <1>1, ReconciledPoints DEF ClaimsPointAtLog, Claimed
<1>4. CASE ~NoConflictingClaim
    <2>1. /\ roots' = roots /\ opState' = "failed_safe" /\ failure' = "conflict"
          /\ idleRoots' = idleRoots
          /\ publish' = [publish EXCEPT ![p] = NotPublishing]
        BY <1>4
    <2>2. TypeOK'
        BY <1>1, <1>2, <1>3, <2>1 DEF Inv, TypeOK, OpStates, NotPublishing
    <2>3. QuietRecovery' /\ RestoreTracksMirror'
        BY <1>2, <2>1 DEF QuietRecovery, RestoreTracksMirror, InRestore
    <2>4. PublishedStored'
        BY <1>4 DEF Inv, TypeOK, PublishedStored, NotPublishing
    <2> QED BY <1>1, <1>3, <2>1, <2>2, <2>3, <2>4, RootsUnchanged DEF Inv
<1>5. CASE NoConflictingClaim
    <2>1. PICK clock \in 0..MaxClock :
             /\ CountIdle(p, NewRoot(clock))
             /\ roots' = roots \cup {NewRoot(clock)}
             /\ publish' = [publish EXCEPT ![p] =
                              [stage |-> "signed", root |-> NewRoot(clock)]]
             /\ UNCHANGED <<opState, failure>>
        BY <1>5
    <2> DEFINE r == NewRoot(clock)
    <2>2. r \in Root /\ MapInTree(r)
        BY NewRootFacts
    <2>3. Unconflicted(r.map)
        BY <1>5 DEF NoConflictingClaim, NewRoot
    <2> HIDE DEF r
    <2>4. idleRoots' \in Nat
        BY <2>1 DEF CountIdle, Inv, TypeOK
    <2>5. TypeOK'
        BY <1>1, <1>2, <1>3, <2>1, <2>2, <2>4 DEF Inv, TypeOK, r
    <2>6. QuietRecovery' /\ RestoreTracksMirror'
        BY <1>2, <2>1 DEF QuietRecovery, RestoreTracksMirror, InRestore
    <2>7. PublishedStored'
        BY <2>1 DEF Inv, TypeOK, PublishedStored
    <2>8. Bounded(roots)'
        <3>1. Bounded(roots \cup {r})
            BY <2>2, BoundedAdd DEF Inv, TypeOK
        <3> QED BY <2>1, <3>1 DEF Bounded, r
    <2>9. MapsInTrees'
        BY <1>1, <2>1, <2>2 DEF Inv, MapsInTrees, AllRoots, MapInTree, r
    <2>10. SignedRootsUnconflicted'
        BY <1>1, <2>1, <2>3 DEF Inv, SignedRootsUnconflicted, Unconflicted, Siblings, r
    <2> QED BY <1>3, <2>5, <2>6, <2>7, <2>8, <2>9, <2>10 DEF Inv
<1> QED BY <1>4, <1>5

\* _mirror_root appends a stored root to the mirror.
LEMMA MirrorRootInv ==
    ASSUME Inv, NEW p \in Threads, MirrorRoot(p)
    PROVE  Inv'
<1> USE DEF MirrorRoot, database, counters
<1>1. publish[p] # NotPublishing /\ publish[p].root \in roots
    BY DEF Inv, PublishedStored, NotPublishing
<1>2. publish[p].root \in Root
    BY <1>1 DEF Inv, TypeOK
<1>3. /\ mirror' \in Seq(Root)
      /\ MirroredRoots' = MirroredRoots \cup {publish[p].root}
    BY <1>2, MirrorAppend DEF Inv
<1>4. TypeOK'
    BY <1>2, <1>3 DEF Inv, TypeOK, NotPublishing
<1>5. QuietRecovery'
    BY <1>1 DEF Inv, QuietRecovery, TypeOK
<1>6. RestoreTracksMirror'
    BY <1>3 DEF Inv, RestoreTracksMirror, InRestore, Prefix
<1>7. PublishedStored'
    BY DEF Inv, TypeOK, PublishedStored, NotPublishing
<1>8. Bounded(roots)' /\ ClaimsPointAtLog'
    BY DEF Inv, Bounded, ClaimsPointAtLog, Claimed
<1>9. AllRoots' = AllRoots
    BY <1>1, <1>3 DEF AllRoots
<1>10. MapsInTrees'
    BY <1>9 DEF Inv, MapsInTrees, MapInTree
<1>11. SignedRootsUnconflicted'
    BY <1>9 DEF Inv, SignedRootsUnconflicted, AllRoots, Unconflicted, Siblings
<1> QED BY <1>4, <1>5, <1>6, <1>7, <1>8, <1>10, <1>11 DEF Inv

\* The archive it then writes is for a stored root, possibly a newer one.
LEMMA MirrorArchiveInv ==
    ASSUME Inv, NEW p \in Threads, MirrorArchive(p)
    PROVE  Inv'
<1> USE DEF database, counters
<1> DEFINE size == Len(publish[p].root.entries)
           r    == RootForTreeSize(size)
<1>1. /\ publish[p].stage = "mirrored"
      /\ archive' = {a \in archive : Len(a.entries) # size} \cup {r}
      /\ publish' = [publish EXCEPT ![p] = NotPublishing]
      /\ UNCHANGED <<database, request, recovery, restoring, claimsLeft,
                     feedLeft, mirror, counters>>
    BY DEF MirrorArchive
<1>2. publish[p] # NotPublishing /\ publish[p].root \in roots
    BY <1>1 DEF Inv, PublishedStored, NotPublishing
<1>3. r \in roots
    BY <1>2, RootForTreeSizeStored
<1> HIDE DEF r, size
<1>4. archive' \subseteq archive \cup {r} /\ AllRoots' \subseteq AllRoots
    BY <1>1, <1>3 DEF AllRoots, MirroredRoots
<1>5. TypeOK'
    BY <1>1, <1>3, <1>4 DEF Inv, TypeOK, NotPublishing
<1>6. QuietRecovery'
    BY <1>1, <1>2 DEF Inv, QuietRecovery, TypeOK
<1>7. RestoreTracksMirror'
    BY <1>1 DEF Inv, RestoreTracksMirror, InRestore, MirroredRoots, Prefix
<1>8. PublishedStored'
    BY <1>1 DEF Inv, TypeOK, PublishedStored, NotPublishing
<1>9. Bounded(roots)' /\ ClaimsPointAtLog'
    BY <1>1 DEF Inv, Bounded, ClaimsPointAtLog, Claimed
<1>10. MapsInTrees'
    BY <1>4 DEF Inv, MapsInTrees, MapInTree
<1>11. SignedRootsUnconflicted'
    BY <1>4 DEF Inv, SignedRootsUnconflicted, AllRoots, Unconflicted, Siblings
<1> QED BY <1>5, <1>6, <1>7, <1>8, <1>9, <1>10, <1>11 DEF Inv

\* Restoring the next entry keeps the log a prefix of the archived tree.
LEMMA RestoreEntryInv ==
    ASSUME Inv, RestoreEntry
    PROVE  Inv'
<1> USE DEF outside, counters
<1>1. /\ recovery = "entries" /\ restoring \in MirroredRoots
      /\ claimsLeft \subseteq restoring.map /\ Prefix(log, restoring.entries)
      /\ UNCHANGED <<opState, failure, bodies, claim, roots, request, publish,
                     restoring, claimsLeft, feedLeft, outside, counters>>
    BY DEF RestoreEntry, Inv, RestoreTracksMirror, InRestore
<1>2. MirroredRoots' = MirroredRoots
    BY <1>1 DEF MirroredRoots
<1>3. restoring.entries \in Seq(Entries) /\ log \in Seq(Entries)
    <2>1. restoring \in Root /\ log \in Seq(Entries)
        BY <1>1 DEF Inv, TypeOK, MirroredRoots
    <2> QED BY <2>1 DEF Root
<1>4. /\ log' \in Seq(Entries) /\ Prefix(log, log')
      /\ \/ recovery' = "entries" /\ Prefix(log', restoring.entries)
         \/ recovery' = "claims" /\ log' = restoring.entries
    <2>1. CASE Len(log) < Len(restoring.entries)
        <3>1. log' = Append(log, restoring.entries[Len(log) + 1]) /\ recovery' = "entries"
            BY <1>1, <2>1 DEF RestoreEntry
        <3>2. /\ log' \in Seq(Entries) /\ Len(log') = Len(log) + 1
              /\ \A i \in 1..Len(log) : log'[i] = log[i]
              /\ log'[Len(log) + 1] = restoring.entries[Len(log) + 1]
            BY <1>3, <2>1, <3>1
        <3>3. Prefix(log', restoring.entries)
            BY <1>1, <1>3, <2>1, <3>2 DEF Prefix
        <3>4. Prefix(log, log')
            BY <1>3, <3>2 DEF Prefix
        <3> QED BY <3>1, <3>2, <3>3, <3>4
    <2>2. CASE ~(Len(log) < Len(restoring.entries))
        <3>1. log' = log /\ recovery' = "claims"
            BY <2>2 DEF RestoreEntry
        <3>2. log = restoring.entries
            BY <1>1, <1>3, <2>2 DEF Prefix
        <3> QED BY <1>3, <3>1, <3>2 DEF Prefix
    <2> QED BY <2>1, <2>2
<1>5. TypeOK'
    BY <1>1, <1>4 DEF Inv, TypeOK
<1>6. QuietRecovery'
    BY <1>1, <1>4 DEF Inv, QuietRecovery
<1>7. RestoreTracksMirror'
    BY <1>1, <1>2, <1>4 DEF RestoreTracksMirror, InRestore
<1>8. PublishedStored'
    BY <1>1 DEF Inv, PublishedStored
<1>9. ClaimsPointAtLog'
    BY <1>1, <1>3, <1>4 DEF Inv, ClaimsPointAtLog, Claimed, Prefix
<1> QED BY <1>1, <1>5, <1>6, <1>7, <1>8, <1>9, RootsUnchanged DEF Inv

\* A restored claim is for a transfer of the restored tree.
LEMMA RestoreClaimInv ==
    ASSUME Inv, NEW t \in Transfers, RestoreClaim(t)
    PROVE  Inv'
<1> USE DEF RestoreClaim, outside, counters
<1>1. /\ restoring \in MirroredRoots /\ log = restoring.entries
      /\ t \in restoring.map /\ log \in Seq(Entries) /\ Len(log) \in Nat
      /\ claim \in [Transfers -> Nat]
    BY DEF Inv, RestoreTracksMirror, InRestore, TypeOK
<1>2. \E i \in 1..Len(log) : log[i] = t
    BY <1>1 DEF Inv, MapsInTrees, AllRoots, MapInTree
<1>3. LeafOf(t, log) \in 1..Len(log) /\ log[LeafOf(t, log)] = t
    BY <1>1, <1>2, LeafOfLogged
<1>4. /\ claim' \in [Transfers -> Nat]
      /\ \A u \in Transfers : u # t => claim'[u] = claim[u]
      /\ claim'[t] = IF claim[t] = 0 THEN LeafOf(t, log) ELSE claim[t]
    BY <1>1, <1>3 DEF RecordClaim
<1>5. TypeOK'
    BY <1>4 DEF Inv, TypeOK
<1>6. QuietRecovery'
    BY DEF Inv, QuietRecovery
<1>7. RestoreTracksMirror'
    BY DEF Inv, RestoreTracksMirror, InRestore, MirroredRoots
<1>8. PublishedStored'
    BY DEF Inv, PublishedStored
<1>9. ClaimsPointAtLog'
    BY <1>1, <1>3, <1>4 DEF Inv, ClaimsPointAtLog, Claimed
<1> QED BY <1>5, <1>6, <1>7, <1>8, <1>9, RootsUnchanged DEF Inv

\* The restored root joins the stored ones.
LEMMA FinishRestoreInv ==
    ASSUME Inv, FinishRestore
    PROVE  Inv'
<1> USE DEF FinishRestore, FailSafe, outside, counters
<1>1. restoring \in MirroredRoots /\ restoring \in Root
    BY DEF Inv, RestoreTracksMirror, InRestore, TypeOK, MirroredRoots
<1>2. /\ roots' = roots \/ roots' = roots \cup {restoring}
      /\ MirroredRoots' = MirroredRoots /\ log' = log /\ claim' = claim
    BY DEF MirroredRoots
<1>3. AllRoots' = AllRoots
    BY <1>1, <1>2 DEF AllRoots
<1>4. TypeOK'
    BY <1>1 DEF Inv, TypeOK, OpStates
<1>5. QuietRecovery' /\ RestoreTracksMirror'
    BY DEF Inv, QuietRecovery, RestoreTracksMirror, InRestore
<1>6. PublishedStored'
    BY <1>2 DEF Inv, PublishedStored
<1>7. Bounded(roots)'
    <2>1. Bounded(roots \cup {restoring})
        BY <1>1, BoundedAdd DEF Inv, TypeOK
    <2> QED BY <1>2, <2>1 DEF Inv, Bounded
<1>8. MapsInTrees'
    BY <1>3 DEF Inv, MapsInTrees, MapInTree
<1>9. SignedRootsUnconflicted'
    BY <1>3 DEF Inv, SignedRootsUnconflicted, AllRoots, Unconflicted, Siblings
<1>10. ClaimsPointAtLog'
    BY <1>2 DEF Inv, ClaimsPointAtLog, Claimed
<1> QED BY <1>4, <1>5, <1>6, <1>7, <1>8, <1>9, <1>10 DEF Inv

\* A blank database satisfies the invariant beside any mirror.
LEMMA DiskLossInv ==
    ASSUME Inv, DiskLoss
    PROVE  Inv'
<1> USE DEF DiskLoss, ThreadsAtRest, FirstState, NotPublishing, outside
<1>1. TypeOK'
    BY DEF Inv, TypeOK, OpStates
<1>2. QuietRecovery' /\ RestoreTracksMirror' /\ PublishedStored'
    BY DEF Inv, TypeOK, QuietRecovery, RestoreTracksMirror, InRestore, PublishedStored
<1>3. MirroredRoots' = MirroredRoots /\ roots' = {} /\ archive' = archive
    BY DEF MirroredRoots
<1>4. Bounded(roots)' /\ ClaimsPointAtLog'
    BY DEF Bounded, ClaimsPointAtLog, Claimed
<1>5. MapsInTrees'
    BY <1>3 DEF Inv, MapsInTrees, AllRoots, MapInTree
<1>6. SignedRootsUnconflicted'
    BY <1>3 DEF Inv, SignedRootsUnconflicted, Unconflicted, Siblings
<1> QED BY <1>1, <1>2, <1>4, <1>5, <1>6 DEF Inv

-----------------------------------------------------------------------------
(* What a step may do to the history *)

Grows == Prefix(log, log') /\ \A t \in Claimed : claim'[t] = claim[t]

\* A step that leaves log and claims alone keeps the history.
LEMMA UnchangedGrows ==
    ASSUME Inv, UNCHANGED <<log, claim>>
    PROVE  Grows
<1>1. log \in Seq(Entries)
    BY DEF Inv, TypeOK
<1> QED BY <1>1 DEF Grows, Prefix

\* Appending an entry keeps the entries before it.
LEMMA AppendEntryGrows ==
    ASSUME Inv, NEW e, AppendEntry(e)
    PROVE  Prefix(log, log')
<1>1. log \in Seq(Entries)
    BY DEF Inv, TypeOK
<1> QED BY <1>1 DEF AppendEntry, Prefix

\* Every step but a lost disk keeps the log's entries and the claims.
LEMMA StepGrows ==
    ASSUME Inv, [Next]_vars, diskLosses' = diskLosses
    PROVE  Grows
<1> USE DEF database, outside, counters
<1>1. log \in Seq(Entries) /\ claim \in [Transfers -> Nat]
    BY DEF Inv, TypeOK
<1>2. ASSUME NEW q \in Requests, CommitTransfer(q) PROVE Grows
    BY <1>2, AppendTransferFacts DEF CommitTransfer, Grows
<1>3. ASSUME NEW q \in Requests, CommitCheckpoint(q) PROVE Grows
    BY <1>3, AppendEntryGrows DEF CommitCheckpoint, Grows
<1>4. ASSUME NEW p, SignRoot(p) PROVE Grows
    <2>1. log' = log /\ claim' = Reconciled
        BY <1>4 DEF SignRoot
    <2> QED BY <1>1, <2>1, ReconciledPoints DEF Grows, Claimed, Prefix
<1>5. ASSUME NEW t \in Transfers, CatchUp(t) PROVE Grows
    BY <1>5, AppendTransferFacts, UnchangedGrows DEF CatchUp, Grows
<1>6. ASSUME RestoreEntry PROVE Grows
    <2>1. claim' = claim
        BY <1>6 DEF RestoreEntry
    <2>2. Prefix(log, log')
        BY <1>1, <1>6 DEF RestoreEntry, Prefix
    <2> QED BY <2>1, <2>2 DEF Grows
<1>7. ASSUME NEW t \in Transfers, RestoreClaim(t) PROVE Grows
    BY <1>1, <1>7 DEF RestoreClaim, RecordClaim, Grows, Claimed, Prefix
<1>8. ASSUME NEW q, NEW e, BeginAppend(q, e) \/ RefuseAppend(q) PROVE Grows
    BY <1>8, UnchangedGrows DEF BeginAppend, RefuseAppend
<1>9. ASSUME NEW p, BeginPublish(p) \/ MirrorStep(p) PROVE Grows
    BY <1>9, UnchangedGrows
       DEF BeginPublish, MirrorStep, MirrorRoot, MirrorArchive, MirrorFailure
<1>10. ASSUME NEW t, RestoreBody(t) PROVE Grows
    BY <1>10, UnchangedGrows DEF RestoreBody
<1>11. ASSUME \/ StartRecovery \/ CheckLocalRoots \/ CheckSources
              \/ FinishRestore \/ LoadFeeds \/ CaughtUp \/ Activate
       PROVE  Grows
    BY <1>11, UnchangedGrows
       DEF StartRecovery, CheckLocalRoots, CheckSources, FinishRestore, LoadFeeds,
           CaughtUp, Activate
<1>12. ASSUME Crash PROVE Grows
    BY <1>12, UnchangedGrows DEF Crash
<1>13. ASSUME DiskLoss PROVE FALSE
    BY <1>13 DEF DiskLoss, Inv, TypeOK
<1>14. ASSUME UNCHANGED vars PROVE Grows
    BY <1>14, UnchangedGrows DEF vars
<1>15. ASSUME NEW p, PublishStep(p) PROVE Grows
    BY <1>4, <1>9, <1>15 DEF PublishStep
<1>16. ASSUME RecoveryStep PROVE Grows
    BY <1>4, <1>5, <1>6, <1>7, <1>10, <1>11, <1>16 DEF RecoveryStep
<1> QED
    BY <1>2, <1>3, <1>8, <1>9, <1>12, <1>13, <1>14, <1>15, <1>16 DEF Next

-----------------------------------------------------------------------------
(* Theorems *)

\* The blank operator satisfies the invariant.
LEMMA InitInv == Init => Inv
<1> SUFFICES ASSUME Init PROVE Inv
    OBVIOUS
<1> USE DEF Init
<1>1. TypeOK
    BY DEF TypeOK, OpStates, FirstState, NotPublishing
<1>2. QuietRecovery /\ RestoreTracksMirror /\ PublishedStored
    BY DEF QuietRecovery, RestoreTracksMirror, InRestore, PublishedStored, NotPublishing
<1>3. MirroredRoots = {}
    BY DEF MirroredRoots
<1>4. Bounded(roots) /\ ClaimsPointAtLog
    BY DEF Bounded, ClaimsPointAtLog, Claimed
<1>5. MapsInTrees /\ SignedRootsUnconflicted
    BY <1>3 DEF MapsInTrees, AllRoots, SignedRootsUnconflicted
<1> QED BY <1>1, <1>2, <1>4, <1>5 DEF Inv

\* Every step keeps the invariant.
LEMMA NextInv == Inv /\ [Next]_vars => Inv'
<1> SUFFICES ASSUME Inv, [Next]_vars PROVE Inv'
    OBVIOUS
<1>1. CASE \E q \in Requests :
             \/ \E e \in Entries : BeginAppend(q, e)
             \/ RefuseAppend(q) \/ CommitTransfer(q) \/ CommitCheckpoint(q)
    BY <1>1, BeginAppendInv, RefuseAppendInv, CommitTransferInv, CommitCheckpointInv
<1>2. CASE \E p \in Publishers : PublishStep(p)
    BY <1>2, BeginPublishInv, SignRootInv DEF PublishStep, Threads
<1>3. CASE \E p \in Threads : MirrorStep(p)
    BY <1>3, MirrorRootInv, MirrorArchiveInv, MirrorFailureInv DEF MirrorStep
<1>4. CASE RecoveryStep
    BY <1>4, StartRecoveryInv, CheckLocalRootsInv, CheckSourcesInv, RestoreEntryInv,
       RestoreBodyInv, RestoreClaimInv, CatchUpInv, FinishRestoreInv, LoadFeedsInv,
       CaughtUpInv, ActivateInv, SignRootInv DEF RecoveryStep, Threads
<1>5. CASE Crash \/ DiskLoss
    BY <1>5, CrashInv, DiskLossInv
<1>6. CASE UNCHANGED vars
    <2> USE <1>6 DEF vars, database, threads, outside, counters
    <2>1. TypeOK' /\ QuietRecovery' /\ PublishedStored'
        BY DEF Inv, TypeOK, QuietRecovery, PublishedStored
    <2>2. RestoreTracksMirror'
        BY DEF Inv, RestoreTracksMirror, InRestore, MirroredRoots, Prefix
    <2> QED BY <2>1, <2>2, StoredUnchanged DEF Stored, Inv
<1> QED
    BY <1>1, <1>2, <1>3, <1>4, <1>5, <1>6 DEF Next

\* The strengthened invariant holds in every reachable state.
THEOREM Invariance == Spec => []Inv
BY InitInv, NextInv, PTL DEF Spec

\* Type correctness of the operator's state, whatever the bounds.
THEOREM TypeCorrect == Spec => []TypeOK
<1>1. Inv => TypeOK
    BY DEF Inv
<1> QED BY <1>1, Invariance, PTL

\* No root the operator signs, stores, mirrors or archives ever carries two
\* transfers of one spend key: publish_root never signs a conflicting map.
THEOREM NoConflictIsSigned == Spec => []SignedRootsUnconflicted
<1>1. Inv => SignedRootsUnconflicted
    BY DEF Inv
<1> QED BY <1>1, Invariance, PTL

\* Every spend claim names the leaf of its own transfer, through appends,
\* reconciliation, archive restores and crashes at any point of them.
THEOREM ClaimsAreLogged == Spec => []ClaimsPointAtLog
<1>1. Inv => ClaimsPointAtLog
    BY DEF Inv
<1> QED BY <1>1, Invariance, PTL

\* Short of losing its database the operator never forgets a leaf and never
\* rebinds a spend claim, in any interleaving of its threads and crashes.
THEOREM HistoryIsKept == Spec => HistoryOnlyGrows
<1>1. ASSUME Inv, [Next]_vars
      PROVE  [diskLosses' = diskLosses =>
                /\ Prefix(log, log')
                /\ \A t \in Claimed : claim'[t] = claim[t]]_vars
    BY <1>1, StepGrows DEF Grows
<1> QED BY <1>1, Invariance, PTL DEF Spec, HistoryOnlyGrows

-----------------------------------------------------------------------------
(* The first life of the disk *)

\* What is true of an operator that never lost its disk: every logged transfer has
\* its claim, a root is a prefix of the log with the claims inside it, timestamps name
\* roots, and the mirror has nothing a restore would be needed for.
LogClaimed == \A t \in Transfers : InLog(t) => claim[t] # 0
RootsOfLog == \A r \in roots : Prefix(r.entries, log) /\ r.map = SpendMapAt(Len(r.entries))
TimesDiffer == \A r, s \in roots : r.ts = s.ts => r = s
MirrorStored == MirroredRoots \subseteq roots

OneLife == LogClaimed /\ RootsOfLog /\ TimesDiffer /\ MirrorStored /\ ~InRestore

-----------------------------------------------------------------------------
(* Lemmas *)

\* Prefixes chain, as roots of one tree do.
LEMMA PrefixChain ==
    ASSUME NEW S, NEW a \in Seq(S), NEW b \in Seq(S), NEW c \in Seq(S),
           Prefix(a, b), Prefix(b, c)
    PROVE  Prefix(a, c)
BY DEF Prefix

\* Two prefixes of one sequence that are equally long are equal.
LEMMA SamePrefix ==
    ASSUME NEW S, NEW a \in Seq(S), NEW b \in Seq(S), NEW c \in Seq(S),
           Prefix(a, c), Prefix(b, c), Len(a) = Len(b)
    PROVE  a = b
<1>1. \A i \in 1..Len(a) : a[i] = b[i]
    BY DEF Prefix
<1> QED BY <1>1

\* Of two prefixes of one sequence the shorter is a prefix of the longer.
LEMMA ShorterPrefix ==
    ASSUME NEW S, NEW a \in Seq(S), NEW b \in Seq(S), NEW c \in Seq(S),
           Prefix(a, c), Prefix(b, c), Len(a) =< Len(b)
    PROVE  Prefix(a, b)
<1>1. Len(a) \in Nat /\ Len(b) \in Nat
    OBVIOUS
<1>2. \A i \in 1..Len(a) : a[i] = c[i] /\ i \in 1..Len(b)
    BY <1>1 DEF Prefix
<1>3. \A i \in 1..Len(b) : b[i] = c[i]
    BY DEF Prefix
<1> QED BY <1>2, <1>3 DEF Prefix

\* latest_root is the newest: no stored root has a later timestamp.
LEMMA LatestRootNewest ==
    ASSUME NEW S \in SUBSET Root, S # {}, Bounded(S)
    PROVE  \A s \in S : s.ts =< LatestRoot(S).ts
<1>1. PICK b \in Nat : \A r \in S : r.ts =< b /\ Len(r.entries) =< b
    BY DEF Bounded
<1>2. \A r \in S : r.ts \in Nat /\ Len(r.entries) \in Nat
    BY DEF Root
<1> DEFINE Times == {r.ts : r \in S}
<1>3. PICK m \in Times : \A n \in Times : n =< m
    <2>1. Times \in SUBSET Nat /\ Times # {} /\ \A n \in Times : n =< b
        BY <1>1, <1>2
    <2> HIDE DEF Times
    <2> QED BY <2>1, MaxOfBounded
<1> DEFINE Newest == {r \in S : r.ts = m}
           Sizes  == {Len(r.entries) : r \in Newest}
<1>4. PICK z \in Sizes : \A n \in Sizes : n =< z
    <2>1. Sizes \in SUBSET Nat /\ Sizes # {} /\ \A n \in Sizes : n =< b
        BY <1>1, <1>2, <1>3
    <2> HIDE DEF Sizes
    <2> QED BY <2>1, MaxOfBounded
<1>5. PICK r \in S : r.ts = m /\ Len(r.entries) = z
    BY <1>4
<1>6. \A s \in S : s.ts < r.ts \/ (s.ts = r.ts /\ Len(s.entries) =< Len(r.entries))
    <2> SUFFICES ASSUME NEW s \in S
                 PROVE  s.ts < m \/ (s.ts = m /\ Len(s.entries) =< z)
        BY <1>5
    <2>1. s.ts \in Times /\ s.ts \in Nat /\ m \in Nat
        BY <1>2, <1>3
    <2>2. s.ts < m \/ s.ts = m
        <3> HIDE DEF Times
        <3>1. s.ts =< m
            BY <1>3, <2>1
        <3> QED BY <2>1, <3>1
    <2>3. CASE s.ts = m
        <3>1. Len(s.entries) \in Sizes
            BY <2>3
        <3> QED BY <1>4, <2>3, <3>1
    <2> QED BY <2>2, <2>3
<1>7. \A s \in S : \/ s.ts < LatestRoot(S).ts
                   \/ s.ts = LatestRoot(S).ts /\ Len(s.entries) =< Len(LatestRoot(S).entries)
    BY <1>5, <1>6 DEF LatestRoot
<1>8. LatestRoot(S).ts \in Nat
    BY <1>2, LatestRootIn
<1> QED BY <1>2, <1>7, <1>8

-----------------------------------------------------------------------------
(* One life: each kind of step *)

\* Steps that leave the log, the claims, the roots and the mirror alone.
LEMMA StoreUntouched ==
    ASSUME OneLife, UNCHANGED <<log, claim, roots, mirror>>, ~InRestore'
    PROVE  OneLife'
<1>1. LogClaimed'
    BY DEF OneLife, LogClaimed, InLog
<1>2. RootsOfLog'
    BY DEF OneLife, RootsOfLog, SpendMapAt, Prefix
<1>3. TimesDiffer'
    BY DEF OneLife, TimesDiffer
<1>4. MirrorStored'
    BY DEF OneLife, MirrorStored, MirroredRoots
<1> QED BY <1>1, <1>2, <1>3, <1>4 DEF OneLife

\* The append transaction never leaves a logged transfer without a claim.
LEMMA AppendKeepsClaimed ==
    ASSUME Inv, LogClaimed, NEW t \in Transfers, AppendTransfer(t)
    PROVE  LogClaimed'
<1>1. /\ log \in Seq(Entries) /\ claim \in [Transfers -> Nat] /\ Len(log) \in Nat
      /\ t \in Entries
    BY DEF Inv, TypeOK, Entries
<1>2. /\ log' \in Seq(Entries) /\ Prefix(log, log')
      /\ \E i \in 1..Len(log') : log'[i] = t
      /\ \A i \in 1..Len(log') : i \in 1..Len(log) \/ log'[i] = t
    BY <1>1 DEF AppendTransfer, AppendEntry, InLog, Prefix
<1>3. /\ \A u \in Transfers : u # t => claim'[u] = claim[u]
      /\ claim'[t] = IF claim[t] = 0 THEN LeafOf(t, log') ELSE claim[t]
      /\ LeafOf(t, log') \in 1..Len(log')
    BY <1>1, <1>2, LeafOfLogged DEF AppendTransfer, RecordClaim
<1> SUFFICES ASSUME NEW u \in Transfers, NEW i \in 1..Len(log'), log'[i] = u
             PROVE  claim'[u] # 0
    BY DEF LogClaimed, InLog
<1>4. CASE u = t
    BY <1>1, <1>3, <1>4
<1>5. CASE u # t
    <2>1. i \in 1..Len(log) /\ log[i] = u
        BY <1>2, <1>5 DEF Prefix
    <2> QED BY <1>3, <1>5, <2>1 DEF LogClaimed, InLog
<1> QED BY <1>4, <1>5

\* The append transaction claims a leaf beyond every signed tree, so no signed
\* spend map changes under its root.
LEMMA AppendKeepsOneLife ==
    ASSUME Inv, OneLife, NEW t \in Transfers, AppendTransfer(t),
           UNCHANGED <<roots, mirror, recovery>>
    PROVE  OneLife'
<1>1. /\ log \in Seq(Entries) /\ claim \in [Transfers -> Nat] /\ Len(log) \in Nat
      /\ t \in Entries /\ roots \subseteq Root
    BY DEF Inv, TypeOK, Entries
<1>2. /\ log' \in Seq(Entries) /\ Prefix(log, log')
      /\ \E i \in 1..Len(log') : log'[i] = t
      /\ \A i \in 1..Len(log') : i \in 1..Len(log) \/ log'[i] = t
    BY <1>1 DEF AppendTransfer, AppendEntry, InLog, Prefix
<1>3. /\ \A u \in Transfers : u # t => claim'[u] = claim[u]
      /\ claim'[t] = IF claim[t] = 0 THEN LeafOf(t, log') ELSE claim[t]
      /\ LeafOf(t, log') \in 1..Len(log') /\ log'[LeafOf(t, log')] = t
    BY <1>1, <1>2, LeafOfLogged DEF AppendTransfer, RecordClaim
<1>4. LogClaimed'
    BY AppendKeepsClaimed DEF OneLife
<1>5. claim[t] = 0 => claim'[t] > Len(log)
    <2> SUFFICES ASSUME claim[t] = 0 PROVE claim'[t] > Len(log)
        OBVIOUS
    <2>1. \A i \in 1..Len(log) : log[i] # t
        BY DEF OneLife, LogClaimed, InLog
    <2>2. \A i \in 1..Len(log) : log'[i] # t
        BY <2>1, <1>2 DEF Prefix
    <2> QED BY <1>1, <1>2, <1>3, <2>2
<1>6. RootsOfLog'
    <2> SUFFICES ASSUME NEW r \in roots
                 PROVE  Prefix(r.entries, log') /\ r.map = SpendMapAt(Len(r.entries))'
        BY DEF RootsOfLog
    <2>1. r.entries \in Seq(Entries) /\ Len(r.entries) \in Nat
        BY <1>1 DEF Root
    <2>2. Prefix(r.entries, log) /\ r.map = SpendMapAt(Len(r.entries))
        BY DEF OneLife, RootsOfLog
    <2>3. Prefix(r.entries, log')
        BY <1>1, <1>2, <2>1, <2>2, PrefixChain
    <2>4. \A u \in Transfers :
            claim'[u] # 0 /\ claim'[u] =< Len(r.entries)
                <=> claim[u] # 0 /\ claim[u] =< Len(r.entries)
        <3> SUFFICES ASSUME NEW u \in Transfers
                     PROVE  claim'[u] # 0 /\ claim'[u] =< Len(r.entries)
                               <=> claim[u] # 0 /\ claim[u] =< Len(r.entries)
            OBVIOUS
        <3>1. CASE u = t /\ claim[t] = 0
            <4>1. claim'[t] > Len(log) /\ Len(r.entries) =< Len(log)
                BY <1>5, <2>2, <3>1 DEF Prefix
            <4>2. claim'[t] \in Nat
                BY <1>2, <1>3, <3>1
            <4> QED BY <1>1, <2>1, <3>1, <4>1, <4>2
        <3>2. CASE ~(u = t /\ claim[t] = 0)
            BY <1>3, <3>2
        <3> QED BY <3>1, <3>2
    <2> QED BY <2>2, <2>3, <2>4 DEF SpendMapAt
<1>7. TimesDiffer' /\ MirrorStored' /\ ~InRestore'
    BY DEF OneLife, TimesDiffer, MirrorStored, MirroredRoots, InRestore
<1> QED BY <1>4, <1>6, <1>7 DEF OneLife

\* A compact checkpoint is a leaf without a claim.
LEMMA CheckpointKeepsOneLife ==
    ASSUME Inv, OneLife, NEW q \in Requests, CommitCheckpoint(q)
    PROVE  OneLife'
<1>1. /\ request[q] \in Checkpoints /\ request[q] \notin Transfers
      /\ request[q] \in Entries
    BY TransferAssumption DEF CommitCheckpoint, Entries
<1>2. /\ log \in Seq(Entries) /\ Len(log) \in Nat /\ roots \subseteq Root
    BY DEF Inv, TypeOK
<1>3. /\ log' \in Seq(Entries) /\ Prefix(log, log')
      /\ \A i \in 1..Len(log') : i \in 1..Len(log) \/ log'[i] = request[q]
    BY <1>1, <1>2 DEF CommitCheckpoint, AppendEntry, Prefix
<1>4. claim' = claim /\ roots' = roots /\ mirror' = mirror /\ recovery' = recovery
    BY DEF CommitCheckpoint, outside
<1>5. LogClaimed'
    BY <1>1, <1>3, <1>4 DEF OneLife, LogClaimed, InLog, Prefix
<1>6. RootsOfLog'
    <2> SUFFICES ASSUME NEW r \in roots
                 PROVE  Prefix(r.entries, log') /\ r.map = SpendMapAt(Len(r.entries))'
        BY <1>4 DEF RootsOfLog
    <2>1. r.entries \in Seq(Entries)
        BY <1>2 DEF Root
    <2>2. Prefix(r.entries, log) /\ r.map = SpendMapAt(Len(r.entries))
        BY DEF OneLife, RootsOfLog
    <2> QED BY <1>2, <1>3, <1>4, <2>1, <2>2, PrefixChain DEF SpendMapAt
<1>7. TimesDiffer' /\ MirrorStored' /\ ~InRestore'
    BY <1>4 DEF OneLife, TimesDiffer, MirrorStored, MirroredRoots, InRestore
<1> QED BY <1>5, <1>6, <1>7 DEF OneLife

\* publish_root signs the whole log with exactly its claims, at a time no stored
\* root has: the bump past the newest root is what makes that so.
LEMMA SignKeepsOneLife ==
    ASSUME Inv, OneLife, NEW p \in Threads, SignRoot(p)
    PROVE  OneLife'
<1>1. /\ log \in Seq(Entries) /\ claim \in [Transfers -> Nat] /\ Len(log) \in Nat
      /\ roots \in SUBSET Root /\ Bounded(roots)
    BY DEF Inv, TypeOK
<1>2. Reconciled = claim
    <2>1. \A t \in Transfers : Reconciled[t] = claim[t]
        BY DEF Reconciled, OneLife, LogClaimed
    <2> QED BY <1>1, <2>1 DEF Reconciled
<1>3. log' = log /\ claim' = claim /\ mirror' = mirror
    BY <1>2 DEF SignRoot, outside
<1>4. ~InRestore'
    BY DEF SignRoot, OneLife, InRestore
<1>5. CASE roots' = roots
    BY <1>3, <1>4, <1>5, StoreUntouched
<1>6. ASSUME NEW clock \in 0..MaxClock, roots' = roots \cup {NewRoot(clock)}
      PROVE  OneLife'
    <2> DEFINE r == NewRoot(clock)
    <2>1. r.entries = log /\ r.ts = RootTimestamp(clock)
        BY DEF NewRoot
    <2>2. r.map = SpendMapAt(Len(log))
        <3>1. r.map = {t \in Transfers : claim[t] # 0}
            BY <1>2 DEF NewRoot
        <3>2. \A t \in Transfers : claim[t] # 0 => claim[t] =< Len(log)
            BY <1>1 DEF Inv, ClaimsPointAtLog, Claimed
        <3> QED BY <3>1, <3>2 DEF SpendMapAt
    <2>3. \A s \in roots : s.ts # r.ts
        <3> SUFFICES ASSUME NEW s \in roots PROVE s.ts # r.ts
            OBVIOUS
        <3>1. s.ts =< LatestRoot(roots).ts
            BY <1>1, LatestRootNewest
        <3>2. s.ts \in Nat /\ LatestRoot(roots).ts \in Nat
            BY <1>1, LatestRootIn DEF Root
        <3>3. clock \in Nat
            BY BoundAssumption
        <3> QED BY <2>1, <3>1, <3>2, <3>3 DEF RootTimestamp
    <2>4. LogClaimed'
        BY <1>3 DEF OneLife, LogClaimed, InLog
    <2>5. RootsOfLog'
        <3>1. Prefix(log, log)
            BY <1>1 DEF Prefix
        <3>2. \A s \in roots :
                Prefix(s.entries, log) /\ s.map = SpendMapAt(Len(s.entries))
            BY DEF OneLife, RootsOfLog
        <3>3. \A n \in Nat : SpendMapAt(n)' = SpendMapAt(n)
            BY <1>3 DEF SpendMapAt
        <3>4. \A s \in roots' :
                Prefix(s.entries, log) /\ s.map = SpendMapAt(Len(s.entries))
            <4> HIDE DEF r
            <4> QED BY <1>6, <2>1, <2>2, <3>1, <3>2 DEF r
        <3> QED BY <1>3, <3>4 DEF RootsOfLog, SpendMapAt
    <2>6. TimesDiffer'
        BY <1>6, <2>3 DEF OneLife, TimesDiffer
    <2>7. MirrorStored'
        BY <1>3, <1>6 DEF OneLife, MirrorStored, MirroredRoots
    <2> QED BY <1>4, <2>4, <2>5, <2>6, <2>7 DEF OneLife
<1> QED BY <1>5, <1>6 DEF SignRoot

\* _mirror_root writes a root that is stored already.
LEMMA MirrorKeepsOneLife ==
    ASSUME Inv, OneLife, NEW p \in Threads, MirrorRoot(p)
    PROVE  OneLife'
<1>1. publish[p].root \in roots /\ publish[p].root \in Root
    BY DEF MirrorRoot, Inv, PublishedStored, TypeOK
<1>2. MirroredRoots' = MirroredRoots \cup {publish[p].root}
    BY <1>1, MirrorAppend DEF MirrorRoot, Inv
<1>3. log' = log /\ claim' = claim /\ roots' = roots /\ recovery' = recovery
    BY DEF MirrorRoot, database
<1>4. LogClaimed' /\ RootsOfLog' /\ TimesDiffer' /\ ~InRestore'
    BY <1>3 DEF OneLife, LogClaimed, InLog, RootsOfLog, SpendMapAt, Prefix,
                TimesDiffer, InRestore
<1>5. MirrorStored'
    BY <1>1, <1>2, <1>3 DEF OneLife, MirrorStored
<1> QED BY <1>4, <1>5 DEF OneLife

\* Every mirrored root is stored, so none is ahead of the log and the recovery
\* sources never start an archive restore.
LEMMA SourcesKeepOneLife ==
    ASSUME Inv, OneLife, CheckSources
    PROVE  OneLife'
<1>1. \A i \in DOMAIN mirror : Len(mirror[i].entries) =< Len(log)
    BY DEF OneLife, MirrorStored, MirroredRoots, RootsOfLog, Prefix
<1>2. \A i \in DOMAIN mirror : Len(mirror[i].entries) \in Nat /\ Len(log) \in Nat
    BY DEF Inv, TypeOK, Root
<1>3. \A i \in DOMAIN mirror : ~FirstBehind(i)
    BY <1>1, <1>2 DEF FirstBehind
<1>4. ~InRestore'
    BY <1>3 DEF CheckSources, FailSafe, InRestore
<1>5. UNCHANGED <<log, claim, roots, mirror>>
    BY DEF CheckSources, outside
<1> QED BY <1>4, <1>5, StoreUntouched

-----------------------------------------------------------------------------
(* The invariant and its theorems *)

\* What holds of the operator until its disk is lost.
FirstLife == diskLosses = 0 => OneLife

\* A new database has logged, signed and mirrored nothing.
LEMMA FirstLifeInit == Init => FirstLife
<1> SUFFICES ASSUME Init PROVE OneLife
    BY DEF FirstLife
<1>1. LogClaimed /\ RootsOfLog /\ TimesDiffer /\ ~InRestore
    BY DEF Init, LogClaimed, InLog, RootsOfLog, TimesDiffer, InRestore
<1>2. MirrorStored
    BY DEF Init, MirrorStored, MirroredRoots
<1> QED BY <1>1, <1>2 DEF OneLife

\* Every step keeps the first life; a lost disk ends it.
LEMMA FirstLifeNext == Inv /\ FirstLife /\ [Next]_vars => FirstLife'
<1> SUFFICES ASSUME Inv, FirstLife, [Next]_vars, diskLosses' = 0
             PROVE  OneLife'
    BY DEF FirstLife
<1> USE DEF database, outside, counters
<1>1. CASE UNCHANGED vars
    <2>1. OneLife /\ UNCHANGED <<log, claim, roots, mirror>> /\ ~InRestore'
        BY <1>1 DEF vars, threads, FirstLife, OneLife, InRestore
    <2> QED BY <2>1, StoreUntouched
<1>2. CASE DiskLoss
    BY <1>2 DEF DiskLoss, Inv, TypeOK
<1>3. CASE Crash
    <2>1. OneLife /\ UNCHANGED <<log, claim, roots, mirror>> /\ ~InRestore'
        BY <1>3 DEF Crash, ThreadsAtRest, FirstLife, InRestore
    <2> QED BY <2>1, StoreUntouched
<1>4. ASSUME NEW q \in Requests,
             (\E e \in Entries : BeginAppend(q, e)) \/ RefuseAppend(q)
      PROVE  OneLife'
    <2>1. OneLife /\ UNCHANGED <<log, claim, roots, mirror>> /\ ~InRestore'
        BY <1>4 DEF BeginAppend, RefuseAppend, FirstLife, OneLife, InRestore
    <2> QED BY <2>1, StoreUntouched
<1>5. ASSUME NEW q \in Requests, CommitTransfer(q) PROVE OneLife'
    BY <1>5, AppendKeepsOneLife DEF CommitTransfer, FirstLife
<1>6. ASSUME NEW q \in Requests, CommitCheckpoint(q) PROVE OneLife'
    BY <1>6, CheckpointKeepsOneLife DEF CommitCheckpoint, FirstLife
<1>7. ASSUME NEW p \in Publishers, BeginPublish(p) PROVE OneLife'
    <2>1. OneLife /\ UNCHANGED <<log, claim, roots, mirror>> /\ ~InRestore'
        BY <1>7 DEF BeginPublish, FirstLife, OneLife, InRestore
    <2> QED BY <2>1, StoreUntouched
<1>8. ASSUME NEW p \in Threads, SignRoot(p) PROVE OneLife'
    BY <1>8, SignKeepsOneLife DEF SignRoot, FirstLife
<1>9. ASSUME NEW p \in Threads, MirrorStep(p) PROVE OneLife'
    <2>1. CASE MirrorRoot(p)
        BY <2>1, MirrorKeepsOneLife DEF MirrorRoot, FirstLife
    <2>2. CASE MirrorArchive(p) \/ MirrorFailure(p)
        <3>1. OneLife /\ UNCHANGED <<log, claim, roots, mirror>> /\ ~InRestore'
            BY <2>2 DEF MirrorArchive, MirrorFailure, FirstLife, OneLife, InRestore
        <3> QED BY <3>1, StoreUntouched
    <2> QED BY <1>9, <2>1, <2>2 DEF MirrorStep
<1>10. CASE \/ StartRecovery \/ CheckLocalRoots \/ LoadFeeds \/ CaughtUp
            \/ Activate
    <2>1. diskLosses' = diskLosses /\ UNCHANGED <<log, claim, roots, mirror>>
        BY <1>10 DEF StartRecovery, CheckLocalRoots, LoadFeeds, CaughtUp, Activate
    <2>2. ~InRestore'
        BY <1>10 DEF StartRecovery, CheckLocalRoots, LoadFeeds, CaughtUp, Activate,
                     FailSafe, InRestore
    <2> QED BY <2>1, <2>2, StoreUntouched DEF FirstLife
<1>11. CASE CheckSources
    BY <1>11, SourcesKeepOneLife DEF CheckSources, FirstLife
<1>12. ASSUME \/ RestoreEntry \/ FinishRestore
              \/ \E t \in Transfers : RestoreBody(t) \/ RestoreClaim(t)
       PROVE  FALSE
    <2>1. InRestore /\ diskLosses' = diskLosses
        BY <1>12 DEF RestoreEntry, FinishRestore, RestoreBody, RestoreClaim, InRestore
    <2> QED BY <2>1 DEF FirstLife, OneLife
<1>13. ASSUME NEW t \in Transfers, CatchUp(t) PROVE OneLife'
    <2>1. /\ OneLife /\ UNCHANGED <<roots, mirror, recovery>> /\ ~InRestore'
          /\ AppendTransfer(t) \/ UNCHANGED <<log, claim>>
        BY <1>13 DEF CatchUp, FirstLife, OneLife, InRestore
    <2> QED BY <2>1, AppendKeepsOneLife, StoreUntouched
<1>14. \A p \in Publishers : p \in Threads
    BY DEF Threads
<1>15. RecoveryThread \in Threads
    BY DEF Threads
<1>16. CASE RecoveryStep
    BY <1>8, <1>10, <1>11, <1>12, <1>13, <1>15, <1>16 DEF RecoveryStep
<1> QED
    BY <1>1, <1>2, <1>3, <1>4, <1>5, <1>6, <1>7, <1>8, <1>9, <1>14, <1>16
    DEF Next, PublishStep

\* In one life two roots of one size have the same entries and map, and two roots
\* of one time are the same root.
LEMMA OneLifeConsistent == Inv /\ FirstLife => NoSelfEquivocation
<1> SUFFICES ASSUME Inv, OneLife, NEW r \in roots \cup MirroredRoots,
                    NEW s \in roots \cup MirroredRoots, Equivocates(r, s)
             PROVE  FALSE
    BY DEF FirstLife, NoSelfEquivocation
<1>1. r \in roots /\ s \in roots /\ r # s
    BY DEF OneLife, MirrorStored, Equivocates
<1>2. Len(r.entries) = Len(s.entries)
    BY <1>1 DEF OneLife, TimesDiffer, Equivocates
<1>3. /\ r.entries \in Seq(Entries) /\ s.entries \in Seq(Entries)
      /\ log \in Seq(Entries)
    BY <1>1 DEF Inv, TypeOK, Root
<1>4. r.entries = s.entries
    BY <1>1, <1>2, <1>3, SamePrefix DEF OneLife, RootsOfLog
<1>5. r.map = s.map
    BY <1>1, <1>2 DEF OneLife, RootsOfLog
<1> QED BY <1>4, <1>5 DEF Equivocates

\* An operator that never lost its disk never signs evidence against itself,
\* whatever its clock says and wherever it crashes (publish_root).
THEOREM NeverEquivocates == Spec => []NoSelfEquivocation
<1>1. Spec => []Inv
    BY Invariance
<1> QED
    BY <1>1, FirstLifeInit, FirstLifeNext, OneLifeConsistent, PTL DEF Spec

\* Until the disk is lost an operator that takes appends has a claim for every logged
\* transfer: append_transfer_announcement commits the leaf and the claim together.
THEOREM LogIsClaimed == Spec => [](diskLosses = 0 => ActiveLogFullyClaimed)
<1>1. Spec => []Inv
    BY Invariance
<1>2. FirstLife => (diskLosses = 0 => ActiveLogFullyClaimed)
    BY DEF FirstLife, OneLife, LogClaimed, ActiveLogFullyClaimed
<1> QED
    BY <1>1, <1>2, FirstLifeInit, FirstLifeNext, PTL DEF Spec

\* Until the disk is lost the mirrored roots are one history with one spend map per tree:
\* _mirror_root only writes what publish_root stored.
THEOREM MirrorIsOneHistory == Spec => [](diskLosses = 0 => MirrorNeverSplits)
<1>1. Spec => []Inv
    BY Invariance
<1>2. Inv /\ FirstLife => (diskLosses = 0 => MirrorNeverSplits)
    <2> SUFFICES ASSUME Inv, OneLife PROVE MirrorNeverSplits
        BY DEF FirstLife
    <2>1. \A r \in MirroredRoots :
            /\ r.entries \in Seq(Entries) /\ Prefix(r.entries, log)
            /\ r.map = SpendMapAt(Len(r.entries))
        BY DEF OneLife, MirrorStored, RootsOfLog, Inv, TypeOK, Root
    <2>2. log \in Seq(Entries)
        BY DEF Inv, TypeOK
    <2>3. ASSUME NEW r \in MirroredRoots, NEW s \in MirroredRoots
          PROVE  /\ Prefix(r.entries, s.entries) \/ Prefix(s.entries, r.entries)
                 /\ r.entries = s.entries => r.map = s.map
        <3>1. /\ r.entries \in Seq(Entries) /\ Prefix(r.entries, log)
              /\ s.entries \in Seq(Entries) /\ Prefix(s.entries, log)
            BY <2>1
        <3>2. Len(r.entries) =< Len(s.entries) \/ Len(s.entries) =< Len(r.entries)
            BY <3>1
        <3>3. Prefix(r.entries, s.entries) \/ Prefix(s.entries, r.entries)
            BY <2>2, <3>1, <3>2, ShorterPrefix
        <3>4. r.entries = s.entries => r.map = s.map
            BY <2>1
        <3> QED BY <3>3, <3>4
    <2> QED BY <2>3 DEF MirrorNeverSplits
<1> QED
    BY <1>1, <1>2, FirstLifeInit, FirstLifeNext, PTL DEF Spec

\* Only activate() leaves fail-safe and it runs while catching up, so only a blank
\* database takes the operator out of it (_initialize_operator_state).
THEOREM FailSafeStays == Spec => FailSafeIsSticky
<1>1. Spec => []Inv
    BY Invariance
<1>2. ASSUME Inv, [Next]_vars, opState = "failed_safe", diskLosses' = diskLosses
      PROVE  opState' = "failed_safe"
    <2> USE DEF database, outside, counters
    <2>1. CASE UNCHANGED vars
        BY <1>2, <2>1 DEF vars
    <2>2. CASE DiskLoss
        BY <1>2, <2>2 DEF DiskLoss, Inv, TypeOK
    <2>3. CASE Crash
        BY <1>2, <2>3 DEF Crash, RestartState
    <2>4. CASE \E q \in Requests :
                  \/ \E e \in Entries : BeginAppend(q, e)
                  \/ RefuseAppend(q) \/ CommitTransfer(q) \/ CommitCheckpoint(q)
        BY <1>2, <2>4 DEF BeginAppend, RefuseAppend, CommitTransfer, CommitCheckpoint
    <2>5. ASSUME NEW p \in Threads, BeginPublish(p) \/ SignRoot(p) \/ MirrorStep(p)
          PROVE  opState' = "failed_safe"
        BY <1>2, <2>5 DEF BeginPublish, SignRoot, MirrorStep, MirrorRoot,
                          MirrorArchive, MirrorFailure
    <2>6. CASE RecoveryStep
        <3>1. recovery \in {"idle", "publish"}
            BY <1>2 DEF Inv, QuietRecovery
        <3>2. ~StartRecovery
            BY <1>2 DEF StartRecovery
        <3>3. SignRoot(RecoveryThread)
            BY <2>6, <3>1, <3>2
            DEF RecoveryStep, CheckLocalRoots, CheckSources, RestoreEntry,
                RestoreBody, RestoreClaim, CatchUp, FinishRestore, LoadFeeds,
                CaughtUp, Activate
        <3> QED BY <2>5, <3>3 DEF Threads
    <2> QED
        BY <1>2, <2>1, <2>2, <2>3, <2>4, <2>5, <2>6 DEF Next, PublishStep, Threads
<1>3. Inv /\ [Next]_vars =>
        [opState = "failed_safe" /\ diskLosses' = diskLosses
            => opState' = "failed_safe"]_vars
    BY <1>2
<1> QED
    BY <1>1, <1>3, PTL DEF Spec, FailSafeIsSticky

-----------------------------------------------------------------------------
(* What outlives a lost disk *)

TransfersIn(s) == {t \in Transfers : \E i \in 1..Len(s) : s[i] = t}

\* A thread that takes appends or publishes, or the end of a recovery: from here
\* on the log must hold all that was ever mirrored.
Serving ==
    \/ opState = "active"
    \/ recovery \in {"feeds", "catch_up", "activate", "publish"}
    \/ \E q \in Requests : request[q] # Idle
    \/ \E p \in Threads : publish[p] # NotPublishing

\* The log extends every stored root and, while the operator serves, every mirrored one;
\* so the mirrored roots are one chain.
StoredInLog   == \A r \in roots : Prefix(r.entries, log)
MirrorCovered == \A r \in MirroredRoots : Prefix(r.entries, log)
MirrorChain   == \A r, s \in MirroredRoots :
                    Prefix(r.entries, s.entries) \/ Prefix(s.entries, r.entries)

OneTree == StoredInLog /\ MirrorChain /\ (Serving => MirrorCovered)

\* Every root claims all transfers of its tree, and an archive is for a mirrored tree.
MapsComplete      == \A r \in AllRoots : r.map = TransfersIn(r.entries)
ArchiveMirrored   == \A a \in archive : \E r \in MirroredRoots : r.entries = a.entries
PublishedMirrored ==
    \A p \in Threads : publish[p].stage = "mirrored" => publish[p].root \in MirroredRoots

\* An archive is restored whole: until it is, what the log misses is still to come.
RestoreIsWhole ==
    /\ InRestore => restoring \in archive
    /\ recovery = "entries" => claimsLeft = restoring.map
    /\ recovery = "claims" =>
          \A t \in Transfers : InLog(t) => claim[t] # 0 \/ t \in claimsLeft
    /\ ~InRestore => LogClaimed

Whole == MapsComplete /\ ArchiveMirrored /\ PublishedMirrored /\ RestoreIsWhole

-----------------------------------------------------------------------------
(* Lemmas *)

\* The roots of the operator and what the log holds have the types of their trees.
LEMMA RootTypes ==
    ASSUME Inv
    PROVE  /\ log \in Seq(Entries) /\ Len(log) \in Nat /\ claim \in [Transfers -> Nat]
           /\ roots \subseteq Root /\ archive \subseteq Root /\ MirroredRoots \subseteq Root
           /\ \A r \in AllRoots : r.entries \in Seq(Entries) /\ Len(r.entries) \in Nat
<1>1. /\ log \in Seq(Entries) /\ claim \in [Transfers -> Nat]
      /\ roots \subseteq Root /\ archive \subseteq Root /\ mirror \in Seq(Root)
    BY DEF Inv, TypeOK
<1>2. MirroredRoots \subseteq Root
    BY <1>1 DEF MirroredRoots
<1>3. \A r \in Root : r.entries \in Seq(Entries) /\ Len(r.entries) \in Nat
    BY DEF Root
<1> QED BY <1>1, <1>2, <1>3 DEF AllRoots

-----------------------------------------------------------------------------
(* One tree: what no crash undoes *)

\* A mirror that is ahead of the log has a first root ahead of it: the sort by tree size
\* before _restore_prefix_from_proof_archive.
LEMMA SomeFirstBehind ==
    ASSUME Inv, NEW k \in DOMAIN mirror, Len(mirror[k].entries) > Len(log)
    PROVE  \E i \in DOMAIN mirror : FirstBehind(i)
<1> DEFINE Ahead == {i \in DOMAIN mirror : Len(mirror[i].entries) > Len(log)}
           Sizes == {Len(mirror[i].entries) : i \in Ahead}
<1>1. /\ DOMAIN mirror \subseteq Nat
      /\ \A i \in DOMAIN mirror : Len(mirror[i].entries) \in Nat
    <2>1. mirror \in Seq(Root)
        BY DEF Inv, TypeOK
    <2>2. \A i \in DOMAIN mirror : mirror[i] \in Root
        BY <2>1
    <2>3. \A r \in Root : Len(r.entries) \in Nat
        BY DEF Root
    <2> QED BY <2>1, <2>2, <2>3
<1>2. PICK m \in Sizes : \A n \in Sizes : ~(n < m)
    <2>1. Sizes \subseteq Nat /\ Sizes # {}
        BY <1>1
    <2> HIDE DEF Sizes
    <2>2. \E x \in Sizes : \A y \in Sizes : ~(<<y, x>> \in OpToRel(<, Nat))
        BY <2>1, NatLessThanWellFounded, WFMin
    <2> QED BY <2>1, <2>2 DEF OpToRel
<1> DEFINE Least == {i \in Ahead : Len(mirror[i].entries) = m}
<1>3. PICK i \in Least : \A j \in Least : ~(j < i)
    <2>1. Least \subseteq Nat /\ Least # {}
        BY <1>1, <1>2
    <2> HIDE DEF Least
    <2>2. \E x \in Least : \A y \in Least : ~(<<y, x>> \in OpToRel(<, Nat))
        BY <2>1, NatLessThanWellFounded, WFMin
    <2> QED BY <2>1, <2>2 DEF OpToRel
<1>4. ASSUME NEW j \in Ahead
      PROVE  \/ Len(mirror[i].entries) < Len(mirror[j].entries)
             \/ Len(mirror[i].entries) = Len(mirror[j].entries) /\ i =< j
    <2>1. Len(mirror[j].entries) \in Sizes /\ Len(mirror[i].entries) = m
        BY <1>3
    <2>2. ~(Len(mirror[j].entries) < Len(mirror[i].entries))
        BY <1>2, <2>1
    <2>3. /\ Len(mirror[j].entries) \in Nat /\ Len(mirror[i].entries) \in Nat
          /\ i \in Nat /\ j \in Nat
        BY <1>1, <1>3, <1>4
    <2>4. CASE Len(mirror[j].entries) = Len(mirror[i].entries)
        <3>1. j \in Least
            BY <1>4, <2>1, <2>4
        <3>2. ~(j < i)
            BY <1>3, <3>1
        <3> QED BY <2>3, <2>4, <3>2
    <2> QED BY <2>2, <2>3, <2>4
<1>5. i \in DOMAIN mirror /\ Len(mirror[i].entries) > Len(log)
    BY <1>3
<1>6. FirstBehind(i)
    BY <1>4, <1>5 DEF FirstBehind
<1> QED BY <1>5, <1>6

\* publish_root adds the log itself as a root, a finished restore the tree it restored.
LEMMA StoredRootsStep ==
    ASSUME Inv, [Next]_vars
    PROVE  \A r \in roots' : r \in roots \/ Prefix(r.entries, log')
<1> USE DEF database, outside, counters
<1>1. \/ roots' \subseteq roots
      \/ \E p : SignRoot(p)
      \/ FinishRestore
    BY DEF Next, vars, BeginAppend, RefuseAppend, CommitTransfer, CommitCheckpoint,
           PublishStep, BeginPublish, MirrorStep, MirrorRoot, MirrorArchive,
           MirrorFailure, RecoveryStep, StartRecovery, CheckLocalRoots, CheckSources,
           RestoreEntry, RestoreBody, RestoreClaim, CatchUp, LoadFeeds, CaughtUp,
           Activate, Crash, DiskLoss
<1>2. Prefix(log, log)
    BY RootTypes DEF Prefix
<1>3. ASSUME NEW p, SignRoot(p)
      PROVE  \A r \in roots' : r \in roots \/ Prefix(r.entries, log')
    <2>1. log' = log
        BY <1>3 DEF SignRoot
    <2>2. roots' = roots \/ \E clock \in 0..MaxClock : roots' = roots \cup {NewRoot(clock)}
        BY <1>3 DEF SignRoot
    <2>3. \A clock : NewRoot(clock).entries = log
        BY DEF NewRoot
    <2> QED BY <1>2, <2>1, <2>2, <2>3
<1>4. CASE FinishRestore
    <2>1. /\ log' = log /\ log = restoring.entries
          /\ roots' = roots \/ roots' = roots \cup {restoring}
        BY <1>4 DEF FinishRestore, Inv, RestoreTracksMirror
    <2> QED BY <1>2, <2>1
<1> QED BY <1>1, <1>3, <1>4

\* Only a serving operator mirrors, and only what it stored.
LEMMA MirrorStepAddsStored ==
    ASSUME Inv, [Next]_vars
    PROVE  \A r \in MirroredRoots' : r \in MirroredRoots \/ (r \in roots /\ Serving)
<1> USE DEF database, outside, counters
<1>1. mirror' = mirror \/ \E p \in Threads : MirrorRoot(p)
    BY DEF Next, vars, BeginAppend, RefuseAppend, CommitTransfer, CommitCheckpoint,
           PublishStep, BeginPublish, SignRoot, MirrorStep, MirrorArchive,
           MirrorFailure, RecoveryStep, StartRecovery, CheckLocalRoots, CheckSources,
           RestoreEntry, RestoreBody, RestoreClaim, CatchUp, FinishRestore, LoadFeeds,
           CaughtUp, Activate, Crash, DiskLoss
<1>2. CASE mirror' = mirror
    BY <1>2 DEF MirroredRoots
<1>3. ASSUME NEW p \in Threads, MirrorRoot(p)
      PROVE  \A r \in MirroredRoots' : r \in MirroredRoots \/ (r \in roots /\ Serving)
    <2>1. /\ publish[p] # NotPublishing /\ publish[p].root \in roots
          /\ publish[p].root \in Root
        BY <1>3 DEF MirrorRoot, NotPublishing, Inv, PublishedStored, TypeOK
    <2>2. MirroredRoots' = MirroredRoots \cup {publish[p].root}
        BY <1>3, <2>1, MirrorAppend DEF MirrorRoot, Inv
    <2> QED BY <2>1, <2>2 DEF Serving
<1> QED BY <1>1, <1>2, <1>3

\* Recovery goes on to the feeds only when the log covers the whole mirror.
LEMMA SourcesCoverMirror ==
    ASSUME Inv, CheckSources, Serving'
    PROVE  Serving \/ MirrorCovered
<1>1. CASE recovery' = "feeds" /\ MirroredRootsHold /\ \A i \in DOMAIN mirror : ~FirstBehind(i)
    <2>1. \A i \in DOMAIN mirror : ~(Len(mirror[i].entries) > Len(log))
        BY <1>1, SomeFirstBehind
    <2>2. \A i \in DOMAIN mirror : Len(mirror[i].entries) \in Nat /\ Len(log) \in Nat
        BY RootTypes DEF AllRoots, MirroredRoots
    <2>3. \A i \in DOMAIN mirror : Prefix(mirror[i].entries, log)
        BY <1>1, <2>1, <2>2 DEF MirroredRootsHold
    <2> QED BY <2>3 DEF MirrorCovered, MirroredRoots
<1>2. CASE /\ recovery' \in {"entries", "idle"}
           /\ opState' = opState \/ opState' = "failed_safe"
    BY <1>2 DEF CheckSources, Serving
<1> QED BY <1>1, <1>2 DEF CheckSources, FailSafe

\* No other step begins to serve.
LEMMA ServingBegins ==
    ASSUME Inv, [Next]_vars, Serving'
    PROVE  Serving \/ MirrorCovered
<1> USE DEF database, outside, counters
<1>1. CASE UNCHANGED vars
    BY <1>1 DEF vars, threads, Serving
<1>2. ASSUME NEW q \in Requests,
             \/ \E e \in Entries : BeginAppend(q, e)
             \/ RefuseAppend(q) \/ CommitTransfer(q) \/ CommitCheckpoint(q)
      PROVE  Serving
    BY <1>2, ThreadAssumption
    DEF BeginAppend, RefuseAppend, CommitTransfer, CommitCheckpoint, Serving
<1>3. ASSUME NEW p \in Threads, BeginPublish(p) \/ SignRoot(p) \/ MirrorStep(p)
      PROVE  Serving
    BY <1>3 DEF BeginPublish, SignRoot, MirrorStep, MirrorRoot, MirrorArchive,
                MirrorFailure, NotPublishing, Serving
<1>4. ASSUME \/ StartRecovery \/ CheckLocalRoots \/ RestoreEntry \/ FinishRestore
             \/ \E t \in Transfers : RestoreBody(t) \/ RestoreClaim(t)
      PROVE  Serving
    BY <1>4 DEF StartRecovery, CheckLocalRoots, RestoreEntry, FinishRestore, RestoreBody,
                RestoreClaim, FailSafe, Serving
<1>5. ASSUME LoadFeeds \/ CaughtUp \/ Activate \/ \E t \in Transfers : CatchUp(t)
      PROVE  Serving
    BY <1>5 DEF LoadFeeds, CaughtUp, Activate, CatchUp, Serving
<1>6. CASE Crash \/ DiskLoss
    BY <1>6 DEF Crash, DiskLoss, ThreadsAtRest, RestartState, FirstState, Serving
<1>7. CASE RecoveryStep
    BY <1>3, <1>4, <1>5, <1>7, SourcesCoverMirror DEF RecoveryStep, Threads
<1> QED BY <1>1, <1>2, <1>3, <1>6, <1>7 DEF Next, PublishStep, Threads

\* The roots stay one tree through every step, a lost disk and a torn restore included.
LEMMA OneTreeNext == Inv /\ Inv' /\ OneTree /\ [Next]_vars => OneTree'
<1> SUFFICES ASSUME Inv, Inv', OneTree, [Next]_vars PROVE OneTree'
    OBVIOUS
<1>1. CASE diskLosses' = diskLosses
    <2>1. /\ Prefix(log, log') /\ log \in Seq(Entries) /\ log' \in Seq(Entries)
        BY <1>1, StepGrows DEF Grows, Inv, TypeOK
    <2>2. \A r \in AllRoots : /\ r.entries \in Seq(Entries)
                              /\ Prefix(r.entries, log) => Prefix(r.entries, log')
        BY <2>1, RootTypes, PrefixChain
    <2>3. StoredInLog'
        BY <2>2, StoredRootsStep DEF OneTree, StoredInLog, AllRoots
    <2>4. CASE Serving \/ MirrorCovered
        <3>1. \A r \in MirroredRoots' : r \in AllRoots /\ Prefix(r.entries, log)
            BY <2>4, MirrorStepAddsStored DEF OneTree, StoredInLog, MirrorCovered, AllRoots
        <3>2. MirrorCovered'
            BY <2>2, <3>1 DEF MirrorCovered
        <3>3. ASSUME NEW r \in MirroredRoots', NEW s \in MirroredRoots'
              PROVE  Prefix(r.entries, s.entries) \/ Prefix(s.entries, r.entries)
            <4>1. /\ r.entries \in Seq(Entries) /\ Prefix(r.entries, log)
                  /\ s.entries \in Seq(Entries) /\ Prefix(s.entries, log)
                BY <2>2, <3>1
            <4>2. Len(r.entries) =< Len(s.entries) \/ Len(s.entries) =< Len(r.entries)
                BY <4>1
            <4> QED BY <2>1, <4>1, <4>2, ShorterPrefix
        <3> QED BY <2>3, <3>2, <3>3 DEF OneTree, MirrorChain
    <2>5. CASE ~Serving /\ ~MirrorCovered
        <3>1. ~Serving' /\ MirroredRoots' \subseteq MirroredRoots
            BY <2>5, ServingBegins, MirrorStepAddsStored
        <3> QED BY <2>3, <3>1 DEF OneTree, MirrorChain
    <2> QED BY <2>4, <2>5
<1>2. CASE diskLosses' # diskLosses
    <2>1. DiskLoss
        BY <1>2 DEF Next, vars, counters, BeginAppend, RefuseAppend, CommitTransfer,
               CommitCheckpoint, PublishStep, BeginPublish, SignRoot, MirrorStep,
               MirrorRoot, MirrorArchive, MirrorFailure, RecoveryStep, StartRecovery,
               CheckLocalRoots, CheckSources, RestoreEntry, RestoreBody, RestoreClaim,
               CatchUp, FinishRestore, LoadFeeds, CaughtUp, Activate, Crash
    <2>2. /\ roots' = {} /\ mirror' = mirror /\ opState' = "recovering"
          /\ recovery' = "idle"
          /\ \A q \in Requests : request'[q] = Idle
          /\ \A p \in Threads : publish'[p] = NotPublishing
        BY <2>1 DEF DiskLoss, outside, FirstState, ThreadsAtRest
    <2>3. MirroredRoots' = MirroredRoots /\ ~Serving'
        BY <2>2 DEF MirroredRoots, Serving
    <2> QED BY <2>2, <2>3 DEF OneTree, StoredInLog, MirrorChain
<1> QED BY <1>1, <1>2

\* A new operator has no roots.
LEMMA OneTreeInit == Init => OneTree
BY DEF Init, OneTree, StoredInLog, MirrorChain, MirrorCovered, MirroredRoots

\* What the operator mirrored is never missing from the log it serves: whatever crashes, in
\* the middle of a restore too, and however often the disk is lost, recovery has restored
\* every mirrored root before append_transfer_announcement or publish_root runs again.
THEOREM MirroredHistoryIsKept == Spec => []MirroredHistoryKept
<1>1. OneTree => MirroredHistoryKept
    BY DEF OneTree, Serving, MirrorCovered, MirroredHistoryKept
<1> QED BY <1>1, OneTreeInit, OneTreeNext, Invariance, PTL DEF Spec

-----------------------------------------------------------------------------
(* What an archive proves: lemmas *)

\* The maps and archives speak of the roots only.
LEMMA RootsKeepMaps ==
    ASSUME MapsComplete, ArchiveMirrored, AllRoots' \subseteq AllRoots,
           MirroredRoots' = MirroredRoots, archive' = archive
    PROVE  MapsComplete' /\ ArchiveMirrored'
BY DEF MapsComplete, ArchiveMirrored, TransfersIn

\* A step that leaves database and mirror alone, outside of a restore.
LEMMA QuietKeepsWhole ==
    ASSUME Whole, UNCHANGED <<log, claim, roots, mirror, archive>>, PublishedMirrored',
           \/ UNCHANGED <<recovery, restoring, claimsLeft>>
           \/ ~InRestore /\ ~InRestore'
    PROVE  Whole'
<1>1. AllRoots' = AllRoots /\ MirroredRoots' = MirroredRoots
    BY DEF AllRoots, MirroredRoots
<1>2. MapsComplete' /\ ArchiveMirrored'
    BY <1>1, RootsKeepMaps DEF Whole
<1>3. CASE UNCHANGED <<recovery, restoring, claimsLeft>>
    BY <1>2, <1>3 DEF Whole, RestoreIsWhole, InRestore, InLog, LogClaimed
<1>4. CASE ~InRestore /\ ~InRestore'
    BY <1>2, <1>4 DEF Whole, RestoreIsWhole, InRestore, InLog, LogClaimed
<1> QED BY <1>3, <1>4

\* A step that only appends, outside of a restore.
LEMMA AppendKeepsWhole ==
    ASSUME Whole, UNCHANGED <<roots, mirror, archive, publish>>, ~InRestore', LogClaimed'
    PROVE  Whole'
<1>1. AllRoots' = AllRoots /\ MirroredRoots' = MirroredRoots
    BY DEF AllRoots, MirroredRoots
<1>2. MapsComplete' /\ ArchiveMirrored'
    BY <1>1, RootsKeepMaps DEF Whole
<1>3. PublishedMirrored'
    BY <1>1 DEF Whole, PublishedMirrored
<1>4. RestoreIsWhole'
    BY DEF RestoreIsWhole, InRestore
<1> QED BY <1>2, <1>3, <1>4 DEF Whole

\* While the operator serves, an archive proves only claims that are in its tables.
LEMMA ServingHoldsArchives ==
    ASSUME Inv, OneTree, Whole, Serving, ~InRestore
    PROVE  ArchivedClaims \subseteq Claimed
<1> SUFFICES ASSUME NEW a \in archive, NEW t \in a.map PROVE t \in Claimed
    BY DEF ArchivedClaims
<1>1. PICK r \in MirroredRoots : r.entries = a.entries
    BY DEF Whole, ArchiveMirrored
<1>2. Prefix(a.entries, log)
    BY <1>1 DEF OneTree, MirrorCovered
<1>3. t \in Transfers /\ \E i \in 1..Len(a.entries) : a.entries[i] = t
    BY DEF Whole, MapsComplete, AllRoots, TransfersIn
<1>4. Len(a.entries) \in Nat /\ Len(log) \in Nat
    BY RootTypes DEF AllRoots
<1>5. InLog(t)
    BY <1>2, <1>3, <1>4 DEF Prefix, InLog
<1> QED BY <1>3, <1>5 DEF Whole, RestoreIsWhole, LogClaimed, Claimed

-----------------------------------------------------------------------------
(* What each kind of step keeps *)

\* An append under way finds recovery at rest.
LEMMA CommitKeepsWhole ==
    ASSUME Inv, Whole, NEW q \in Requests, CommitTransfer(q) \/ CommitCheckpoint(q)
    PROVE  Whole' /\ Serving /\ ~InRestore
<1>1. request[q] # Idle /\ request[q] \in Entries
    BY ThreadAssumption DEF CommitTransfer, CommitCheckpoint, Entries
<1>2. Serving /\ ~InRestore /\ ~InRestore'
    BY <1>1 DEF Serving, Inv, QuietRecovery, InRestore, CommitTransfer, CommitCheckpoint
<1>3. UNCHANGED <<roots, mirror, archive, publish>>
    BY DEF CommitTransfer, CommitCheckpoint, outside
<1>4. LogClaimed'
    <2>1. CASE CommitTransfer(q)
        BY <1>2, <2>1, AppendKeepsClaimed DEF CommitTransfer, Whole, RestoreIsWhole
    <2>2. CASE CommitCheckpoint(q)
        <3>1. request[q] \in Checkpoints /\ request[q] \notin Transfers
            BY <2>2, TransferAssumption DEF CommitCheckpoint
        <3>2. /\ log' \in Seq(Entries) /\ Prefix(log, log')
              /\ \A i \in 1..Len(log') : i \in 1..Len(log) \/ log'[i] = request[q]
            BY <1>1, <2>2, RootTypes DEF CommitCheckpoint, AppendEntry, Prefix
        <3>3. claim' = claim
            BY <2>2 DEF CommitCheckpoint
        <3> QED BY <1>2, <3>1, <3>2, <3>3
                DEF Whole, RestoreIsWhole, LogClaimed, InLog, Prefix
    <2> QED BY <2>1, <2>2
<1> QED BY <1>2, <1>3, <1>4, AppendKeepsWhole

\* The catch-up appends like a request, behind a restored log.
LEMMA CatchUpKeepsWhole ==
    ASSUME Inv, Whole, NEW t \in Transfers, CatchUp(t)
    PROVE  Whole'
<1>1. ~InRestore /\ ~InRestore'
    BY DEF CatchUp, InRestore
<1>2. UNCHANGED <<roots, mirror, archive, publish>>
    BY DEF CatchUp, outside
<1>3. LogClaimed'
    <2>1. CASE AppendTransfer(t)
        BY <1>1, <2>1, AppendKeepsClaimed DEF Whole, RestoreIsWhole
    <2>2. CASE UNCHANGED <<log, bodies, claim>>
        BY <1>1, <2>2 DEF Whole, RestoreIsWhole, LogClaimed, InLog
    <2> QED BY <2>1, <2>2 DEF CatchUp
<1> QED BY <1>1, <1>2, <1>3, AppendKeepsWhole

\* publish_root signs the whole log, whose transfers are all claimed.
LEMMA SignKeepsWhole ==
    ASSUME Inv, Whole, NEW p \in Threads, SignRoot(p)
    PROVE  Whole' /\ UNCHANGED <<claim, archive>>
<1>1. ~InRestore /\ ~InRestore'
    BY DEF SignRoot, NotPublishing, InRestore, Inv, QuietRecovery, Threads
<1>2. Reconciled = claim
    <2>1. \A t \in Transfers : Reconciled[t] = claim[t]
        BY <1>1 DEF Reconciled, Whole, RestoreIsWhole, LogClaimed
    <2> QED BY <2>1, RootTypes DEF Reconciled
<1>3. log' = log /\ claim' = claim /\ mirror' = mirror /\ archive' = archive
    BY <1>2 DEF SignRoot, outside
<1>4. MirroredRoots' = MirroredRoots
    BY <1>3 DEF MirroredRoots
<1>5. RestoreIsWhole'
    BY <1>1, <1>3 DEF Whole, RestoreIsWhole, InRestore, LogClaimed, InLog
<1>6. PublishedMirrored'
    <2>1. publish \in [Threads -> [stage : {"idle", "begun", "signed", "mirrored"},
                                   root : Root \cup {NoRoot}]]
        BY DEF Inv, TypeOK
    <2>2. \A x \in Threads : publish'[x].stage = "mirrored" => publish'[x] = publish[x]
        <3>1. CASE ~NoConflictingClaim
            <4>1. publish' = [publish EXCEPT ![p] = NotPublishing]
                BY <3>1 DEF SignRoot
            <4> QED BY <2>1, <4>1 DEF NotPublishing
        <3>2. CASE NoConflictingClaim
            <4>1. PICK r : publish' = [publish EXCEPT ![p] = [stage |-> "signed", root |-> r]]
                BY <3>2 DEF SignRoot
            <4> QED BY <2>1, <4>1
        <3> QED BY <3>1, <3>2
    <2> QED BY <1>4, <2>2 DEF Whole, PublishedMirrored
<1>7. ArchiveMirrored'
    BY <1>3, <1>4 DEF Whole, ArchiveMirrored
<1>8. MapsComplete'
    <2>1. CASE roots' = roots
        <3>1. AllRoots' = AllRoots
            BY <1>3, <1>4, <2>1 DEF AllRoots
        <3> QED BY <3>1 DEF Whole, MapsComplete, TransfersIn
    <2>2. ASSUME NEW clock \in 0..MaxClock, roots' = roots \cup {NewRoot(clock)}
          PROVE  MapsComplete'
        <3> DEFINE r == NewRoot(clock)
        <3>1. r.entries = log /\ r.map = {t \in Transfers : claim[t] # 0}
            BY <1>2 DEF NewRoot
        <3>2. r.map = TransfersIn(log)
            BY <1>1, <3>1, RootTypes
            DEF Inv, ClaimsPointAtLog, Claimed, Whole, RestoreIsWhole, LogClaimed, InLog,
                TransfersIn
        <3> HIDE DEF r
        <3>3. roots' = roots \cup {r}
            BY <2>2 DEF r
        <3> QED BY <1>3, <1>4, <3>1, <3>2, <3>3
                DEF Whole, MapsComplete, AllRoots, TransfersIn
    <2> QED BY <2>1, <2>2 DEF SignRoot
<1> QED BY <1>3, <1>5, <1>6, <1>7, <1>8 DEF Whole

\* Only a stored root is mirrored.
LEMMA MirrorKeepsWhole ==
    ASSUME Inv, Whole, NEW p \in Threads, MirrorRoot(p)
    PROVE  Whole'
<1> DEFINE r == publish[p].root
<1>1. r \in roots /\ r \in Root
    BY DEF MirrorRoot, Inv, PublishedStored, TypeOK
<1>2. MirroredRoots' = MirroredRoots \cup {r}
    BY <1>1, MirrorAppend DEF MirrorRoot, Inv
<1>3. UNCHANGED <<log, claim, roots, archive, recovery, restoring, claimsLeft>>
    BY DEF MirrorRoot, database
<1>4. AllRoots' = AllRoots
    BY <1>1, <1>2, <1>3 DEF AllRoots
<1>5. MapsComplete' /\ ArchiveMirrored'
    BY <1>2, <1>3, <1>4 DEF Whole, MapsComplete, ArchiveMirrored, TransfersIn
<1>6. PublishedMirrored'
    BY <1>2 DEF MirrorRoot, Inv, TypeOK, NotPublishing, Whole, PublishedMirrored
<1>7. RestoreIsWhole'
    BY <1>3 DEF Whole, RestoreIsWhole, InRestore, LogClaimed, InLog
<1> QED BY <1>5, <1>6, <1>7 DEF Whole

\* The archive written is for the tree of a mirrored root, and so is the one of that
\* size it replaces.
LEMMA ArchiveOfMirrored ==
    ASSUME Inv, OneTree, Whole, NEW p \in Threads, MirrorArchive(p)
    PROVE  \E r \in roots :
              /\ r.entries = publish[p].root.entries
              /\ r.map = SpendMapAt(Len(r.entries))
              /\ publish[p].root \in MirroredRoots
              /\ archive' = {a \in archive : Len(a.entries) # Len(r.entries)} \cup {r}
              /\ \A a \in archive : Len(a.entries) = Len(r.entries) => a.entries = r.entries
<1> DEFINE m == publish[p].root
           r == RootForTreeSize(Len(m.entries))
<1>1. /\ publish[p] # NotPublishing /\ m \in roots /\ m \in MirroredRoots
    BY DEF MirrorArchive, NotPublishing, Inv, PublishedStored, Whole, PublishedMirrored
<1>2. r \in roots /\ Len(r.entries) = Len(m.entries)
    <2> DEFINE S == {s \in roots : Len(s.entries) = Len(m.entries)}
    <2>1. S \in SUBSET Root /\ S # {} /\ Bounded(S)
        BY <1>1 DEF Inv, TypeOK, Bounded
    <2>2. LatestRoot(S) \in S
        <3> HIDE DEF S
        <3> QED BY <2>1, LatestRootIn
    <2> QED BY <2>2 DEF RootForTreeSize
<1>3. /\ archive' = {a \in archive : Len(a.entries) # Len(m.entries)} \cup {r}
      /\ r.map = SpendMapAt(Len(m.entries))
    BY DEF MirrorArchive
<1> HIDE DEF r, m
<1>4. /\ Prefix(r.entries, log) /\ Prefix(m.entries, log)
      /\ r.entries \in Seq(Entries) /\ m.entries \in Seq(Entries) /\ log \in Seq(Entries)
    BY <1>1, <1>2, RootTypes DEF OneTree, StoredInLog, AllRoots
<1>5. r.entries = m.entries
    BY <1>2, <1>4, SamePrefix
<1>6. ASSUME NEW a \in archive, Len(a.entries) = Len(r.entries)
      PROVE  a.entries = r.entries
    <2>1. PICK s \in MirroredRoots : s.entries = a.entries
        BY DEF Whole, ArchiveMirrored
    <2>2. Prefix(a.entries, log)
        BY <1>1, <2>1 DEF OneTree, Serving, MirrorCovered
    <2>3. a.entries \in Seq(Entries)
        BY RootTypes DEF AllRoots
    <2> QED BY <1>4, <1>6, <2>2, <2>3, SamePrefix
<1> QED BY <1>1, <1>2, <1>3, <1>5, <1>6 DEF m

\* The archive makes the claims of its tree durable and drops none that were.
LEMMA ArchiveKeepsWhole ==
    ASSUME Inv, OneTree, Whole, NEW p \in Threads, MirrorArchive(p)
    PROVE  /\ Whole'
           /\ ArchivedClaims' =
                ArchivedClaims \cup SpendMapAt(Len(publish[p].root.entries))
<1>1. PICK r \in roots :
              /\ r.entries = publish[p].root.entries
              /\ r.map = SpendMapAt(Len(r.entries))
              /\ publish[p].root \in MirroredRoots
              /\ archive' = {a \in archive : Len(a.entries) # Len(r.entries)} \cup {r}
              /\ \A a \in archive : Len(a.entries) = Len(r.entries) => a.entries = r.entries
    BY ArchiveOfMirrored
<1>2. /\ UNCHANGED <<log, claim, roots, mirror, recovery, restoring, claimsLeft>>
      /\ publish[p] # NotPublishing
      /\ publish' = [publish EXCEPT ![p] = NotPublishing]
    BY DEF MirrorArchive, database, NotPublishing
<1>3. MirroredRoots' = MirroredRoots
    BY <1>2 DEF MirroredRoots
<1>4. MapsComplete' /\ ArchiveMirrored'
    BY <1>1, <1>2, <1>3 DEF Whole, MapsComplete, AllRoots, ArchiveMirrored, TransfersIn
<1>5. PublishedMirrored'
    BY <1>2, <1>3 DEF Inv, TypeOK, NotPublishing, Whole, PublishedMirrored
<1>6. ~InRestore
    <2>1. opState \notin {"recovering", "catching_up"}
        BY <1>2 DEF Inv, QuietRecovery
    <2> QED BY <2>1 DEF Inv, QuietRecovery, InRestore
<1>7. RestoreIsWhole'
    BY <1>2, <1>6 DEF Whole, RestoreIsWhole, InRestore, LogClaimed, InLog
<1>8. ArchivedClaims' = ArchivedClaims \cup r.map
    <2>1. \A a \in archive : a \notin archive' => a.map = r.map
        BY <1>1 DEF Whole, MapsComplete, AllRoots
    <2>2. archive' \subseteq archive \cup {r} /\ r \in archive'
        BY <1>1
    <2> QED BY <2>1, <2>2 DEF ArchivedClaims
<1> QED BY <1>1, <1>4, <1>5, <1>7, <1>8 DEF Whole

\* A restore starts from an archive with all its claims to come; the other ways to go on
\* find every logged transfer claimed.
LEMMA SourcesKeepWhole ==
    ASSUME Inv, Whole, CheckSources
    PROVE  Whole'
<1>1. /\ UNCHANGED <<log, bodies, claim, roots, request, publish, mirror, archive>>
      /\ recovery = "sources" /\ ~InRestore /\ LogClaimed
    BY DEF CheckSources, outside, InRestore, Whole, RestoreIsWhole
<1>2. PublishedMirrored' /\ LogClaimed'
    BY <1>1 DEF Whole, PublishedMirrored, MirroredRoots, LogClaimed, InLog
<1>3. CASE ~InRestore'
    BY <1>1, <1>2, <1>3, QuietKeepsWhole
<1>4. CASE InRestore'
    <2>1. /\ restoring' \in archive' /\ recovery' = "entries"
          /\ claimsLeft' = restoring'.map
        BY <1>1, <1>4 DEF CheckSources, FailSafe, InRestore, CanRestore
    <2>2. RestoreIsWhole'
        BY <2>1 DEF RestoreIsWhole, InRestore
    <2>3. AllRoots' = AllRoots /\ MirroredRoots' = MirroredRoots
        BY <1>1 DEF AllRoots, MirroredRoots
    <2> QED BY <1>1, <1>2, <2>2, <2>3, RootsKeepMaps DEF Whole
<1> QED BY <1>3, <1>4

\* The next entry comes from the archived tree, whose transfers are all to be claimed.
LEMMA RestoreEntryKeepsWhole ==
    ASSUME Inv, Whole, RestoreEntry
    PROVE  Whole'
<1>1. /\ recovery = "entries" /\ InRestore /\ InRestore'
      /\ UNCHANGED <<claim, roots, publish, restoring, claimsLeft, mirror, archive>>
    BY DEF RestoreEntry, outside, InRestore
<1>2. AllRoots' = AllRoots /\ MirroredRoots' = MirroredRoots
    BY <1>1 DEF AllRoots, MirroredRoots
<1>3. MapsComplete' /\ ArchiveMirrored' /\ PublishedMirrored'
    BY <1>1, <1>2, RootsKeepMaps DEF Whole, PublishedMirrored
<1>4. RestoreIsWhole'
    <2>1. restoring \in archive /\ claimsLeft = restoring.map
        BY <1>1 DEF Whole, RestoreIsWhole
    <2>2. CASE recovery' = "entries"
        BY <1>1, <2>1, <2>2 DEF RestoreIsWhole, InRestore
    <2>3. CASE recovery' = "claims" /\ log' = log
        <3>1. Prefix(log, restoring.entries) /\ restoring \in AllRoots
            BY <1>1, <2>1 DEF Inv, RestoreTracksMirror, AllRoots
        <3>2. restoring.map = TransfersIn(restoring.entries)
            BY <3>1 DEF Whole, MapsComplete
        <3>3. Len(log) \in Nat /\ Len(restoring.entries) \in Nat
            BY <3>1, RootTypes
        <3>4. \A t \in Transfers : InLog(t) => t \in claimsLeft
            BY <2>1, <3>1, <3>2, <3>3 DEF InLog, Prefix, TransfersIn
        <3> QED BY <1>1, <2>1, <2>3, <3>4 DEF RestoreIsWhole, InRestore, InLog
    <2> QED BY <1>1, <2>2, <2>3 DEF RestoreEntry
<1> QED BY <1>3, <1>4 DEF Whole

\* A restored claim leaves the list of claims to restore and is in the table.
LEMMA RestoreClaimKeepsWhole ==
    ASSUME Inv, Whole, NEW t \in Transfers, RestoreClaim(t)
    PROVE  Whole' /\ claim'[t] # 0 /\ \A u \in Transfers : u # t => claim'[u] = claim[u]
<1>1. /\ recovery = "claims" /\ InRestore /\ InRestore' /\ claimsLeft' = claimsLeft \ {t}
      /\ UNCHANGED <<log, roots, publish, recovery, restoring, mirror, archive>>
    BY DEF RestoreClaim, outside, InRestore
<1>2. AllRoots' = AllRoots /\ MirroredRoots' = MirroredRoots
    BY <1>1 DEF AllRoots, MirroredRoots
<1>3. MapsComplete' /\ ArchiveMirrored' /\ PublishedMirrored'
    BY <1>1, <1>2, RootsKeepMaps DEF Whole, PublishedMirrored
<1>4. t \in restoring.map /\ log = restoring.entries /\ restoring \in AllRoots
    BY <1>1 DEF Inv, RestoreTracksMirror, RestoreClaim, AllRoots
<1>5. \E i \in 1..Len(log) : log[i] = t
    BY <1>4 DEF Inv, MapsInTrees, MapInTree
<1>6. LeafOf(t, log) \in 1..Len(log)
    BY <1>5, RootTypes, LeafOfLogged
<1>7. claim'[t] # 0 /\ \A u \in Transfers : u # t => claim'[u] = claim[u]
    BY <1>6, RootTypes DEF RestoreClaim, RecordClaim
<1>8. RestoreIsWhole'
    BY <1>1, <1>7 DEF Whole, RestoreIsWhole, InRestore, InLog
<1> QED BY <1>3, <1>7, <1>8 DEF Whole

\* The restored root was mirrored, and the last claim of it is in the table.
LEMMA FinishKeepsWhole ==
    ASSUME Inv, Whole, FinishRestore
    PROVE  Whole'
<1>1. /\ recovery = "claims" /\ InRestore /\ ~InRestore' /\ claimsLeft = {}
      /\ UNCHANGED <<log, claim, publish, mirror, archive>>
      /\ roots' = roots \/ roots' = roots \cup {restoring}
    BY DEF FinishRestore, FailSafe, outside, InRestore
<1>2. restoring \in MirroredRoots
    BY <1>1 DEF Inv, RestoreTracksMirror
<1>3. MirroredRoots' = MirroredRoots /\ AllRoots' = AllRoots
    BY <1>1, <1>2 DEF MirroredRoots, AllRoots
<1>4. MapsComplete' /\ ArchiveMirrored' /\ PublishedMirrored'
    BY <1>1, <1>3, RootsKeepMaps DEF Whole, PublishedMirrored
<1>5. RestoreIsWhole'
    BY <1>1 DEF Whole, RestoreIsWhole, InRestore, LogClaimed, InLog
<1> QED BY <1>4, <1>5 DEF Whole

\* The mirror outlives a blank database.
LEMMA LossKeepsWhole ==
    ASSUME Inv, Whole, DiskLoss
    PROVE  Whole'
<1>1. /\ roots' = {} /\ log' = <<>> /\ mirror' = mirror /\ archive' = archive
      /\ recovery' = "idle" /\ \A p \in Threads : publish'[p] = NotPublishing
    BY DEF DiskLoss, outside, ThreadsAtRest
<1>2. MirroredRoots' = MirroredRoots /\ AllRoots' \subseteq AllRoots
    BY <1>1 DEF MirroredRoots, AllRoots
<1>3. PublishedMirrored' /\ RestoreIsWhole'
    BY <1>1 DEF PublishedMirrored, NotPublishing, RestoreIsWhole, LogClaimed, InLog, InRestore
<1> QED BY <1>1, <1>2, <1>3, RootsKeepMaps DEF Whole

\* The steps that only move threads, or read.
LEMMA ThreadStepsKeepWhole ==
    ASSUME Inv, Whole,
           \/ UNCHANGED vars
           \/ \E q \in Requests : (\E e \in Entries : BeginAppend(q, e)) \/ RefuseAppend(q)
           \/ \E p \in Threads : BeginPublish(p) \/ MirrorFailure(p)
           \/ StartRecovery \/ CheckLocalRoots \/ LoadFeeds \/ CaughtUp \/ Activate
           \/ \E t \in Transfers : RestoreBody(t)
           \/ Crash /\ ~InRestore
    PROVE  Whole' /\ UNCHANGED <<claim, archive>>
<1> USE DEF database, outside, counters
<1>1. UNCHANGED <<log, claim, roots, mirror, archive>>
    BY DEF vars, BeginAppend, RefuseAppend, BeginPublish, MirrorFailure, StartRecovery,
           CheckLocalRoots, LoadFeeds, CaughtUp, Activate, RestoreBody, Crash
<1>2. \/ UNCHANGED <<recovery, restoring, claimsLeft>>
      \/ ~InRestore /\ ~InRestore'
    BY DEF vars, threads, BeginAppend, RefuseAppend, BeginPublish, MirrorFailure,
           StartRecovery, CheckLocalRoots, LoadFeeds, CaughtUp, Activate, FailSafe,
           RestoreBody, Crash, ThreadsAtRest, InRestore
<1>3. \A p \in Threads : publish'[p].stage = "mirrored" => publish'[p] = publish[p]
    <2>1. CASE publish' = publish
        BY <2>1
    <2>2. CASE Crash
        BY <2>2 DEF Crash, ThreadsAtRest, NotPublishing
    <2>3. ASSUME NEW p \in Threads, BeginPublish(p) \/ MirrorFailure(p)
          PROVE  \A x \in Threads :
                    publish'[x].stage = "mirrored" => publish'[x] = publish[x]
        BY <2>3 DEF BeginPublish, MirrorFailure, Inv, TypeOK, NotPublishing
    <2> QED BY <2>1, <2>2, <2>3
            DEF vars, threads, BeginAppend, RefuseAppend, StartRecovery, CheckLocalRoots,
                LoadFeeds, CaughtUp, Activate, RestoreBody
<1>4. PublishedMirrored'
    BY <1>1, <1>3 DEF Whole, PublishedMirrored, MirroredRoots
<1> QED BY <1>1, <1>2, <1>4, QuietKeepsWhole

-----------------------------------------------------------------------------
(* The operator implements the registry *)

\* The first claim of a key is an append whose conflict check saw every archived claim.
LEMMA AppendRegisters ==
    ASSUME Inv, OneTree, Whole, Serving, ~InRestore, NEW t \in Transfers, AppendTransfer(t),
           archive' = archive
    PROVE  [Registry!Next]_(Registry!vars)
<1>1. ArchivedClaims \subseteq Claimed /\ ArchivedClaims' = ArchivedClaims
    BY ServingHoldsArchives DEF ArchivedClaims
<1>2. Claimed' = Claimed \cup {t}
    <2>1. claim' \in [Transfers -> Nat] /\ \A u \in Claimed : claim'[u] = claim[u]
        BY AppendTransferFacts
    <2>2. \A u \in Transfers : u # t => claim'[u] = claim[u]
        BY RootTypes DEF AppendTransfer, RecordClaim
    <2>3. claim'[t] # 0
        <3>1. LogClaimed'
            BY AppendKeepsClaimed DEF Whole, RestoreIsWhole
        <3>2. log \in Seq(Entries) /\ t \in Entries
            BY RootTypes DEF Entries
        <3>3. \E i \in 1..Len(log') : log'[i] = t
            BY <3>2 DEF AppendTransfer, AppendEntry, InLog
        <3> QED BY <3>1, <3>3 DEF LogClaimed, InLog
    <2> QED BY <2>1, <2>2, <2>3 DEF Claimed
<1>3. \A u \in Claimed : ~Registry!RivalOf(t, u)
    BY DEF AppendTransfer, ConflictingClaim, Siblings, Registry!RivalOf
<1>4. Registry!Register(t)
    BY <1>1, <1>2, <1>3 DEF Registry!Register
<1> QED BY <1>4 DEF Registry!Next

\* A step that neither claims nor archives is no step of the registry.
LEMMA RegistryStutters ==
    ASSUME UNCHANGED <<claim, archive>>
    PROVE  UNCHANGED Registry!vars
BY DEF Registry!vars, Claimed, ArchivedClaims

\* A restored claim is one that its archive proves, so the registry knows it already.
LEMMA RestoreRegistersNothing ==
    ASSUME Inv, Whole, NEW t \in Transfers, RestoreClaim(t)
    PROVE  UNCHANGED Registry!vars
<1>1. archive' = archive /\ ArchivedClaims' = ArchivedClaims
    BY DEF RestoreClaim, outside, ArchivedClaims
<1>2. t \in ArchivedClaims
    <2>1. InRestore /\ t \in claimsLeft
        BY DEF RestoreClaim, InRestore
    <2>2. restoring \in archive /\ claimsLeft \subseteq restoring.map
        BY <2>1 DEF Whole, RestoreIsWhole, Inv, RestoreTracksMirror
    <2> QED BY <2>1, <2>2 DEF ArchivedClaims
<1>3. Claimed' = Claimed \cup {t}
    BY RestoreClaimKeepsWhole DEF Claimed
<1> QED BY <1>1, <1>2, <1>3 DEF Registry!vars

\* The archive makes durable what the claims table holds inside the archived tree.
LEMMA ArchiveMakesDurable ==
    ASSUME Inv, OneTree, Whole, NEW p \in Threads, MirrorArchive(p)
    PROVE  [Registry!Next]_(Registry!vars)
<1> DEFINE S == SpendMapAt(Len(publish[p].root.entries))
<1>1. ArchivedClaims' = ArchivedClaims \cup S
    BY ArchiveKeepsWhole
<1>2. claim' = claim
    BY DEF MirrorArchive, database
<1>3. S \subseteq Claimed /\ S \in SUBSET Transfers
    BY DEF SpendMapAt, Claimed
<1>4. Claimed' = Claimed
    BY <1>2 DEF Claimed
<1> HIDE DEF S
<1>5. Registry!MakeDurable(S)
    BY <1>1, <1>3, <1>4 DEF Registry!MakeDurable
<1> QED BY <1>3, <1>5 DEF Registry!Next

\* A lost disk forgets what no archive proves.
LEMMA LossForgets ==
    ASSUME Inv, DiskLoss
    PROVE  [Registry!Next]_(Registry!vars)
<1>1. Claimed' = {} /\ ArchivedClaims' = ArchivedClaims
    BY DEF DiskLoss, outside, Claimed, ArchivedClaims
<1>2. ArchivedClaims \in SUBSET Transfers
    <2>1. \A a \in archive : a.map \subseteq Transfers
        BY DEF Inv, TypeOK, Root
    <2> QED BY <2>1 DEF ArchivedClaims
<1>3. Registry!Forget(ArchivedClaims)
    BY <1>1 DEF Registry!Forget
<1> QED BY <1>2, <1>3 DEF Registry!Next

\* Every step of every thread keeps the history and is a step of the registry.
LEMMA StepKeepsWhole ==
    ASSUME Inv, OneTree, Whole, [Next]_vars, restoreCrashes' = 0
    PROVE  Whole' /\ [Registry!Next]_(Registry!vars)
<1>1. ASSUME \/ UNCHANGED vars
             \/ \E q \in Requests : (\E e \in Entries : BeginAppend(q, e)) \/ RefuseAppend(q)
             \/ \E p \in Threads : BeginPublish(p) \/ MirrorFailure(p)
             \/ StartRecovery \/ CheckLocalRoots \/ LoadFeeds \/ CaughtUp \/ Activate
             \/ \E t \in Transfers : RestoreBody(t)
             \/ Crash /\ ~InRestore
      PROVE  Whole' /\ [Registry!Next]_(Registry!vars)
    <2>1. Whole' /\ UNCHANGED <<claim, archive>>
        BY <1>1, ThreadStepsKeepWhole
    <2> QED BY <2>1, RegistryStutters
<1>2. ASSUME NEW q \in Requests, CommitTransfer(q) \/ CommitCheckpoint(q)
      PROVE  Whole' /\ [Registry!Next]_(Registry!vars)
    <2>1. Whole' /\ Serving /\ ~InRestore
        BY <1>2, CommitKeepsWhole
    <2>2. CASE CommitTransfer(q)
        BY <2>1, <2>2, AppendRegisters DEF CommitTransfer, outside
    <2>3. CASE CommitCheckpoint(q)
        <3>1. UNCHANGED <<claim, archive>>
            BY <2>3 DEF CommitCheckpoint, outside
        <3> QED BY <2>1, <3>1, RegistryStutters
    <2> QED BY <1>2, <2>2, <2>3
<1>3. ASSUME NEW p \in Threads, SignRoot(p)
      PROVE  Whole' /\ [Registry!Next]_(Registry!vars)
    BY <1>3, SignKeepsWhole, RegistryStutters
<1>4. ASSUME NEW p \in Threads, MirrorRoot(p)
      PROVE  Whole' /\ [Registry!Next]_(Registry!vars)
    <2>1. UNCHANGED <<claim, archive>>
        BY <1>4 DEF MirrorRoot, database
    <2> QED BY <1>4, <2>1, MirrorKeepsWhole, RegistryStutters
<1>5. ASSUME NEW p \in Threads, MirrorArchive(p)
      PROVE  Whole' /\ [Registry!Next]_(Registry!vars)
    BY <1>5, ArchiveKeepsWhole, ArchiveMakesDurable
<1>6. ASSUME CheckSources \/ RestoreEntry \/ FinishRestore
      PROVE  Whole' /\ [Registry!Next]_(Registry!vars)
    <2>1. UNCHANGED <<claim, archive>>
        BY <1>6 DEF CheckSources, RestoreEntry, FinishRestore, outside
    <2> QED BY <1>6, <2>1, SourcesKeepWhole, RestoreEntryKeepsWhole, FinishKeepsWhole,
               RegistryStutters
<1>7. ASSUME NEW t \in Transfers, RestoreClaim(t)
      PROVE  Whole' /\ [Registry!Next]_(Registry!vars)
    BY <1>7, RestoreClaimKeepsWhole, RestoreRegistersNothing
<1>8. ASSUME NEW t \in Transfers, CatchUp(t)
      PROVE  Whole' /\ [Registry!Next]_(Registry!vars)
    <2>1. Whole' /\ Serving /\ ~InRestore /\ archive' = archive
        BY <1>8, CatchUpKeepsWhole DEF CatchUp, Serving, InRestore, outside
    <2>2. CASE AppendTransfer(t)
        BY <2>1, <2>2, AppendRegisters
    <2>3. CASE UNCHANGED <<log, bodies, claim>>
        BY <2>1, <2>3, RegistryStutters
    <2> QED BY <1>8, <2>2, <2>3 DEF CatchUp
<1>9. ASSUME DiskLoss
      PROVE  Whole' /\ [Registry!Next]_(Registry!vars)
    BY <1>9, LossKeepsWhole, LossForgets
<1>10. ASSUME Crash, InRestore PROVE FALSE
    BY <1>10 DEF Crash, Inv, TypeOK
<1>11. CASE RecoveryStep
    BY <1>1, <1>3, <1>6, <1>7, <1>8, <1>11 DEF RecoveryStep, Threads
<1>12. CASE \E p \in Publishers : PublishStep(p)
    BY <1>1, <1>3, <1>12 DEF PublishStep, Threads
<1>13. CASE \E p \in Threads : MirrorStep(p)
    BY <1>1, <1>4, <1>5, <1>13 DEF MirrorStep
<1> QED BY <1>1, <1>2, <1>9, <1>10, <1>11, <1>12, <1>13 DEF Next

\* What an archive proves is kept until a crash tears a restore.
UntilTorn == restoreCrashes = 0 => Whole

\* A new operator has archived nothing.
LEMMA UntilTornInit == Init => UntilTorn
<1> SUFFICES ASSUME Init PROVE Whole
    BY DEF UntilTorn
<1>1. AllRoots = {} /\ archive = {} /\ ~InRestore
    BY DEF Init, AllRoots, MirroredRoots, InRestore
<1>2. PublishedMirrored
    BY DEF Init, PublishedMirrored, NotPublishing
<1>3. RestoreIsWhole
    BY <1>1 DEF Init, RestoreIsWhole, LogClaimed, InLog, InRestore
<1> QED BY <1>1, <1>2, <1>3 DEF Whole, MapsComplete, ArchiveMirrored

\* No step takes back a crash inside a restore.
LEMMA RestoreCrashesGrow ==
    ASSUME Inv, [Next]_vars, restoreCrashes' = 0
    PROVE  restoreCrashes = 0
<1> USE DEF database, outside, counters
<1>1. restoreCrashes \in Nat
    BY DEF Inv, TypeOK
<1>2. restoreCrashes' = restoreCrashes \/ restoreCrashes' = restoreCrashes + 1
    BY DEF Next, vars, BeginAppend, RefuseAppend, CommitTransfer, CommitCheckpoint,
           PublishStep, BeginPublish, SignRoot, MirrorStep, MirrorRoot, MirrorArchive,
           MirrorFailure, RecoveryStep, StartRecovery, CheckLocalRoots, CheckSources,
           RestoreEntry, RestoreBody, RestoreClaim, CatchUp, FinishRestore, LoadFeeds,
           CaughtUp, Activate, Crash, DiskLoss
<1> QED BY <1>1, <1>2

\* Until a restore is torn every step keeps the history.
LEMMA UntilTornNext == Inv /\ OneTree /\ UntilTorn /\ [Next]_vars => UntilTorn'
BY StepKeepsWhole, RestoreCrashesGrow DEF UntilTorn

\* A blank operator is an empty registry.
LEMMA RegistryInit == Init => Registry!Init
BY DEF Init, Registry!Init, Claimed, ArchivedClaims

\* Unless a crash tears an archive restore, the operator implements the first-claim-wins
\* registry: every append, publication, mirror write, crash, lost disk and recovery step is
\* a step of the registry or none, and what an archive proved is never forgotten.
THEOREM RegistryImplemented == Spec /\ [](restoreCrashes = 0) => ImplementsRegistry
<1>1. Spec => []Inv
    BY Invariance
<1>2. Inv /\ OneTree /\ UntilTorn /\ [Next]_vars /\ restoreCrashes = 0 /\ (restoreCrashes = 0)'
        => [Registry!Next]_(Registry!vars)
    BY StepKeepsWhole DEF UntilTorn
<1> QED
    BY <1>1, <1>2, OneTreeInit, OneTreeNext, UntilTornInit, UntilTornNext, RegistryInit, PTL
    DEF Spec, ImplementsRegistry, Registry!Spec

\* In the registry the first claim of a key keeps it.
LEMMA RegistryKeepsFirst ==
    ASSUME Registry!FirstClaimWins, [Registry!Next]_(Registry!vars)
    PROVE  Registry!FirstClaimWins'
<1> DEFINE R == Claimed \cup ArchivedClaims
<1>1. \A t, u \in R : ~Registry!RivalOf(t, u)
    BY DEF Registry!FirstClaimWins
<1>2. \/ R' \subseteq R
      \/ \E t \in Transfers : R' = R \cup {t} /\ \A u \in R : ~Registry!RivalOf(t, u)
    BY DEF Registry!Next, Registry!Register, Registry!MakeDurable, Registry!Forget,
           Registry!vars
<1>3. \A t, u : Registry!RivalOf(t, u) => Registry!RivalOf(u, t) /\ t # u
    BY DEF Registry!RivalOf
<1> HIDE DEF R
<1>4. \A t, u \in R' : ~Registry!RivalOf(t, u)
    BY <1>1, <1>2, <1>3
<1> QED BY <1>4 DEF Registry!FirstClaimWins, Registry!RivalOf, R

\* No step of the registry takes a key from its first claim.
Honours == restoreCrashes = 0 => Registry!FirstClaimWins

\* Across crashes and lost disks the operator honours every claim an archive proves, and its
\* mirrored roots are one chain with one spend map per tree, unless a crash falls inside an
\* archive restore: there a leaf is restored before its claim, and a restart between the two
\* leaves the claim out.
THEOREM ArchivedClaimsAreHonoured ==
    Spec => [](restoreCrashes = 0 => AcceptedClaimsHonoured /\ MirrorNeverSplits)
<1>1. Spec => []Inv
    BY Invariance
<1>2. Init => Honours
    BY DEF Init, Honours, Registry!FirstClaimWins, Claimed, ArchivedClaims
<1>3. Inv /\ OneTree /\ UntilTorn /\ Honours /\ [Next]_vars => Honours'
    <2> SUFFICES ASSUME Inv, OneTree, UntilTorn, Honours, [Next]_vars, restoreCrashes' = 0
                 PROVE  Registry!FirstClaimWins'
        BY DEF Honours
    <2>1. restoreCrashes = 0
        BY RestoreCrashesGrow
    <2> QED BY <2>1, StepKeepsWhole, RegistryKeepsFirst DEF UntilTorn, Honours
<1>4. Inv /\ OneTree /\ UntilTorn /\ Honours =>
        (restoreCrashes = 0 => AcceptedClaimsHonoured /\ MirrorNeverSplits)
    <2> SUFFICES ASSUME OneTree, Whole, Registry!FirstClaimWins
                 PROVE  AcceptedClaimsHonoured /\ MirrorNeverSplits
        BY DEF UntilTorn, Honours
    <2>1. AcceptedClaimsHonoured
        BY DEF Registry!FirstClaimWins, Registry!RivalOf, AcceptedClaimsHonoured, Siblings
    <2>2. MirrorNeverSplits
        BY DEF OneTree, MirrorChain, Whole, MapsComplete, AllRoots, MirrorNeverSplits
    <2> QED BY <2>1, <2>2
<1> QED
    BY <1>1, <1>2, <1>3, <1>4, OneTreeInit, OneTreeNext, UntilTornInit, UntilTornNext, PTL
    DEF Spec

=============================================================================
