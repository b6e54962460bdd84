------------------------------ MODULE SpendMap ------------------------------
(***************************************************************************)
(* The spend map of an operator: a sparse Merkle tree over the accepted    *)
(* claims, kept in tables that an append updates along one path, that a    *)
(* publisher signs and that proof requests read and repair.                *)
(* src/ind/transparency_server.py; the tree and its proofs are in          *)
(* src/ind/transparency_client.py and src/ind/spend_map_v3.py.             *)
(*                                                                         *)
(* A hash stands for what it commits to: the hash of a node is the         *)
(* sequence of the slots below it, and two of them side by side are the    *)
(* hash of their parent.  An append runs under _append_lock and is one     *)
(* transaction; a request holds no lock, and each of its reads is a        *)
(* transaction of its own until it first writes (SQLite).                  *)
(***************************************************************************)
EXTENDS Integers, Sequences, FiniteSets

CONSTANTS
    Claims,      \* transfers that may be appended
    KeyOf,       \* the position of a transfer's spend key
    Depth,       \* SPEND_MAP_KEY_BITS
    Handlers,    \* threads that answer /v3/spend-proof
    Publisher,
    MaxAppends,  \* bound: append requests
    Nothing

ASSUME DepthAssumption == Depth \in Nat \ {0} /\ MaxAppends \in Nat
ASSUME PublisherAssumption == Publisher \notin Handlers

\* The nodes of a level: twice those of the level above.
Width[d \in 0..Depth] == IF d = 0 THEN 1 ELSE 2 * Width[d - 1]

Positions(d) == 0..Width[d] - 1
Keys == Positions(Depth)

ASSUME KeyAssumption == KeyOf \in [Claims -> Keys]

VARIABLES
    log,      \* log_entries with their spend_claims, in leaf order
    cache,    \* spend_map_claims_v3, spend_map_nodes_v3, spend_map_meta_v3
    thread,   \* the publisher and the requests
    newest,   \* the newest signed root of each tree size
    signed,   \* every signed root
    appends

vars == <<log, cache, thread, newest, signed, appends>>

Logged == {log[i] : i \in DOMAIN log}
Sibling(p) == IF p % 2 = 0 THEN p + 1 ELSE p - 1

\* The node over a key at a depth.
Above(k, d) ==
    LET node[e \in 0..Depth] == IF e = Depth THEN k ELSE node[e + 1] \div 2
    IN node[d]

-----------------------------------------------------------------------------
(* The tree *)

\* A node without a row has the hash of an empty subtree.
Empty(d) == [i \in 1..Width[Depth - d] |-> {}]
Branch(left, right) == left \o right

SlotOf(S, k) == {c \in S : KeyOf[c] = k}

\* All nodes of the tree over some claims, by depth and position.
Levels(S) ==
    LET level[d \in 0..Depth] == [p \in Positions(d) |->
            IF d = Depth THEN <<SlotOf(S, p)>>
            ELSE Branch(level[d + 1][2 * p], level[d + 1][2 * p + 1])]
    IN level

Root(nodes) == nodes[0][0]

\* The hashes from a slot to the root, given the siblings on the way: depth
\* Depth first.
Climb(k, slot, siblings) ==
    LET at[d \in 0..Depth] ==
            IF d = Depth THEN <<slot>>
            ELSE IF Above(k, d + 1) % 2 = 0 THEN Branch(at[d + 1], siblings[d + 1])
            ELSE Branch(siblings[d + 1], at[d + 1])
    IN at

SiblingsOf(nodes, k) == [d \in 1..Depth |-> nodes[d][Sibling(Above(k, d))]]

\* A proof carries the siblings by depth; its root is where the climb ends.
ProofFrom(nodes, k, slot, size, count) ==
    [key |-> k, size |-> size, count |-> count, slot |-> slot,
     path |-> SiblingsOf(nodes, k)]

Verifies(proof, root) ==
    /\ proof.size = root.size /\ proof.count = root.count
    /\ proof.slot # {}
    /\ \A c \in proof.slot :
          KeyOf[c] = proof.key /\ \E i \in DOMAIN log : i <= root.size /\ log[i] = c
    /\ Climb(proof.key, proof.slot, proof.path)[0] = root.map

\* In a proof bundle only the siblings that are not empty travel, deepest first.
Compressed(proof) ==
    LET kept == {d \in 1..Depth : proof.path[d] # Empty(d)}
        nth(i) == CHOOSE d \in kept : Cardinality({e \in kept : e >= d}) = i
    IN [proof EXCEPT !.path = [i \in 1..Cardinality(kept) |->
           [depth |-> nth(i), hash |-> proof.path[nth(i)],
            right |-> Above(proof.key, nth(i)) % 2 = 0]]]

Expandable(proof) ==
    \A i \in DOMAIN proof.path :
        LET step == proof.path[i] IN
        /\ step.depth \in 1..Depth /\ step.hash # Empty(step.depth)
        /\ i > 1 => step.depth < proof.path[i - 1].depth
        /\ step.right <=> Above(proof.key, step.depth) % 2 = 0

Expanded(proof) ==
    [proof EXCEPT !.path = [d \in 1..Depth |->
        IF \E i \in DOMAIN proof.path : proof.path[i].depth = d
        THEN proof.path[CHOOSE i \in DOMAIN proof.path : proof.path[i].depth = d].hash
        ELSE Empty(d)]]

-----------------------------------------------------------------------------
(* The cached tree *)

NoCache == [claims |-> {}, nodes |-> Levels({}), root |-> Nothing, count |-> 0]

Rebuilt(S) == [claims |-> S, nodes |-> Levels(S), root |-> Root(Levels(S)),
               count |-> Cardinality(S)]

\* What a look at the meta rows and, later, at the other tables says.
Stale(meta, now) ==
    \/ meta.root = Nothing \/ meta.root # Root(now.nodes)
    \/ meta.count # Cardinality(now.claims)

\* Claims of a key come from the cache, or from spend_claims if it has none.
ClaimsFor(now, k) ==
    IF SlotOf(now.claims, k) # {} THEN SlotOf(now.claims, k) ELSE SlotOf(Logged, k)

\* Mutant of WithPath: the climb takes siblings without regard to the side.
WithPathUnsided(now, k) ==
    LET slot == SlotOf(now.claims, k)
        up[d \in 0..Depth] == IF d = Depth THEN <<slot>>
                              ELSE Branch(up[d + 1], now.nodes[d + 1][Sibling(Above(k, d + 1))])
        nodes == [d \in 0..Depth |-> [now.nodes[d] EXCEPT ![Above(k, d)] = up[d]]]
    IN [now EXCEPT !.nodes = nodes, !.root = Root(nodes), !.count = Cardinality(now.claims)]

\* Only the nodes over one key change.
WithPath(now, k) ==
    LET up    == Climb(k, SlotOf(now.claims, k), SiblingsOf(now.nodes, k))
        nodes == [d \in 0..Depth |-> [now.nodes[d] EXCEPT ![Above(k, d)] = up[d]]]
    IN [now EXCEPT !.nodes = nodes, !.root = Root(nodes), !.count = Cardinality(now.claims)]

Idle == [stage |-> "idle", key |-> 0, size |-> 0, meta |-> Nothing, rows |-> {},
         proof |-> Nothing, again |-> FALSE, against |-> Nothing]

Init ==
    /\ log = <<>> /\ cache = NoCache /\ appends = 0
    /\ thread = [x \in Handlers \cup {Publisher} |-> Idle]
    /\ newest = [n \in 1..Cardinality(Claims) |-> Nothing] /\ signed = {}

-----------------------------------------------------------------------------
(* Appending *)

\* _append_lock is free, and no other claim holds the spend key.  A duplicate goes
\* the whole way and writes its claim to the cache again.
AppendTransfer(c) ==
    LET now  == [cache EXCEPT !.claims = @ \cup {c}]
        rows == Logged \cup {c}
    IN
    /\ thread[Publisher].stage = "idle" /\ appends < MaxAppends
    /\ \A other \in Logged \ {c} : KeyOf[other] # KeyOf[c]
    /\ log' = IF c \in Logged THEN log ELSE log \o <<c>>
    /\ cache' = IF Stale(cache, cache) THEN Rebuilt(rows) ELSE WithPath(now, KeyOf[c])
    /\ appends' = appends + 1
    /\ UNCHANGED <<thread, newest, signed>>

-----------------------------------------------------------------------------
(* Steps that requests and the publisher share: _ensure_current_spend_map *)

Goes(x, new) == thread' = [thread EXCEPT ![x] = new]

\* The meta rows are read before the root node and the number of claims.
LookAtMeta(x) ==
    /\ thread[x].stage = "look"
    /\ Goes(x, [thread[x] EXCEPT !.stage = "compare",
                                 !.meta = [root |-> cache.root, count |-> cache.count]])
    /\ UNCHANGED <<log, cache, newest, signed, appends>>

CompareMeta(x) ==
    /\ thread[x].stage = "compare"
    /\ Goes(x, [thread[x] EXCEPT !.stage = IF Stale(thread[x].meta, cache) THEN "collect" ELSE "use",
                                 !.meta = Nothing])
    /\ UNCHANGED <<log, cache, newest, signed, appends>>

\* The claims a rebuild is made of are read and hashed before its first write.
CollectClaims(x) ==
    /\ thread[x].stage = "collect"
    /\ Goes(x, [thread[x] EXCEPT !.stage = "rewrite", !.rows = Logged])
    /\ UNCHANGED <<log, cache, newest, signed, appends>>

-----------------------------------------------------------------------------
(* A proof request *)

Ask(h, k, n) ==
    /\ thread[h].stage = "idle" /\ n \in 1..Len(log)
    /\ Goes(h, [Idle EXCEPT !.stage = IF n = Len(log) THEN "look" ELSE "history",
                            !.key = k, !.size = n])
    /\ UNCHANGED <<log, cache, newest, signed, appends>>

\* Mutant of AnswerFromHistory: the leaf behind the last one of the size counts.
AnswerFromLongerHistory(h) ==
    LET t == thread[h]
        S == {log[i] : i \in 1..t.size + 1}
    IN
    /\ t.stage = "history"
    /\ Goes(h, IF SlotOf(S, t.key) = {} THEN Idle
               ELSE [t EXCEPT !.stage = "reply", !.against = newest[t.size],
                              !.proof = ProofFrom(Levels(S), t.key, SlotOf(S, t.key),
                                                  t.size, Cardinality(S))])
    /\ UNCHANGED <<log, cache, newest, signed, appends>>

\* An older size is answered from spend_claims alone.
AnswerFromHistory(h) ==
    LET t == thread[h]
        S == {log[i] : i \in 1..t.size}
    IN
    /\ t.stage = "history"
    /\ Goes(h, IF SlotOf(S, t.key) = {} THEN Idle
               ELSE [t EXCEPT !.stage = "reply", !.against = newest[t.size],
                              !.proof = ProofFrom(Levels(S), t.key, SlotOf(S, t.key),
                                                  t.size, Cardinality(S))])
    /\ UNCHANGED <<log, cache, newest, signed, appends>>

\* One transaction from the first DELETE to the proof; a key without claims raises
\* and rolls it back.
RewriteForRequest(h) ==
    LET t    == thread[h]
        now  == Rebuilt(t.rows)
        slot == ClaimsFor(now, t.key)
    IN
    /\ t.stage = "rewrite"
    /\ \/ slot = {} /\ Goes(h, Idle) /\ UNCHANGED cache
       \/ /\ slot # {} /\ cache' = now
          /\ Goes(h, [t EXCEPT !.stage = "check", !.rows = {},
                               !.proof = ProofFrom(now.nodes, t.key, slot, t.size, now.count)])
    /\ UNCHANGED <<log, newest, signed, appends>>

\* Without a rebuild the size and the claims are read first, the siblings later.
ReadSlot(h) ==
    LET t    == thread[h]
        slot == ClaimsFor(cache, t.key)
    IN
    /\ t.stage = "use"
    /\ Goes(h, IF slot = {} THEN Idle
               ELSE [t EXCEPT !.stage = "siblings",
                              !.proof = ProofFrom(cache.nodes, t.key, slot, t.size, cache.count)])
    /\ UNCHANGED <<log, cache, newest, signed, appends>>

ReadSiblings(h) ==
    /\ thread[h].stage = "siblings"
    /\ Goes(h, [thread[h] EXCEPT !.stage = "check",
                                 !.proof.path = SiblingsOf(cache.nodes, thread[h].key)])
    /\ UNCHANGED <<log, cache, newest, signed, appends>>

\* Mutant of CheckProof: a proof that does not verify is an error at once.
CheckProofOnce(h) ==
    LET t == thread[h]
        r == IF t.again THEN t.against ELSE newest[t.size]
    IN
    /\ t.stage = "check"
    /\ Goes(h, IF r = Nothing \/ Verifies(t.proof, r)
               THEN [t EXCEPT !.stage = "reply", !.against = r] ELSE Idle)
    /\ UNCHANGED <<log, cache, newest, signed, appends>>

\* Against the newest root of the size, if there is one; the first failure
\* rebuilds the cache, the second, against the same root, is an error.
CheckProof(h) ==
    LET t == thread[h]
        r == IF t.again THEN t.against ELSE newest[t.size]
    IN
    /\ t.stage = "check"
    /\ Goes(h, IF r = Nothing \/ Verifies(t.proof, r)
               THEN [t EXCEPT !.stage = "reply", !.against = r]
               ELSE IF t.again THEN Idle
               ELSE [t EXCEPT !.stage = "collect", !.again = TRUE, !.against = r,
                                 !.proof = Nothing])
    /\ UNCHANGED <<log, cache, newest, signed, appends>>

Reply(h) ==
    /\ thread[h].stage = "reply"
    /\ Goes(h, Idle)
    /\ UNCHANGED <<log, cache, newest, signed, appends>>

-----------------------------------------------------------------------------
(* publish_root, which holds _append_lock all along *)

BeginPublish ==
    /\ thread[Publisher].stage = "idle" /\ log # <<>>
    /\ Goes(Publisher, [Idle EXCEPT !.stage = "look", !.size = Len(log)])
    /\ UNCHANGED <<log, cache, newest, signed, appends>>

ReadMap ==
    /\ thread[Publisher].stage = "use"
    /\ Goes(Publisher, [thread[Publisher] EXCEPT !.stage = "sign",
               !.meta = [root |-> cache.root, count |-> cache.count]])
    /\ UNCHANGED <<log, cache, newest, signed, appends>>

RewriteForRoot ==
    LET now == Rebuilt(thread[Publisher].rows) IN
    /\ thread[Publisher].stage = "rewrite"
    /\ cache' = now
    /\ Goes(Publisher, [thread[Publisher] EXCEPT !.stage = "sign", !.rows = {},
               !.meta = [root |-> now.root, count |-> now.count]])
    /\ UNCHANGED <<log, newest, signed, appends>>

SignRoot ==
    LET t    == thread[Publisher]
        root == [size |-> t.size, map |-> t.meta.root, count |-> t.meta.count]
    IN
    /\ t.stage = "sign"
    /\ newest' = [newest EXCEPT ![t.size] = root] /\ signed' = signed \cup {root}
    /\ Goes(Publisher, Idle)
    /\ UNCHANGED <<log, cache, appends>>

-----------------------------------------------------------------------------

Ensure(x) == LookAtMeta(x) \/ CompareMeta(x) \/ CollectClaims(x)

Answer(h) ==
    \/ Ensure(h) \/ RewriteForRequest(h) \/ ReadSlot(h) \/ ReadSiblings(h)
    \/ AnswerFromHistory(h) \/ CheckProof(h) \/ Reply(h)

Publish == Ensure(Publisher) \/ BeginPublish \/ ReadMap \/ RewriteForRoot \/ SignRoot

Next ==
    \/ \E c \in Claims : AppendTransfer(c)
    \/ \E h \in Handlers : Answer(h) \/ \E k \in Keys : \E n \in DOMAIN newest : Ask(h, k, n)
    \/ Publish

Spec == Init /\ [][Next]_vars

\* Threads run and the publisher loops for ever.  Of every claim somebody keeps asking
\* for the proof: nodes do until they have it or give up.
Fairness ==
    /\ WF_vars(Publish) /\ \A h \in Handlers : WF_vars(Answer(h))
    /\ \A k \in Keys : SF_vars(\E h \in Handlers : Ask(h, k, Len(log)))

LiveSpec == Spec /\ Fairness

-----------------------------------------------------------------------------
(* Properties *)

TypeOK ==
    /\ log \in Seq(Claims) /\ appends \in 0..MaxAppends
    /\ cache.claims \subseteq Claims /\ cache.count \in Nat
    /\ \A x \in DOMAIN thread : thread[x].size \in 0..Len(log) /\ thread[x].key \in Keys

\* The tables stay one tree over the cached claims however they came about, path by
\* path or rebuilt from claims that are no longer all there are: root, nodes and count
\* agree, so that a proof from them verifies against a root that was signed from them.
CacheIsATree == cache.root # Nothing => cache = Rebuilt(cache.claims)

Complete(root) == root = [size |-> root.size,
                          map |-> Root(Levels({log[i] : i \in 1..root.size})),
                          count |-> root.size]

\* Three ways lead to an answer: the cache, the cache after a repair, and the history of
\* an older size.  Whichever it is, and whatever is appended meanwhile, the answer
\* survives the compressed form and verifies against the root it is for, if that root
\* commits to the claims of its size.
AnswersVerify ==
    \A h \in Handlers :
        LET t == thread[h] IN
        t.stage = "reply" /\ t.against # Nothing /\ Complete(t.against) =>
            /\ Expandable(Compressed(t.proof))
            /\ Expanded(Compressed(t.proof)) = t.proof
            /\ Verifies(t.proof, t.against)

\* The map that is signed with a size commits to every claim of that size, as after
\* each append of the tests (assert root_hash == spend_map_root(rebuilt_claims)).
RootsCommitEveryClaim == \A root \in signed : Complete(root)

\* A claim that a rebuild pushed out of the cache does not stay out: the request that
\* meets the mismatch repairs the tables, and the newest root is complete in the end.
MapsAreRepaired == <>[](log # <<>> => newest[Len(log)] # Nothing /\ Complete(newest[Len(log)]))

=============================================================================
