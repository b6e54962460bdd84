---------------------------- MODULE RootObserver ----------------------------
(***************************************************************************)
(* How a client keeps watch over one operator: it collects signed roots    *)
(* from mirrors, checks that newer roots extend older ones, remembers what *)
(* peers announce, saves evidence of conflicting roots and blacklists.     *)
(* src/ind/transparency_client.py: TransparencyVerifier and                *)
(* SQLiteObservedRootStore, which several threads share.                   *)
(*                                                                         *)
(* A root is its tree (a sequence of leaves) and its time; its signature   *)
(* is genuine.  No consistency proof exists for a tree that does not       *)
(* extend the other.  Key rotations are not recorded by any caller in the  *)
(* code and are left out; so is the cache of pairs already proved, which   *)
(* only saves a question to the operator.                                  *)
(***************************************************************************)
EXTENDS Integers, Sequences, FiniteSets

CONSTANTS
    Roots, Tree, Time,
    Violating,   \* roots with a spend map that breaks the operator's policy
    Mirrors,     \* a sequence, as configured
    MinMirrors,
    Anchors,     \* the choices of the configured anchor; NoRoot for none
    Observers,   \* threads that verify roots: ingest, finalizer, background check
    Gossips,     \* threads that ingest roots and evidence from peers
    Peers, PeerCap,  \* DEFAULT_PEER_ROOT_CAP_PER_LOG_ID
    NoRoot,
    Horizon,     \* bound: sizes and times
    MaxRounds, MaxGossip, MaxStops   \* bounds

Leaves == UNION {{Tree[r][i] : i \in DOMAIN Tree[r]} : r \in Roots}

ASSUME RootAssumption ==
    /\ NoRoot \notin Roots
    /\ Tree \in [Roots -> Seq(Leaves)] /\ Time \in [Roots -> Nat] /\ Horizon \in Nat
    /\ \A r \in Roots : Len(Tree[r]) <= Horizon /\ Time[r] <= Horizon
    /\ Anchors \subseteq Roots \cup {NoRoot} /\ Violating \subseteq Roots
ASSUME SourceAssumption ==
    /\ Mirrors \in Seq({Mirrors[i] : i \in DOMAIN Mirrors})
    /\ MinMirrors \in Nat \ {0} /\ PeerCap \in Nat \ {0}
ASSUME BoundAssumption == {MaxRounds, MaxGossip, MaxStops} \subseteq Nat
ASSUME ThreadAssumption == Observers \cap Gossips = {}

Threads == Observers \cup Gossips
Sources == {Mirrors[i] : i \in DOMAIN Mirrors}
Anchored == "configured-anchor"

VARIABLES
    anchor,    \* the configured consistency anchor
    observed,  \* observed_roots: root and source
    heard,     \* peer_observed_roots: root and peer, in order of arrival
    evidence,  \* equivocation_evidence: pairs of roots
    failures,  \* consistency_failures: pairs of roots
    violations,   \* operator_policy_violations
    status,    \* operator_status of the log
    thread,    \* what each thread is doing
    lies,      \* pairs of roots for which the operator gave a false proof
    cut,       \* announced roots whose check was cut short by a stop
    rounds, gossiped, stops

vars == <<anchor, observed, heard, evidence, failures, violations, status,
          thread, lies, cut, rounds, gossiped, stops>>
saved == <<evidence, failures, violations>>
counters == <<rounds, gossiped, stops>>

-----------------------------------------------------------------------------
(* Roots *)

Size(r) == Len(Tree[r])

Prefix(r, s) == Size(r) <= Size(s) /\ \A i \in 1..Size(r) : Tree[r][i] = Tree[s][i]
Comparable(r, s) == Prefix(r, s) \/ Prefix(s, r)

\* equivocation_collision_type, and what detect_mirror_disagreement looks for.
Collide(r, s) == Tree[r] # Tree[s] /\ (Size(r) = Size(s) \/ Time[r] = Time[s])

\* A smaller tree signed after a larger one.
RolledBack(old, new) == Size(new) < Size(old) /\ Time[new] > Time[old]

ObservedRoots == {row.root : row \in observed}
HeardRoots == {heard[i].root : i \in DOMAIN heard}

\* latest_root
Latest == CHOOSE r \in ObservedRoots : \A s \in ObservedRoots :
              \/ Size(s) < Size(r)
              \/ Size(s) = Size(r) /\ Time[s] <= Time[r]

InEvidence == UNION evidence

Idle == [stage |-> "idle", kind |-> "current", asked |-> 0, got |-> <<>>,
         root |-> NoRoot, other |-> NoRoot]

Observing == {"status", "find", "previous", "prove", "record", "activate", "silent", "enforce"}
Accusing == {"collision", "failure", "violation", "mark"}

ThreadStates ==
    [stage : {"idle", "fetch", "announced"} \cup Observing \cup Accusing,
     kind : {"current", "history"}, asked : 0..Len(Mirrors),
     got : Seq([root : Roots, source : Sources]),
     root : Roots \cup {NoRoot}, other : Roots \cup {NoRoot}]

TypeOK ==
    /\ anchor \in Anchors
    /\ observed \subseteq [root : Roots, source : Sources \cup {Anchored}]
    /\ heard \in Seq([root : Roots, peer : Peers])
    /\ evidence \subseteq SUBSET Roots
    /\ failures \subseteq Roots \X Roots
    /\ violations \subseteq Roots
    /\ status \in {"none", "active", "unresponsive", "blacklisted"}
    /\ thread \in [Threads -> ThreadStates]
    /\ lies \subseteq Roots \X Roots
    /\ cut \subseteq Roots
    /\ rounds \in 0..MaxRounds /\ gossiped \in 0..MaxGossip /\ stops \in 0..MaxStops

\* _load_consistency_anchor: recorded, and the log is marked active.
AnchorRow(a) == IF a = NoRoot THEN {} ELSE {[root |-> a, source |-> Anchored]}

Init ==
    /\ anchor \in Anchors
    /\ observed = AnchorRow(anchor)
    /\ status = IF anchor = NoRoot THEN "none" ELSE "active"
    /\ heard = <<>> /\ evidence = {} /\ failures = {} /\ violations = {}
    /\ thread = [x \in Threads |-> Idle]
    /\ lies = {} /\ cut = {} /\ rounds = 0 /\ gossiped = 0 /\ stops = 0

-----------------------------------------------------------------------------
(* A round: one root from each mirror. *)

Goto(x, stage) == thread' = [thread EXCEPT ![x].stage = stage]
Raise(x) == thread' = [thread EXCEPT ![x] = Idle]

\* A current round checks freshness and position, a historical one does not.
BeginRound(o, kind) ==
    /\ thread[o].stage = "idle" /\ rounds < MaxRounds
    /\ thread' = [thread EXCEPT ![o] = [Idle EXCEPT !.stage = "fetch", !.kind = kind]]
    /\ rounds' = rounds + 1
    /\ UNCHANGED <<anchor, observed, heard, saved, status, lies, cut, gossiped, stops>>

\* _validate_current_root_monotonicity: newest time and largest size are taken
\* from all rows together.
Newer(r) == \A s \in ObservedRoots : Time[r] > Time[s]
Older(r) == \E s \in ObservedRoots : Time[r] < Time[s]
Smaller(r) == \E s \in ObservedRoots : Size(r) < Size(s)

Keep(o, r) ==
    LET n == thread[o].asked + 1 IN
    thread' = [thread EXCEPT ![o].asked = n,
                             ![o].got = Append(@, [root |-> r, source |-> Mirrors[n]])]

\* FetchRoot, taking every smaller root for a rollback.
FetchRootUndated(o, r) ==
    /\ thread[o].stage = "fetch" /\ thread[o].asked < Len(Mirrors)
    /\ IF thread[o].kind = "current" /\ Smaller(r)
       THEN thread' = [thread EXCEPT ![o] = [Idle EXCEPT !.stage = "failure", !.root = r,
                                                         !.other = Latest]]
       ELSE /\ thread[o].kind = "current" => ~Older(r)
            /\ Keep(o, r)
    /\ UNCHANGED <<anchor, observed, heard, saved, status, lies, cut, counters>>

\* A lagging mirror is kept in the round (the check's answer is not used).
FetchRoot(o, r) ==
    /\ thread[o].stage = "fetch" /\ thread[o].asked < Len(Mirrors)
    /\ IF thread[o].kind = "current" /\ Smaller(r) /\ Newer(r)
       THEN thread' = [thread EXCEPT ![o] = [Idle EXCEPT !.stage = "failure", !.root = r,
                                                         !.other = Latest]]
       ELSE /\ thread[o].kind = "current" /\ ~Smaller(r) => ~Older(r)
            /\ Keep(o, r)
    /\ UNCHANGED <<anchor, observed, heard, saved, status, lies, cut, counters>>

\* No answer, a stale or replayed root, or none that contains the leaf.
FetchNothing(o) ==
    /\ thread[o].stage = "fetch" /\ thread[o].asked < Len(Mirrors)
    /\ thread' = [thread EXCEPT ![o].asked = @ + 1]
    /\ UNCHANGED <<anchor, observed, heard, saved, status, lies, cut, counters>>

\* Too few mirrors, or two that disagree (detect_mirror_disagreement), end the
\* round; the disagreement is raised and not saved.
Gathered(o) ==
    LET got == thread[o].got IN
    /\ thread[o].stage = "fetch" /\ thread[o].asked = Len(Mirrors)
    /\ IF \/ Len(got) < MinMirrors
          \/ \E i, j \in DOMAIN got : Collide(got[i].root, got[j].root)
       THEN Raise(o)
       ELSE thread' = [thread EXCEPT ![o] = [Idle EXCEPT !.stage = "status", !.got = got]]
    /\ UNCHANGED <<anchor, observed, heard, saved, status, lies, cut, counters>>

-----------------------------------------------------------------------------
(* observe_root, once for each collected root: every step is a transaction  *)
(* of the root store or a question to the operator.                         *)

Current(o) == thread[o].got[1].root

\* The round is over when all its roots have been observed.
AfterRoot(t) ==
    IF Len(t.got) = 1 THEN Idle
    ELSE [t EXCEPT !.stage = "status", !.got = Tail(t.got), !.root = NoRoot, !.other = NoRoot]

NextRoot(o) == thread' = [thread EXCEPT ![o] = AfterRoot(thread[o])]

CheckStatus(o) ==
    /\ thread[o].stage = "status"
    /\ IF status = "blacklisted" THEN Raise(o)
       ELSE thread' = [thread EXCEPT ![o].stage = "find", ![o].root = Current(o)]
    /\ UNCHANGED <<anchor, observed, heard, saved, status, lies, cut, counters>>

\* find_equivocation over the roots observed and the roots heard from peers.
Held == ObservedRoots \cup HeardRoots

FindCollision(x, otherwise) ==
    LET r == thread[x].root IN
    \/ \E s \in Held :
          /\ Collide(s, r)
          /\ thread' = [thread EXCEPT ![x] = [Idle EXCEPT !.stage = "collision", !.root = r,
                                                          !.other = s]]
    \/ /\ \A s \in Held : ~Collide(s, r)
       /\ otherwise

FindBeforeRecord(o) ==
    /\ thread[o].stage = "find"
    /\ FindCollision(o, Goto(o, "previous"))
    /\ UNCHANGED <<anchor, observed, heard, saved, status, lies, cut, counters>>

\* The root is compared with the latest one only.
ReadPrevious(o) ==
    LET r == thread[o].root
        p == IF observed = {} THEN NoRoot ELSE Latest IN
    /\ thread[o].stage = "previous"
    /\ thread' = [thread EXCEPT
          ![o].other = p,
          ![o].stage = IF p = NoRoot \/ Tree[p] = Tree[r] THEN "record"
                       ELSE IF Size(p) = Size(r) THEN "failure"
                       ELSE "prove"]
    /\ UNCHANGED <<anchor, observed, heard, saved, status, lies, cut, counters>>

\* ProveConsistency, asking for a proof of a larger root only.
ProveGrowth(o) ==
    LET r == thread[o].root
        p == thread[o].other IN
    /\ thread[o].stage = "prove"
    /\ \/ /\ Prefix(p, r) \/ Size(r) < Size(p)
          /\ Goto(o, "record")
          /\ UNCHANGED lies
       \/ /\ Size(p) < Size(r)
          /\ \/ Goto(o, "failure") /\ lies' = lies \cup {<<p, r>>}
             \/ Goto(o, "silent") /\ UNCHANGED lies
    /\ UNCHANGED <<anchor, observed, heard, saved, status, cut, counters>>

\* The operator answers with a proof, with something that proves nothing, or
\* not at all.
ProveConsistency(o) ==
    LET r == thread[o].root
        p == thread[o].other IN
    /\ thread[o].stage = "prove"
    /\ \/ /\ Comparable(p, r)
          /\ Goto(o, "record")
          /\ UNCHANGED lies
       \/ /\ Goto(o, "failure")
          /\ lies' = lies \cup {<<p, r>>}
       \/ /\ Goto(o, "silent")
          /\ UNCHANGED lies
    /\ UNCHANGED <<anchor, observed, heard, saved, status, cut, counters>>

\* record_root: a row is unique by tree and source, so a root that repeats a
\* tree at a later time leaves no row of its own.
RecordRoot(o) ==
    LET row == [root |-> thread[o].root, source |-> thread[o].got[1].source] IN
    /\ thread[o].stage = "record"
    /\ observed' = IF \E old \in observed : old.source = row.source /\ Tree[old.root] = Tree[row.root]
                   THEN observed ELSE observed \cup {row}
    /\ Goto(o, "activate")
    /\ UNCHANGED <<anchor, heard, saved, status, lies, cut, counters>>

\* mark_active, whatever the status is by now.
Activate(o) ==
    /\ thread[o].stage = "activate"
    /\ status' = "active"
    /\ IF thread[o].other # NoRoot /\ Tree[thread[o].other] = Tree[thread[o].root]
       THEN Goto(o, "enforce") ELSE NextRoot(o)
    /\ UNCHANGED <<anchor, observed, heard, saved, lies, cut, counters>>

\* mark_unresponsive leaves a blacklist alone; the root is returned unproved.
OperatorSilent(o) ==
    /\ thread[o].stage = "silent"
    /\ status' = IF status = "blacklisted" THEN status ELSE "unresponsive"
    /\ Goto(o, "enforce")
    /\ UNCHANGED <<anchor, observed, heard, saved, lies, cut, counters>>

\* _enforce_consistency_freshness
Enforce(o) ==
    /\ thread[o].stage = "enforce"
    /\ IF status = "blacklisted" THEN Raise(o) ELSE NextRoot(o)
    /\ UNCHANGED <<anchor, observed, heard, saved, status, lies, cut, counters>>

-----------------------------------------------------------------------------
(* Evidence: saved first, then the log is blacklisted and the thread raises. *)

SaveCollision(x) ==
    /\ thread[x].stage = "collision"
    /\ evidence' = evidence \cup {{thread[x].root, thread[x].other}}
    /\ Goto(x, "mark")
    /\ UNCHANGED <<anchor, observed, heard, failures, violations, status, lies, cut, counters>>

SaveFailure(x) ==
    /\ thread[x].stage = "failure"
    /\ failures' = failures \cup {<<thread[x].other, thread[x].root>>}
    /\ Goto(x, "mark")
    /\ UNCHANGED <<anchor, observed, heard, evidence, violations, status, lies, cut, counters>>

SaveViolation(x) ==
    /\ thread[x].stage = "violation"
    /\ violations' = violations \cup {thread[x].root}
    /\ Goto(x, "mark")
    /\ UNCHANGED <<anchor, observed, heard, evidence, failures, status, lies, cut, counters>>

MarkBlacklisted(x) ==
    /\ thread[x].stage = "mark"
    /\ status' = "blacklisted"
    /\ Raise(x)
    /\ UNCHANGED <<anchor, observed, heard, saved, lies, cut, counters>>

-----------------------------------------------------------------------------
(* Gossip from peers. *)

\* _prune_peer_roots: the newest PeerCap rows of a peer stay, and rows that are
\* evidence.
Surplus(rows, p, i) ==
    /\ rows[i].peer = p /\ rows[i].root \notin InEvidence
    /\ Cardinality({j \in i..Len(rows) : rows[j].peer = p /\ rows[j].root \notin InEvidence}) > PeerCap

Without(rows, i) == SubSeq(rows, 1, i - 1) \o SubSeq(rows, i + 1, Len(rows))

\* record_peer_root adds one row, so at most one is surplus.
Record(rows, r, p) ==
    LET row == [root |-> r, peer |-> p]
        added == IF \E i \in DOMAIN rows : rows[i] = row THEN rows ELSE Append(rows, row)
        surplus == {i \in DOMAIN added : Surplus(added, p, i)} IN
    IF surplus = {} THEN added
    ELSE Without(added, CHOOSE i \in surplus : TRUE)

Take(g) == thread[g].stage = "idle" /\ gossiped < MaxGossip /\ gossiped' = gossiped + 1

\* process_root_announcement
ReceiveRoot(g, p, r) ==
    /\ Take(g)
    /\ heard' = Record(heard, r, p)
    /\ thread' = [thread EXCEPT ![g].stage = "announced", ![g].root = r]
    /\ UNCHANGED <<anchor, observed, saved, status, lies, cut, rounds, stops>>

\* FindAfterRecord, looking at the client's own roots only.
FindAmongObserved(g) ==
    LET r == thread[g].root IN
    /\ thread[g].stage = "announced"
    /\ \/ \E s \in ObservedRoots :
             /\ Collide(s, r)
             /\ thread' = [thread EXCEPT ![g].stage = "collision", ![g].other = s]
       \/ /\ \A s \in ObservedRoots : ~Collide(s, r)
          /\ Raise(g)
    /\ UNCHANGED <<anchor, observed, heard, saved, status, lies, cut, counters>>

FindAfterRecord(g) ==
    /\ thread[g].stage = "announced"
    /\ FindCollision(g, Raise(g))
    /\ UNCHANGED <<anchor, observed, heard, saved, status, lies, cut, counters>>

\* process_equivocation_proof: both roots are recorded, one after the other with
\* no look in between, then the evidence.
ReceiveProof(g, p, r, s) ==
    /\ Take(g) /\ Collide(r, s)
    /\ heard' = Record(Record(heard, r, p), s, p)
    /\ thread' = [thread EXCEPT ![g].stage = "collision", ![g].root = s, ![g].other = r]
    /\ UNCHANGED <<anchor, observed, saved, status, lies, cut, rounds, stops>>

\* process_operator_policy_violation_proof
ReceiveViolation(g, p, r) ==
    /\ Take(g) /\ r \in Violating
    /\ heard' = Record(heard, r, p)
    /\ thread' = [thread EXCEPT ![g].stage = "violation", ![g].root = r]
    /\ UNCHANGED <<anchor, observed, saved, status, lies, cut, rounds, stops>>

\* The roots a thread is about to judge.
Checking(x) == {thread[x].root, thread[x].other} \ {NoRoot}

\* The process stops and starts again; what threads were doing is lost, and the
\* anchor is loaded as at the first start.
Restart ==
    /\ stops < MaxStops /\ stops' = stops + 1
    /\ cut' = cut \cup UNION {Checking(g) : g \in Gossips}
    /\ thread' = [x \in Threads |-> Idle]
    /\ observed' = observed \cup AnchorRow(anchor)
    /\ status' = IF anchor = NoRoot THEN status ELSE "active"
    /\ UNCHANGED <<anchor, heard, saved, lies, rounds, gossiped>>

-----------------------------------------------------------------------------

Round(o) ==
    \/ \E kind \in {"current", "history"} : BeginRound(o, kind)
    \/ \E r \in Roots : FetchRoot(o, r)
    \/ FetchNothing(o) \/ Gathered(o)

Observe(o) ==
    \/ CheckStatus(o) \/ FindBeforeRecord(o) \/ ReadPrevious(o) \/ ProveConsistency(o)
    \/ RecordRoot(o) \/ Activate(o) \/ OperatorSilent(o) \/ Enforce(o)

Blame(x) == SaveCollision(x) \/ SaveFailure(x) \/ SaveViolation(x) \/ MarkBlacklisted(x)

Gossip(g) ==
    \/ \E p \in Peers, r \in Roots : ReceiveRoot(g, p, r) \/ ReceiveViolation(g, p, r)
    \/ \E p \in Peers, r, s \in Roots : ReceiveProof(g, p, r, s)
    \/ FindAfterRecord(g)

Next ==
    \/ \E o \in Observers : Round(o) \/ Observe(o)
    \/ \E g \in Gossips : Gossip(g)
    \/ \E x \in Threads : Blame(x)
    \/ Restart

Spec == Init /\ [][Next]_vars

-----------------------------------------------------------------------------
(* Properties *)

Contradict(old, new) == ~Comparable(old, new) \/ Collide(old, new) \/ RolledBack(old, new)

Cause ==
    \/ \E pair \in evidence : \E r, s \in pair : Collide(r, s)
    \/ \E pair \in failures : Contradict(pair[1], pair[2]) \/ pair \in lies
    \/ violations \cap Violating # {}

\* An operator is blacklisted for a cause, and the cause is in the store: two
\* roots that no honest operator signs, a false proof, or a broken policy.  A
\* lagging or replaying mirror, an answer that does not come, roots that arrive
\* out of order and threads that cross never blame an honest operator
\* (_handle_equivocation, _handle_consistency_failure and the gossip handlers
\* save before they mark).
BlamedForCause == status = "blacklisted" => Cause

\* Two conflicting roots that peers announced and that are still held are never
\* overlooked, whichever threads took them: one of them is in the saved evidence,
\* its check is still to come, or a stop cut its check short
\* (process_root_announcement records before it looks).  A root that came with a
\* policy violation is not compared; it accuses the operator by itself.
PeerCollisionsAreCaught ==
    \A r, s \in HeardRoots :
        Collide(r, s) =>
            \/ {r, s} \cap (InEvidence \cup violations \cup cut) # {}
            \/ \E g \in Gossips : {r, s} \cap Checking(g) # {}

\* Roots observed from mirrors are versions of one log: each extends or is
\* extended by each other, though a root is compared with the latest only and
\* mirrors lag.  It takes a single observing thread: two that check side by side
\* compare with the same latest root (observe_root, from latest_root to record_root).
ChainOfRoots == \A r, s \in ObservedRoots : Comparable(r, s)

\* A blacklist lasts: "Use ind-cli transparency unblacklist ... only after
\* confirming the evidence was caused by local error" is the only end the client
\* names (_blacklisted_message).
BlacklistIsKept == [][status = "blacklisted" => status' = "blacklisted"]_vars

=============================================================================
