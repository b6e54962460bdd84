----------------------------- MODULE Settlement -----------------------------
(***************************************************************************)
(* How the nodes bring the transfers of one bill to settlement: the store  *)
(* of src/ind/store.py, the settlement worker of src/ind/node_client.py    *)
(* and the fan-out of src/ind/transparency_client.py, in quorum mode.      *)
(*                                                                         *)
(* An operator is the registry of SpendRegistry: the first claim of a      *)
(* spend key wins and claims under a mirrored root are durable.  The       *)
(* module TransparencyOperator shows that operators keep that promise.     *)
(* Tables survive a node crash, ingest threads and finalizers do not.      *)
(***************************************************************************)
EXTENDS Integers, FiniteSets

CONSTANTS
    Nodes, PeersOf,      \* nodes and the settlement peers each one asks
    Finalizers,          \* threads of a node inside finalize_pending
    Operators, Core,     \* configured operators; those in a core domain
    Fanout,              \* IND_OPERATOR_APPEND_FANOUT
    ConfiguredProofs,    \* IND_OPERATOR_FINALITY_MIN_PROOFS, 0 to derive it
    MinConfirmations,    \* settlement_min_remote_confirmations
    SubmitAsync,         \* transparency_submit_async
    RequireTransparency, \* require_transparency
    StaleAttempts,       \* V3_LOG_PROOF_STALE_HTTP_400_ATTEMPTS
    Transfers,           \* signed transfers of the bill
    Ancestors,           \* the transfers each one is built on
    Idle,                \* no bill in work
    Deliveries,          \* <<n, t>>: bound on which node hears of which transfer
    Own,                 \* <<n, t>>: sends of the node's own wallet
    Strays,              \* <<o, t>>: bound on claims that come by other ways
    MaxStale,            \* bound on failed proof requests
    MaxCrashes           \* bound on node crashes

ASSUME OperatorAssumption == /\ IsFiniteSet(Operators) /\ Core \subseteq Operators
                             /\ Fanout \in Nat \ {0} /\ ConfiguredProofs \in Nat
ASSUME AncestryAssumption ==
    /\ Ancestors \in [Transfers -> SUBSET Transfers]
    /\ Idle \notin Transfers
    /\ \A t \in Transfers : t \notin Ancestors[t]
ASSUME PeerAssumption == PeersOf \in [Nodes -> SUBSET Nodes]
ASSUME SettlementBounds ==
    /\ MinConfirmations \in Nat /\ StaleAttempts \in Nat \ {0}
    /\ MaxStale \in Nat /\ MaxCrashes \in Nat

VARIABLES
    claims,     \* operators: transfers in the spend map
    published,  \* operators: transfers in the current mirrored root's map
    status,     \* bills_v3.status of the bill whose tip is t
    logStatus,  \* transfer_log_status_v3.status
    attempts,   \* transfer_log_retry_v3.attempts; StaleAttempts is terminal
    conflicts,  \* conflicts_v3, as pairs of rival transfers
    ingest,     \* threads inside _ingest_transfer_announcement_v3
    finalizer,  \* threads inside finalize_pending
    stale, crashes   \* bounded counters

operators == <<claims, published>>
store     == <<status, logStatus, attempts, conflicts>>
vars      == <<operators, store, ingest, finalizer, stale, crashes>>

-----------------------------------------------------------------------------
(* Data *)

History(t)  == Ancestors[t] \cup {t}
Sequence(t) == Cardinality(Ancestors[t]) + 1

\* Two transfers of one bill state have the same spend key.
Siblings(t, u) == t # u /\ Ancestors[t] = Ancestors[u]

Pairs == {{t, u} : t, u \in Transfers}

\* _find_conflicting_transfer_pair: where the branches of two bills part.
ConflictPairs(t, u) ==
    {{a, b} : a \in History(t), b \in History(u)} \cap
    {p \in Pairs : \E a, b \in p : p = {a, b} /\ Siblings(a, b)}

PairSequence(p) == Sequence(CHOOSE a \in p : TRUE)

Targets == IF Cardinality(Operators) < Fanout THEN Cardinality(Operators) ELSE Fanout

\* Mutant of RequiredProofs: half of the targets instead of a majority.
HalfOfTargets == IF ConfiguredProofs > 0 THEN ConfiguredProofs ELSE Targets \div 2

\* _operator_finality_required_proofs_v3: a majority of the targets by default.
RequiredProofs == IF ConfiguredProofs > 0 THEN ConfiguredProofs ELSE Targets \div 2 + 1

BillStatuses == {"none", "pending", "verified", "settled"}
LogStatuses  == {"none", "unlogged", "pending", "proven"}
Replies      == {"none", "accepted", "conflict", "failed"}

LogRank == [none |-> 0, unlogged |-> 1, pending |-> 2, proven |-> 3]
BillRank == [none |-> 0, pending |-> 2, verified |-> 3, settled |-> 3]

\* Mutant of Raise: INSERT OR REPLACE without the comparison of ranks.
RaiseAlways(old, new) == new

\* _record_v3_transfer_log_status_conn: a weaker status changes nothing.
Raise(old, new) == IF LogRank[new] < LogRank[old] THEN old ELSE new

\* _stronger_bill_v3_status: of equal ranks the incoming one.
Stronger(old, new) == IF BillRank[old] > BillRank[new] THEN old ELSE new

NoIngest == [stage |-> "idle", reply |-> [o \in Operators |-> "none"], dirty |-> FALSE]

AtRest == [stage |-> "idle", bill |-> Idle, asked |-> {}, confirmed |-> {},
           divergent |-> FALSE]

TypeOK ==
    /\ claims \in [Operators -> SUBSET Transfers]
    /\ published \in [Operators -> SUBSET Transfers]
    /\ status \in [Nodes -> [Transfers -> BillStatuses]]
    /\ logStatus \in [Nodes -> [Transfers -> [Operators -> LogStatuses]]]
    /\ attempts \in [Nodes -> [Transfers -> [Operators -> Nat]]]
    /\ conflicts \in [Nodes -> SUBSET Pairs]
    /\ ingest \in [Nodes -> [Transfers ->
                     [stage : {"idle", "asking", "store"},
                      reply : [Operators -> Replies], dirty : BOOLEAN]]]
    /\ finalizer \in [Nodes -> [Finalizers ->
                       [stage : {"idle", "asking", "settle"},
                        bill : Transfers \cup {Idle}, asked : SUBSET Nodes,
                        confirmed : SUBSET Nodes, divergent : BOOLEAN]]]
    /\ stale \in Nat /\ crashes \in Nat

Init ==
    /\ claims = [o \in Operators |-> {}]
    /\ published = [o \in Operators |-> {}]
    /\ status = [n \in Nodes |-> [t \in Transfers |-> "none"]]
    /\ logStatus = [n \in Nodes |-> [t \in Transfers |-> [o \in Operators |-> "none"]]]
    /\ attempts = [n \in Nodes |-> [t \in Transfers |-> [o \in Operators |-> 0]]]
    /\ conflicts = [n \in Nodes |-> {}]
    /\ ingest = [n \in Nodes |-> [t \in Transfers |-> NoIngest]]
    /\ finalizer = [n \in Nodes |-> [f \in Finalizers |-> AtRest]]
    /\ stale = 0 /\ crashes = 0

-----------------------------------------------------------------------------
(* Operators *)

\* The registry's rule: a rival of a registered claim is refused.
Acceptable(o, t) == \A u \in claims[o] : ~Siblings(t, u)

\* The transfer reaches the operator without this model's nodes hearing of it:
\* from another node, or from a request whose answer timed out.
OperatorAppend(o, t) ==
    /\ <<o, t>> \in Strays
    /\ t \notin claims[o] /\ Acceptable(o, t)
    /\ claims' = [claims EXCEPT ![o] = @ \cup {t}]
    /\ UNCHANGED <<published, store, ingest, finalizer, stale, crashes>>

Publish(o) ==
    /\ published[o] # claims[o]
    /\ published' = [published EXCEPT ![o] = claims[o]]
    /\ UNCHANGED <<claims, store, ingest, finalizer, stale, crashes>>

\* The operator recovers from its mirror and has lost what it had not published.
Forget(o) ==
    /\ published[o] # claims[o]
    /\ claims' = [claims EXCEPT ![o] = published[o]]
    /\ UNCHANGED <<published, store, ingest, finalizer, stale, crashes>>

-----------------------------------------------------------------------------
(* Conflict proofs *)

Stored(n) == {t \in Transfers : status[n][t] # "none"}

\* A stored bill that carries one of the branches, or the state they part from.
Anchored(n, p) ==
    \E u \in Stored(n) :
        \/ p \cap History(u) # {}
        \/ \E a \in p : Ancestors[a] = History(u)

PostSettlement(n, p) ==
    \E u \in Transfers : status[n][u] = "settled" /\ Sequence(u) >= PairSequence(p)

\* What _latest_conflict_proof_v3_for_token can return, and what it deletes.
Active(n) == {p \in conflicts[n] : Anchored(n, p) /\ ~PostSettlement(n, p)}
Unanchored(n) == {p \in conflicts[n] : ~Anchored(n, p)}

\* Mutant of Purged: proofs that came too late are deleted with the unanchored.
PurgedWithIgnored(n, rest) == rest = Active(n)

\* Rows are visited newest first, up to the proof that is returned.
Purged(n, rest) ==
    IF Active(n) = {} THEN rest = conflicts[n] \ Unanchored(n)
    ELSE conflicts[n] \ Unanchored(n) \subseteq rest /\ rest \subseteq conflicts[n]

\* _store_conflict_proof_v3_conn: anchored, or rejected; ignored after settlement.
WithProof(n, p, rest) ==
    IF Anchored(n, p) /\ ~PostSettlement(n, p) THEN rest \cup {p} ELSE rest

\* A status query, of a wallet or of a settlement peer.
ReadStatus(n) ==
    /\ Unanchored(n) # {}
    /\ \E rest \in SUBSET conflicts[n] :
          Purged(n, rest) /\ conflicts' = [conflicts EXCEPT ![n] = rest]
    /\ UNCHANGED <<operators, status, logStatus, attempts, ingest, finalizer,
                   stale, crashes>>

DeliverConflictProof(n, p) ==
    /\ \E a, b \in p : Siblings(a, b)
    /\ Anchored(n, p) /\ p \notin conflicts[n]
    /\ conflicts' = [conflicts EXCEPT ![n] = WithProof(n, p, @)]
    /\ UNCHANGED <<operators, status, logStatus, attempts, ingest, finalizer,
                   stale, crashes>>

-----------------------------------------------------------------------------
(* Ingesting a transfer announcement *)

\* Stored bills that create_conflict_proof can pair with the incoming one.
Rivals(n, t) == {u \in Stored(n) \ {t} : ConflictPairs(t, u) # {}}

\* The branches of _ingest_transfer_announcement_v3 that end without asking an
\* operator: a token in conflict, a conflict found, a conflict that is ignored.
IngestRival(n, t) ==
    \E rest \in SUBSET conflicts[n] :
        /\ Purged(n, rest)
        /\ \/ /\ Active(n) # {}
              /\ conflicts' = [conflicts EXCEPT ![n] = rest]
              /\ status' = [status EXCEPT ![n][t] = Stronger(@, "verified")]
           \/ /\ Active(n) = {}
              /\ \E u \in Rivals(n, t) : \E p \in ConflictPairs(t, u) :
                    /\ conflicts' = [conflicts EXCEPT ![n] = WithProof(n, p, rest)]
                    /\ status' = IF PostSettlement(n, p) THEN status
                                 ELSE [status EXCEPT ![n][t] = Stronger(@, "verified")]

IngestConflicting(n, t) ==
    /\ <<n, t>> \in Deliveries
    /\ ingest[n][t].stage = "idle"
    /\ IngestRival(n, t)
    /\ UNCHANGED <<operators, logStatus, attempts, ingest, finalizer, stale, crashes>>

\* No conflict in sight: the operators are asked.  Deleting an unanchored proof
\* leaves this thread's transaction open (dirty).
BeginIngest(n, t) ==
    /\ <<n, t>> \in Deliveries
    /\ ingest[n][t].stage = "idle"
    /\ Active(n) = {} /\ Rivals(n, t) = {}
    /\ ingest' = [ingest EXCEPT ![n][t] =
                    [NoIngest EXCEPT !.stage = "asking", !.dirty = Unanchored(n) # {}]]
    /\ UNCHANGED <<operators, store, finalizer, stale, crashes>>

Asked(n, t) == {o \in Operators : ingest[n][t].reply[o] # "none"}

\* submit_transfer_announcement_to_all: up to the fan-out, and core operators first
\* when the fan-out does not reach all.
SubmitTo(n, t, o) ==
    LET answer(r) == ingest' = [ingest EXCEPT ![n][t].reply[o] = r] IN
    /\ ingest[n][t].stage = "asking"
    /\ o \notin Asked(n, t) /\ Cardinality(Asked(n, t)) < Targets
    /\ Cardinality(Operators) > Fanout => o \in Core \/ Core \subseteq Asked(n, t)
    /\ \/ /\ Acceptable(o, t)
          /\ claims' = [claims EXCEPT ![o] = @ \cup {t}]
          /\ answer("accepted")
       \/ ~Acceptable(o, t) /\ answer("conflict") /\ UNCHANGED claims
       \/ answer("failed") /\ UNCHANGED claims
    /\ UNCHANGED <<published, store, finalizer, stale, crashes>>

\* What is recorded for an operator's answer; in synchronous mode the proof may
\* have been verified at once.
Recorded(old, reply, verified) ==
    IF reply = "none" THEN old
    ELSE Raise(old, IF reply = "accepted"
                    THEN IF verified THEN "proven" ELSE "pending"
                    ELSE "unlogged")

\* A recorded "proven" or "unlogged" clears the retry row, "pending" does not.
RetryAfter(tries, new, reply) ==
    IF reply # "none" /\ new \in {"proven", "unlogged"} THEN 0 ELSE tries

\* _submit_v3_transfer_to_transparency_log after the answers are in.  Operators
\* outside the core that are not active were skipped.
RecordReplies(n, t) ==
    LET reply    == ingest[n][t].reply
        accepted == {o \in Operators : reply[o] = "accepted"}
    IN
    /\ ingest[n][t].stage = "asking"
    /\ Core \subseteq Asked(n, t) \/ Cardinality(Asked(n, t)) = Targets
    /\ \/ /\ ingest[n][t].dirty   \* the log status cannot be written
          /\ ingest' = [ingest EXCEPT ![n][t] = NoIngest]
          /\ UNCHANGED <<logStatus, attempts>>
       \/ /\ ~ingest[n][t].dirty
          /\ \E V \in SUBSET {o \in accepted : ~SubmitAsync /\ t \in published[o]} :
             LET new(o) == Recorded(logStatus[n][t][o], reply[o], o \in V)
                 counted == IF SubmitAsync THEN accepted ELSE V
             IN
             /\ logStatus' = [logStatus EXCEPT ![n][t] = [o \in Operators |-> new(o)]]
             /\ attempts' = [attempts EXCEPT ![n][t] =
                    [o \in Operators |->
                        RetryAfter(attempts[n][t][o], new(o), reply[o])]]
             /\ ingest' = [ingest EXCEPT ![n][t] =
                    IF \/ \E o \in Operators : reply[o] = "conflict"
                       \/ counted = {} /\ RequireTransparency
                    THEN NoIngest
                    ELSE [NoIngest EXCEPT !.stage = "store"]]
    /\ UNCHANGED <<operators, status, conflicts, finalizer, stale, crashes>>

StoreBill(n, t) ==
    /\ ingest[n][t].stage = "store"
    /\ status' = [status EXCEPT ![n][t] = Stronger(@, "pending")]
    /\ ingest' = [ingest EXCEPT ![n][t] = NoIngest]
    /\ UNCHANGED <<operators, logStatus, attempts, conflicts, finalizer, stale, crashes>>

\* commit_prepared_wallet_spend_v3: the wallet stores its own spend before it is
\* announced, if the bill it spends is settled and still the newest.  The issued
\* bill that starts the history is not stored here.
CommitSend(n, t) ==
    /\ <<n, t>> \in Own
    /\ \A u \in Stored(n) : Sequence(u) < Sequence(t)
    /\ \/ Ancestors[t] = {}
       \/ \E u \in Stored(n) : History(u) = Ancestors[t] /\ status[n][u] = "settled"
    /\ status' = [status EXCEPT ![n][t] = Stronger(@, "verified")]
    /\ UNCHANGED <<operators, logStatus, attempts, conflicts, ingest, finalizer,
                   stale, crashes>>

\* discard_unsettled_bill_v3, when the wallet cancels a queued send.
Discard(n, t) ==
    /\ <<n, t>> \in Own
    /\ status[n][t] \in {"pending", "verified"}
    /\ status' = [status EXCEPT ![n][t] = "none"]
    /\ UNCHANGED <<operators, logStatus, attempts, conflicts, ingest, finalizer,
                   stale, crashes>>

-----------------------------------------------------------------------------
(* Finalizing *)

Proven(n, t) == {o \in Operators : logStatus[n][t][o] = "proven"}

\* Mutant of Divergent: log entries of a rival are not looked at.
NeverDivergent(n, t) == FALSE

\* _v3_spend_key_has_witness_divergence.
Divergent(n, t) ==
    \E u \in Transfers : /\ Siblings(t, u)
                         /\ \E o \in Operators :
                               logStatus[n][u][o] \in {"pending", "proven"}

\* _bill_v3_tip_log_proven.
LogProven(n, t) ==
    ~Divergent(n, t) /\ Cardinality(Proven(n, t)) >= RequiredProofs

\* Mutant of VerifyProof: the live log instead of the mirrored root.
VerifyAgainstLog(n, t, o) ==
    /\ status[n][t] = "pending"
    /\ logStatus[n][t][o] # "proven"
    /\ attempts[n][t][o] < StaleAttempts
    /\ t \in claims[o]
    /\ logStatus' = [logStatus EXCEPT ![n][t][o] = "proven"]
    /\ attempts' = [attempts EXCEPT ![n][t][o] = 0]
    /\ UNCHANGED <<operators, status, conflicts, ingest, finalizer, stale, crashes>>

\* _verify_v3_transfer_log_proof_for_operator: inclusion and spend-map proof
\* against the current mirrored root.
VerifyProof(n, t, o) ==
    /\ status[n][t] = "pending"
    /\ logStatus[n][t][o] # "proven"
    /\ attempts[n][t][o] < StaleAttempts
    /\ t \in published[o]
    /\ logStatus' = [logStatus EXCEPT ![n][t][o] = "proven"]
    /\ attempts' = [attempts EXCEPT ![n][t][o] = 0]
    /\ UNCHANGED <<operators, status, conflicts, ingest, finalizer, stale, crashes>>

\* The operator answers HTTP 400 for a transfer it does not have.  A row with a
\* leaf index is not asked for before the root covers it.
ProofRefused(n, t, o) ==
    /\ stale < MaxStale
    /\ status[n][t] = "pending"
    /\ logStatus[n][t][o] \in {"none", "unlogged"}
    /\ attempts[n][t][o] < StaleAttempts
    /\ t \notin published[o]
    /\ attempts' = [attempts EXCEPT ![n][t][o] = @ + 1]
    /\ stale' = stale + 1
    /\ UNCHANGED <<operators, status, logStatus, conflicts, ingest, finalizer, crashes>>

\* finalize_pending takes up a bill whose buffer has passed.
Candidate(n, f, t) ==
    /\ finalizer[n][f].stage = "idle"
    /\ status[n][t] = "pending"
    /\ LogProven(n, t)
    /\ finalizer' = [finalizer EXCEPT ![n][f] =
                       [AtRest EXCEPT !.stage = "asking", !.bill = t]]
    /\ UNCHANGED <<operators, store, ingest, stale, crashes>>

\* The bill a peer names in peer_settlement_response_v3: its newest tip.
Tips(m) == {t \in Stored(m) : \A u \in Stored(m) : Sequence(u) =< Sequence(t)}

\* Mutant of Answer: a peer confirms only what it has settled itself.
AnswerIfSettled(n, f, m) ==
    LET fin == finalizer[n][f]
        t   == fin.bill
        heard(confirms, diverges) ==
            finalizer' = [finalizer EXCEPT ![n][f] =
                [fin EXCEPT !.asked = @ \cup {m},
                            !.confirmed = IF confirms THEN @ \cup {m} ELSE @,
                            !.divergent = @ \/ diverges]]
    IN
    /\ finalizer[n][f].stage = "asking"
    /\ m \in PeersOf[n] \ finalizer[n][f].asked
    /\ \/ \E p \in Active(m) :
             /\ heard(FALSE, FALSE)
             /\ conflicts' = [conflicts EXCEPT ![n] = WithProof(n, p, @)]
             /\ UNCHANGED status
       \/ /\ Active(m) = {}
          /\ \E u \in Tips(m) : heard(u = t /\ status[m][u] = "settled", u # t)
          /\ \/ UNCHANGED <<conflicts, status>>
             \/ \E u \in Stored(m) : Siblings(t, u) /\ IngestRival(n, u)
    /\ UNCHANGED <<operators, logStatus, attempts, ingest, stale, crashes>>

\* A peer's answer, with the proof or the rival announcement it may carry.  A
\* conflict the peer proves is not a divergence: it counts once it is stored.
Answer(n, f, m) ==
    LET fin == finalizer[n][f]
        t   == fin.bill
        heard(confirms, diverges) ==
            finalizer' = [finalizer EXCEPT ![n][f] =
                [fin EXCEPT !.asked = @ \cup {m},
                            !.confirmed = IF confirms THEN @ \cup {m} ELSE @,
                            !.divergent = @ \/ diverges]]
    IN
    /\ finalizer[n][f].stage = "asking"
    /\ m \in PeersOf[n] \ finalizer[n][f].asked
    /\ \/ \E p \in Active(m) :
             /\ heard(FALSE, FALSE)
             /\ conflicts' = [conflicts EXCEPT ![n] = WithProof(n, p, @)]
             /\ UNCHANGED status
       \/ /\ Active(m) = {}
          /\ \E u \in Tips(m) : heard(u = t, u # t)
          /\ \/ UNCHANGED <<conflicts, status>>
             \/ \E u \in Stored(m) : Siblings(t, u) /\ IngestRival(n, u)
    /\ UNCHANGED <<operators, logStatus, attempts, ingest, stale, crashes>>

\* The peer does not answer in time, or knows no bill of this token.
NoAnswer(n, f, m) ==
    /\ finalizer[n][f].stage = "asking"
    /\ m \in PeersOf[n] \ finalizer[n][f].asked
    /\ finalizer' = [finalizer EXCEPT ![n][f].asked = @ \cup {m}]
    /\ UNCHANGED <<operators, store, ingest, stale, crashes>>

\* The reconciler's verdict, then finalize_pending's own look at the conflicts.
\* With enough confirmations the "all configured peers" setting is not reached.
Decide(n, f) ==
    LET fin == finalizer[n][f] IN
    /\ fin.stage = "asking" /\ fin.asked = PeersOf[n]
    /\ \E rest \in SUBSET conflicts[n] :
          Purged(n, rest) /\ conflicts' = [conflicts EXCEPT ![n] = rest]
    /\ finalizer' = [finalizer EXCEPT ![n][f] =
          IF /\ Active(n) = {} /\ ~fin.divergent
             /\ Cardinality(fin.confirmed) >= MinConfirmations
          THEN [fin EXCEPT !.stage = "settle"] ELSE AtRest]
    /\ UNCHANGED <<operators, status, logStatus, attempts, ingest, stale, crashes>>

\* UPDATE ... SET status = 'settled' WHERE status = 'pending', a transaction that
\* begins after the conflicts were read.
Settle(n, f) ==
    LET t == finalizer[n][f].bill IN
    /\ finalizer[n][f].stage = "settle"
    /\ status' = [status EXCEPT ![n][t] = IF @ = "pending" THEN "settled" ELSE @]
    /\ finalizer' = [finalizer EXCEPT ![n][f] = AtRest]
    /\ UNCHANGED <<operators, logStatus, attempts, conflicts, ingest, stale, crashes>>

Crash(n) ==
    /\ crashes < MaxCrashes
    /\ crashes' = crashes + 1
    /\ ingest' = [ingest EXCEPT ![n] = [t \in Transfers |-> NoIngest]]
    /\ finalizer' = [finalizer EXCEPT ![n] = [f \in Finalizers |-> AtRest]]
    /\ UNCHANGED <<operators, store, stale>>

-----------------------------------------------------------------------------
OperatorStep(o) == Publish(o) \/ Forget(o) \/ \E t \in Transfers : OperatorAppend(o, t)

IngestStep(n, t) ==
    \/ IngestConflicting(n, t) \/ BeginIngest(n, t)
    \/ \E o \in Operators : SubmitTo(n, t, o)
    \/ RecordReplies(n, t) \/ StoreBill(n, t)
    \/ CommitSend(n, t) \/ Discard(n, t)

ProofStep(n, t, o) == VerifyProof(n, t, o) \/ ProofRefused(n, t, o)

FinalizeStep(n, f) ==
    \/ \E t \in Transfers : Candidate(n, f, t)
    \/ \E m \in Nodes : Answer(n, f, m) \/ NoAnswer(n, f, m)
    \/ Decide(n, f) \/ Settle(n, f)

Next ==
    \/ \E o \in Operators : OperatorStep(o)
    \/ \E n \in Nodes :
          \/ \E t \in Transfers : IngestStep(n, t) \/ \E o \in Operators : ProofStep(n, t, o)
          \/ \E f \in Finalizers : FinalizeStep(n, f)
          \/ \E p \in Pairs : DeliverConflictProof(n, p)
          \/ ReadStatus(n) \/ Crash(n)

Spec == Init /\ [][Next]_vars

\* The settlement worker goes through every pending bill once a second, a proof
\* that can be had is fetched, and a peer is not silent for ever.
Fairness ==
    \A n \in Nodes :
        /\ \A t \in Transfers : \A o \in Operators : WF_vars(VerifyProof(n, t, o))
        /\ \A f \in Finalizers :
              /\ \A t \in Transfers : SF_vars(Candidate(n, f, t))
              /\ \A m \in Nodes : SF_vars(Answer(n, f, m)) /\ WF_vars(NoAnswer(n, f, m))
              /\ WF_vars(Decide(n, f)) /\ WF_vars(Settle(n, f))

LiveSpec == Spec /\ Fairness

-----------------------------------------------------------------------------
(* Properties *)

\* Two transfers of one bill state are never both settled, on whatever nodes:
\* the majorities that proved them share an operator, and it honours one claim.
RivalsNeverSettle ==
    \A n, m \in Nodes : \A t, u \in Transfers :
        Siblings(t, u) => ~(status[n][t] = "settled" /\ status[m][u] = "settled")

\* One node never settles two rivals, however few proofs it asks for and however
\* many of its threads finalize: a logged rival makes the other one divergent.
OneBranchPerNode ==
    \A n \in Nodes : \A t, u \in Transfers :
        Siblings(t, u) => ~(status[n][t] = "settled" /\ status[n][u] = "settled")

\* A proof once recorded outlives refusals, resubmissions and crashes.
ProvenIsKept ==
    [][\A n \in Nodes : \A t \in Transfers : Proven(n, t) \subseteq Proven(n, t)']_vars

\* A settled bill's proofs are about claims its operators still hold, even when
\* an operator lost its disk since.
SettledIsClaimed ==
    \A n \in Nodes : \A t \in Transfers : status[n][t] = "settled" =>
        Cardinality({o \in Operators : t \in claims[o]}) >= RequiredProofs

\* Evidence of a double spend stays while a stored bill anchors it: neither queries
\* nor later announcements nor settlement delete it.
EvidenceKept ==
    [][\A n \in Nodes : \A p \in conflicts[n] : Anchored(n, p) => p \in conflicts'[n]]_vars

\* Peers whose newest bill is the one in question.
Agreeing(n, t) == {m \in PeersOf[n] : Tips(m) = {t}}

\* A pending bill whose proofs can be had and whose peers hold it is settled: peers
\* confirm what they hold, settled or not, so nodes do not wait for each other.
\* It may stop being pending, meet a conflict, a divergent witness or a divergent
\* peer, or its retries may have given up.
PendingSettles ==
    \A n \in Nodes : \A t \in Transfers :
        /\ status[n][t] = "pending"
        /\ Cardinality({o \in Operators : t \in published[o]}) >= RequiredProofs
        ~> \/ status[n][t] # "pending"
           \/ Active(n) # {} \/ Divergent(n, t) \/ Agreeing(n, t) # PeersOf[n]
           \/ \E o \in Operators : attempts[n][t][o] = StaleAttempts

\* README.md and THREAT_MODEL.md: settlement requires a majority of the configured
\* append-capable operators to prove the claim.
SettledByMajority ==
    \A n \in Nodes : \A t \in Transfers : status[n][t] = "settled" =>
        2 * Cardinality(Proven(n, t)) > Cardinality(Operators)

\* THREAT_MODEL.md: later conflict proofs "do not invalidate the settled branch".
SettledIsFinal ==
    [][\A n \in Nodes : \A t \in Transfers :
         status[n][t] = "settled" => status'[n][t] = "settled"]_vars

\* THREAT_MODEL.md: "A conflict proof received before settlement vetoes local
\* finality."
ConflictVetoes ==
    [][\A n \in Nodes : \A t \in Transfers :
         status[n][t] = "pending" /\ status'[n][t] = "settled" => Active(n) = {}]_vars

=============================================================================
