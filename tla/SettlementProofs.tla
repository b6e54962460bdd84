-------------------------- MODULE SettlementProofs --------------------------
(***************************************************************************)
(* Proofs about Settlement.  The argument: a recorded proof is about a     *)
(* published claim and is never lost, a bill is taken up only with enough  *)
(* proofs and no logged rival, and an operator publishes one claim of a    *)
(* spend key.  So two rivals cannot both be in work at one node, and two   *)
(* majorities of proofs for rivals would meet in one operator.             *)
(***************************************************************************)
EXTENDS Settlement, FiniteSetTheorems, TLAPS

\* An operator's map and its published part hold one claim of each spend key.
RegistryHolds ==
    \A o \in Operators :
        /\ published[o] \subseteq claims[o]
        /\ \A t, u \in claims[o] : ~Siblings(t, u)

\* A recorded proof is about a claim under a mirrored root.
ProvenPublished ==
    \A n \in Nodes : \A t \in Transfers : \A o \in Proven(n, t) : t \in published[o]

\* A bill is in work from the moment a finalizer takes it up.
InWork(n, t) ==
    \/ status[n][t] = "settled"
    \/ \E f \in Finalizers : finalizer[n][f].bill = t

\* A bill in work has its proofs.
WorkProven ==
    \A n \in Nodes : \A t \in Transfers :
        InWork(n, t) => Cardinality(Proven(n, t)) >= RequiredProofs

\* Rivals are not both in work at one node.
WorkUnrivalled ==
    \A n \in Nodes : \A t, u \in Transfers :
        Siblings(t, u) => ~(InWork(n, t) /\ InWork(n, u))

Inv == TypeOK /\ RegistryHolds /\ ProvenPublished /\ WorkProven /\ WorkUnrivalled

-----------------------------------------------------------------------------
(* Operators of the model *)

\* RequiredProofs is never zero, whatever is configured.
LEMMA RequiredPositive == RequiredProofs \in Nat \ {0}
<1>1. Cardinality(Operators) \in Nat
  BY FS_CardinalityType, OperatorAssumption
<1>2. Targets \in Nat
  BY <1>1, OperatorAssumption DEF Targets
<1> QED
  BY <1>2, OperatorAssumption DEF RequiredProofs

\* A stored status is settled after a merge with a weaker one only if it was.
LEMMA StrongerSettled ==
    ASSUME NEW old \in BillStatuses, NEW new \in {"pending", "verified"}
    PROVE  /\ Stronger(old, new) \in BillStatuses
           /\ Stronger(old, new) = "settled" => old = "settled"
  BY DEF Stronger, BillRank, BillStatuses

-----------------------------------------------------------------------------
(* Type correctness *)

IngestThread == [stage : {"idle", "asking", "store"},
                 reply : [Operators -> Replies], dirty : BOOLEAN]
FinalizerThread == [stage : {"idle", "asking", "settle"},
                    bill : Transfers \cup {Idle}, asked : SUBSET Nodes,
                    confirmed : SUBSET Nodes, divergent : BOOLEAN]

\* The threads' resting states are well typed.
LEMMA RestTypes == NoIngest \in IngestThread /\ AtRest \in FinalizerThread
  BY DEF NoIngest, AtRest, Replies, IngestThread, FinalizerThread

\* Writing one row of a table keeps the table's type.
LEMMA RowWrite ==
    ASSUME NEW A, NEW B, NEW C, NEW f \in [A -> [B -> C]],
           NEW a \in A, NEW b \in B, NEW c \in C
    PROVE  [f EXCEPT ![a][b] = c] \in [A -> [B -> C]]
  OBVIOUS

\* The program starts with empty tables and resting threads.
LEMMA InitType == Init => TypeOK
  BY RestTypes DEF Init, TypeOK, BillStatuses, LogStatuses, IngestThread, FinalizerThread

\* An announcement that meets a conflict changes conflicts and statuses only.
LEMMA IngestRivalType ==
    ASSUME TypeOK, NEW n \in Nodes, NEW t \in Transfers, IngestRival(n, t)
    PROVE  /\ conflicts' \in [Nodes -> SUBSET Pairs]
           /\ status' \in [Nodes -> [Transfers -> BillStatuses]]
           /\ \A m \in Nodes : \A u \in Transfers :
                 status'[m][u] = "settled" => status[m][u] = "settled"
<1> DEFINE raised == Stronger(status[n][t], "verified")
<1>1. status[n][t] \in BillStatuses
  BY DEF TypeOK
<1>2. raised \in BillStatuses /\ (raised = "settled" => status[n][t] = "settled")
  BY <1>1, StrongerSettled
<1> HIDE DEF raised
<1>3. status' = status \/ status' = [status EXCEPT ![n][t] = raised]
  BY DEF IngestRival, raised
<1>4. status' \in [Nodes -> [Transfers -> BillStatuses]]
  <2>1. status \in [Nodes -> [Transfers -> BillStatuses]]
    BY DEF TypeOK
  <2>2. [status EXCEPT ![n][t] = raised] \in [Nodes -> [Transfers -> BillStatuses]]
    BY <1>2, <2>1, RowWrite
  <2> QED
    BY <1>3, <2>1, <2>2
<1>5. \A m \in Nodes : \A u \in Transfers :
         status'[m][u] = "settled" => status[m][u] = "settled"
  <2>1. SUFFICES ASSUME NEW m \in Nodes, NEW u \in Transfers
                 PROVE  status'[m][u] = status[m][u] \/ (m = n /\ u = t /\ status'[m][u] = raised)
    BY <1>2
  <2>2. status \in [Nodes -> [Transfers -> BillStatuses]]
    BY DEF TypeOK
  <2> QED
    BY <1>3, <2>2
<1>6. \A p, rest : p \in Pairs /\ rest \in SUBSET Pairs => WithProof(n, p, rest) \in SUBSET Pairs
  BY DEF WithProof
<1>7. \A u : ConflictPairs(t, u) \subseteq Pairs
  BY DEF ConflictPairs
<1>8. conflicts[n] \in SUBSET Pairs
  BY DEF TypeOK
<1>9. \E rest \in SUBSET Pairs : conflicts' = [conflicts EXCEPT ![n] = rest]
  BY <1>6, <1>7, <1>8 DEF IngestRival
<1>10. conflicts' \in [Nodes -> SUBSET Pairs]
  BY <1>9 DEF TypeOK
<1> QED
  BY <1>4, <1>5, <1>10

\* The conjuncts of TypeOK, with the threads' record types named.
LEMMA ThreadTypes ==
    ASSUME TypeOK
    PROVE  /\ ingest \in [Nodes -> [Transfers -> IngestThread]]
           /\ finalizer \in [Nodes -> [Finalizers -> FinalizerThread]]
           /\ status \in [Nodes -> [Transfers -> BillStatuses]]
           /\ logStatus \in [Nodes -> [Transfers -> [Operators -> LogStatuses]]]
           /\ attempts \in [Nodes -> [Transfers -> [Operators -> Nat]]]
           /\ conflicts \in [Nodes -> SUBSET Pairs]
           /\ claims \in [Operators -> SUBSET Transfers]
           /\ published \in [Operators -> SUBSET Transfers]
  BY DEF TypeOK, IngestThread, FinalizerThread

\* The operators' own steps keep the types.
LEMMA OperatorStepType ==
    ASSUME TypeOK, NEW o \in Operators, OperatorStep(o)
    PROVE  TypeOK'
<1>1. CASE Publish(o)
  <2>1. published' \in [Operators -> SUBSET Transfers]
    BY <1>1 DEF Publish, TypeOK
  <2> QED
    BY <1>1, <2>1 DEF Publish, TypeOK, store
<1>2. CASE Forget(o)
  <2>1. claims' \in [Operators -> SUBSET Transfers]
    BY <1>2 DEF Forget, TypeOK
  <2> QED
    BY <1>2, <2>1 DEF Forget, TypeOK, store
<1>3. ASSUME NEW t \in Transfers, OperatorAppend(o, t)
      PROVE  TypeOK'
  <2>1. claims' \in [Operators -> SUBSET Transfers]
    BY <1>3 DEF OperatorAppend, TypeOK
  <2> QED
    BY <1>3, <2>1 DEF OperatorAppend, TypeOK, store
<1> QED
  BY <1>1, <1>2, <1>3 DEF OperatorStep

\* The steps of an ingest keep the types.
LEMMA IngestStepType ==
    ASSUME TypeOK, NEW n \in Nodes, NEW t \in Transfers, IngestStep(n, t)
    PROVE  TypeOK'
<1> DEFINE IngestType == ingest' \in [Nodes -> [Transfers -> IngestThread]]
<1>1. CASE IngestConflicting(n, t)
  BY <1>1, IngestRivalType DEF IngestConflicting, TypeOK, operators
<1>2. CASE BeginIngest(n, t)
  <2>1. \A x \in BOOLEAN : [NoIngest EXCEPT !.stage = "asking", !.dirty = x] \in IngestThread
    BY RestTypes DEF IngestThread
  <2>2. IngestType
    BY <1>2, <2>1, ThreadTypes DEF BeginIngest
  <2> QED
    BY <1>2, <2>2 DEF BeginIngest, TypeOK, IngestThread, operators, store
<1>3. ASSUME NEW o \in Operators, SubmitTo(n, t, o)
      PROVE  TypeOK'
  <2>1. \A r \in Replies : [ingest[n][t] EXCEPT !.reply[o] = r] \in IngestThread
    <3>1. ingest[n][t] \in IngestThread
      BY ThreadTypes
    <3>2. \A r \in Replies : [ingest[n][t].reply EXCEPT ![o] = r] \in [Operators -> Replies]
      BY <3>1 DEF IngestThread
    <3> QED
      BY <3>1, <3>2 DEF IngestThread
  <2>2. \E r \in Replies : ingest' = [ingest EXCEPT ![n][t] = [ingest[n][t] EXCEPT !.reply[o] = r]]
    BY <1>3 DEF SubmitTo, Replies
  <2>3. IngestType
    BY <2>1, <2>2, ThreadTypes
  <2>4. claims' \in [Operators -> SUBSET Transfers]
    <3>1. claims' = claims \/ claims' = [claims EXCEPT ![o] = @ \cup {t}]
      BY <1>3 DEF SubmitTo
    <3>2. claims[o] \cup {t} \in SUBSET Transfers
      BY ThreadTypes
    <3> QED
      BY <3>1, <3>2, ThreadTypes
  <2> QED
    BY <1>3, <2>3, <2>4 DEF SubmitTo, TypeOK, IngestThread, store
<1>4. CASE RecordReplies(n, t)
  <2>1. [NoIngest EXCEPT !.stage = "store"] \in IngestThread
    BY RestTypes DEF IngestThread
  <2>2. IngestType
    <3>1. PICK x \in {NoIngest, [NoIngest EXCEPT !.stage = "store"]} :
             ingest' = [ingest EXCEPT ![n][t] = x]
      BY <1>4 DEF RecordReplies
    <3>2. x \in IngestThread
      BY <2>1, <3>1, RestTypes
    <3>3. ingest \in [Nodes -> [Transfers -> IngestThread]]
      BY ThreadTypes
    <3> QED
      BY <3>1, <3>2, <3>3
  <2>3. /\ logStatus' \in [Nodes -> [Transfers -> [Operators -> LogStatuses]]]
        /\ attempts' \in [Nodes -> [Transfers -> [Operators -> Nat]]]
    <3>1. CASE ingest[n][t].dirty
      BY <1>4, <3>1, ThreadTypes DEF RecordReplies
    <3>2. CASE ~ingest[n][t].dirty
      <4> DEFINE reply == ingest[n][t].reply
                 new(o, V) == Recorded(logStatus[n][t][o], reply[o], o \in V)
                 tries(o, V) == RetryAfter(attempts[n][t][o], new(o, V), reply[o])
      <4>1. PICK V :
               /\ logStatus' = [logStatus EXCEPT ![n][t] = [o \in Operators |-> new(o, V)]]
               /\ attempts' = [attempts EXCEPT ![n][t] = [o \in Operators |-> tries(o, V)]]
        BY <1>4, <3>2 DEF RecordReplies
      <4>2. \A o \in Operators : /\ reply[o] \in Replies
                                 /\ logStatus[n][t][o] \in LogStatuses
                                 /\ attempts[n][t][o] \in Nat
        BY ThreadTypes DEF IngestThread
      <4>3. \A o \in Operators : new(o, V) \in LogStatuses
        BY <4>2 DEF Recorded, Raise, LogRank, LogStatuses, Replies
      <4>4. \A o \in Operators : tries(o, V) \in Nat
        BY <4>2 DEF RetryAfter
      <4> HIDE DEF new, tries
      <4>5. /\ [o \in Operators |-> new(o, V)] \in [Operators -> LogStatuses]
            /\ [o \in Operators |-> tries(o, V)] \in [Operators -> Nat]
        BY <4>3, <4>4
      <4> QED
        BY <4>1, <4>5, ThreadTypes
    <3> QED
      BY <3>1, <3>2
  <2> QED
    BY <1>4, <2>2, <2>3 DEF RecordReplies, TypeOK, IngestThread, operators
<1>5. CASE StoreBill(n, t)
  <2>1. Stronger(status[n][t], "pending") \in BillStatuses
    BY ThreadTypes, StrongerSettled
  <2>2. status' \in [Nodes -> [Transfers -> BillStatuses]]
    BY <1>5, <2>1, ThreadTypes DEF StoreBill
  <2>3. IngestType
    BY <1>5, RestTypes, ThreadTypes DEF StoreBill
  <2> QED
    BY <1>5, <2>2, <2>3 DEF StoreBill, TypeOK, IngestThread, operators
<1>6. CASE CommitSend(n, t)
  <2>1. Stronger(status[n][t], "verified") \in BillStatuses
    BY ThreadTypes, StrongerSettled
  <2>2. status' \in [Nodes -> [Transfers -> BillStatuses]]
    BY <1>6, <2>1, ThreadTypes DEF CommitSend
  <2> QED
    BY <1>6, <2>2 DEF CommitSend, TypeOK, operators
<1>7. CASE Discard(n, t)
  <2>1. status' \in [Nodes -> [Transfers -> BillStatuses]]
    BY <1>7, ThreadTypes DEF Discard, BillStatuses
  <2> QED
    BY <1>7, <2>1 DEF Discard, TypeOK, operators
<1> QED
  BY <1>1, <1>2, <1>3, <1>4, <1>5, <1>6, <1>7 DEF IngestStep

\* Fetching proofs keeps the types.
LEMMA ProofStepType ==
    ASSUME TypeOK, NEW n \in Nodes, NEW t \in Transfers, NEW o \in Operators,
           ProofStep(n, t, o)
    PROVE  TypeOK'
<1>1. CASE VerifyProof(n, t, o)
  <2>1. /\ logStatus' \in [Nodes -> [Transfers -> [Operators -> LogStatuses]]]
        /\ attempts' \in [Nodes -> [Transfers -> [Operators -> Nat]]]
    BY <1>1, ThreadTypes DEF VerifyProof, LogStatuses
  <2> QED
    BY <1>1, <2>1 DEF VerifyProof, TypeOK, operators
<1>2. CASE ProofRefused(n, t, o)
  <2>1. attempts[n][t][o] + 1 \in Nat
    BY ThreadTypes
  <2>2. attempts' \in [Nodes -> [Transfers -> [Operators -> Nat]]]
    BY <1>2, <2>1, ThreadTypes DEF ProofRefused
  <2> QED
    BY <1>2, <2>2 DEF ProofRefused, TypeOK, operators
<1> QED
  BY <1>1, <1>2 DEF ProofStep

\* The steps of a finalizer keep the types.
LEMMA FinalizeStepType ==
    ASSUME TypeOK, NEW n \in Nodes, NEW f \in Finalizers, FinalizeStep(n, f)
    PROVE  TypeOK'
<1> DEFINE FinType == finalizer' \in [Nodes -> [Finalizers -> FinalizerThread]]
           fin == finalizer[n][f]
<1>0. fin \in FinalizerThread
  BY ThreadTypes
<1>1. ASSUME NEW t \in Transfers, Candidate(n, f, t)
      PROVE  TypeOK'
  <2>1. [AtRest EXCEPT !.stage = "asking", !.bill = t] \in FinalizerThread
    BY RestTypes DEF FinalizerThread
  <2>2. FinType
    BY <1>1, <2>1, ThreadTypes DEF Candidate
  <2> QED
    BY <1>1, <2>2 DEF Candidate, TypeOK, FinalizerThread, operators, store
<1>2. ASSUME NEW m \in Nodes, Answer(n, f, m)
      PROVE  TypeOK'
  <2> DEFINE heard(x, y) == [fin EXCEPT !.asked = @ \cup {m},
                                        !.confirmed = IF x THEN @ \cup {m} ELSE @,
                                        !.divergent = @ \/ y]
  <2>1. \A x, y \in BOOLEAN : heard(x, y) \in FinalizerThread
    BY <1>0 DEF FinalizerThread
  <2>2. \E x, y \in BOOLEAN : finalizer' = [finalizer EXCEPT ![n][f] = heard(x, y)]
    <3>1. CASE finalizer' = [finalizer EXCEPT ![n][f] = heard(FALSE, FALSE)]
      BY <3>1
    <3>2. ASSUME NEW u, finalizer' = [finalizer EXCEPT ![n][f] = heard(u = fin.bill, u # fin.bill)]
          PROVE  \E x, y \in BOOLEAN : finalizer' = [finalizer EXCEPT ![n][f] = heard(x, y)]
      <4> HIDE DEF heard
      <4>1. (u = fin.bill) \in BOOLEAN /\ (u # fin.bill) \in BOOLEAN
        OBVIOUS
      <4> QED
        BY <3>2, <4>1
    <3>3. \/ finalizer' = [finalizer EXCEPT ![n][f] = heard(FALSE, FALSE)]
          \/ \E u : finalizer' = [finalizer EXCEPT ![n][f] = heard(u = fin.bill, u # fin.bill)]
      BY <1>2, Zenon DEF Answer
    <3> QED
      BY <3>1, <3>2, <3>3
  <2> HIDE DEF heard
  <2>3. FinType
    BY <2>1, <2>2, ThreadTypes
  <2>4. /\ conflicts' \in [Nodes -> SUBSET Pairs]
        /\ status' \in [Nodes -> [Transfers -> BillStatuses]]
    <3>1. ASSUME NEW p \in Active(m), UNCHANGED status,
                 conflicts' = [conflicts EXCEPT ![n] = WithProof(n, p, @)]
          PROVE  conflicts' \in [Nodes -> SUBSET Pairs]
      <4>1. p \in Pairs
        BY ThreadTypes DEF Active
      <4>2. WithProof(n, p, conflicts[n]) \in SUBSET Pairs
        BY <4>1, ThreadTypes DEF WithProof
      <4> QED
        BY <3>1, <4>2, ThreadTypes
    <3>2. ASSUME NEW u \in Stored(m), IngestRival(n, u)
          PROVE  /\ conflicts' \in [Nodes -> SUBSET Pairs]
                 /\ status' \in [Nodes -> [Transfers -> BillStatuses]]
      BY <3>2, IngestRivalType DEF Stored
    <3> QED
      BY <1>2, <3>1, <3>2, ThreadTypes DEF Answer
  <2> QED
    BY <1>2, <2>3, <2>4 DEF Answer, TypeOK, FinalizerThread, operators
<1>3. ASSUME NEW m \in Nodes, NoAnswer(n, f, m)
      PROVE  TypeOK'
  <2>1. [fin EXCEPT !.asked = @ \cup {m}] \in FinalizerThread
    BY <1>0 DEF FinalizerThread
  <2>2. finalizer' = [finalizer EXCEPT ![n][f] = [fin EXCEPT !.asked = @ \cup {m}]]
    BY <1>3 DEF NoAnswer
  <2>3. FinType
    BY <2>1, <2>2, ThreadTypes
  <2> QED
    BY <1>3, <2>3 DEF NoAnswer, TypeOK, FinalizerThread, operators, store
<1>4. CASE Decide(n, f)
  <2>1. [fin EXCEPT !.stage = "settle"] \in FinalizerThread
    BY <1>0 DEF FinalizerThread
  <2>2. FinType
    BY <1>4, <2>1, RestTypes, ThreadTypes DEF Decide
  <2>3. conflicts' \in [Nodes -> SUBSET Pairs]
    BY <1>4, ThreadTypes DEF Decide
  <2> QED
    BY <1>4, <2>2, <2>3 DEF Decide, TypeOK, FinalizerThread, operators
<1>5. CASE Settle(n, f)
  <2>1. FinType
    BY <1>5, RestTypes, ThreadTypes DEF Settle
  <2>2. status' \in [Nodes -> [Transfers -> BillStatuses]]
    <3>1. CASE fin.bill \in Transfers
      BY <1>5, <3>1, ThreadTypes DEF Settle, BillStatuses
    <3>2. CASE fin.bill \notin Transfers
      BY <1>5, <3>2, ThreadTypes DEF Settle, BillStatuses
    <3> QED
      BY <3>1, <3>2
  <2> QED
    BY <1>5, <2>1, <2>2 DEF Settle, TypeOK, FinalizerThread, operators
<1> QED
  BY <1>1, <1>2, <1>3, <1>4, <1>5 DEF FinalizeStep

\* Every step keeps the types.
LEMMA NextType ==
    ASSUME TypeOK, [Next]_vars
    PROVE  TypeOK'
<1>1. CASE UNCHANGED vars
  BY <1>1 DEF TypeOK, vars, operators, store
<1>2. ASSUME NEW n \in Nodes, NEW p \in Pairs, DeliverConflictProof(n, p)
      PROVE  TypeOK'
  <2>1. WithProof(n, p, conflicts[n]) \in SUBSET Pairs
    BY ThreadTypes DEF WithProof
  <2>2. conflicts' \in [Nodes -> SUBSET Pairs]
    BY <1>2, <2>1, ThreadTypes DEF DeliverConflictProof
  <2> QED
    BY <1>2, <2>2 DEF DeliverConflictProof, TypeOK, operators
<1>3. ASSUME NEW n \in Nodes, ReadStatus(n)
      PROVE  TypeOK'
  <2>1. conflicts' \in [Nodes -> SUBSET Pairs]
    BY <1>3, ThreadTypes DEF ReadStatus
  <2> QED
    BY <1>3, <2>1 DEF ReadStatus, TypeOK, operators
<1>4. ASSUME NEW n \in Nodes, Crash(n)
      PROVE  TypeOK'
  <2>1. /\ ingest' \in [Nodes -> [Transfers -> IngestThread]]
        /\ finalizer' \in [Nodes -> [Finalizers -> FinalizerThread]]
    BY <1>4, RestTypes, ThreadTypes DEF Crash
  <2> QED
    BY <1>4, <2>1 DEF Crash, TypeOK, IngestThread, FinalizerThread, operators, store
<1> QED
  BY <1>1, <1>2, <1>3, <1>4, OperatorStepType, IngestStepType, ProofStepType,
     FinalizeStepType DEF Next

-----------------------------------------------------------------------------
(* What a step can do to the registry, to proofs and to bills in work *)

\* An operator registers no rival, and a published claim stays published.
LEMMA RegistryStep ==
    ASSUME TypeOK, RegistryHolds, [Next]_vars
    PROVE  /\ RegistryHolds'
           /\ \A o \in Operators : published[o] \subseteq published'[o]
<1>1. CASE UNCHANGED operators
  BY <1>1 DEF RegistryHolds, operators
<1>2. ASSUME NEW o \in Operators, NEW t \in Transfers, Acceptable(o, t),
             claims' = [claims EXCEPT ![o] = @ \cup {t}], UNCHANGED published
      PROVE  /\ RegistryHolds'
             /\ \A q \in Operators : published[q] \subseteq published'[q]
  <2>1. \A u \in claims[o] : ~Siblings(t, u) /\ ~Siblings(u, t)
    BY <1>2 DEF Acceptable, Siblings
  <2>2. ~Siblings(t, t)
    BY DEF Siblings
  <2>3. claims'[o] = claims[o] \cup {t}
    BY <1>2, ThreadTypes
  <2>4. \A q \in Operators : q # o => claims'[q] = claims[q]
    BY <1>2, ThreadTypes
  <2>5. ASSUME NEW q \in Operators
        PROVE  /\ published'[q] \subseteq claims'[q]
               /\ \A u, v \in claims'[q] : ~Siblings(u, v)
    BY <1>2, <2>1, <2>2, <2>3, <2>4 DEF RegistryHolds
  <2> QED
    BY <1>2, <2>5 DEF RegistryHolds
<1>3. ASSUME NEW o \in Operators, OperatorStep(o)
      PROVE  /\ RegistryHolds'
             /\ \A q \in Operators : published[q] \subseteq published'[q]
  <2>1. CASE Publish(o)
    BY <2>1, ThreadTypes DEF Publish, RegistryHolds
  <2>2. CASE Forget(o)
    BY <2>2, ThreadTypes DEF Forget, RegistryHolds
  <2>3. ASSUME NEW t \in Transfers, OperatorAppend(o, t)
        PROVE  /\ RegistryHolds'
               /\ \A q \in Operators : published[q] \subseteq published'[q]
    BY <1>2, <2>3 DEF OperatorAppend
  <2> QED
    BY <1>3, <2>1, <2>2, <2>3 DEF OperatorStep
<1>4. ASSUME NEW n \in Nodes, NEW t \in Transfers, NEW o \in Operators, SubmitTo(n, t, o)
      PROVE  /\ RegistryHolds'
             /\ \A q \in Operators : published[q] \subseteq published'[q]
  <2>1. CASE UNCHANGED claims
    BY <1>1, <1>4, <2>1 DEF SubmitTo, operators
  <2>2. CASE Acceptable(o, t) /\ claims' = [claims EXCEPT ![o] = @ \cup {t}]
    BY <1>2, <1>4, <2>2 DEF SubmitTo
  <2> QED
    BY <1>4, <2>1, <2>2 DEF SubmitTo
<1>5. \/ UNCHANGED operators
      \/ \E o \in Operators : OperatorStep(o)
      \/ \E n \in Nodes : \E t \in Transfers : \E o \in Operators : SubmitTo(n, t, o)
  <2>1. ASSUME NEW n \in Nodes, NEW t \in Transfers, IngestStep(n, t)
        PROVE  UNCHANGED operators \/ \E o \in Operators : SubmitTo(n, t, o)
    BY <2>1 DEF IngestStep, IngestConflicting, BeginIngest, RecordReplies, StoreBill,
                CommitSend, Discard
  <2>2. ASSUME NEW n \in Nodes, NEW t \in Transfers, NEW o \in Operators, ProofStep(n, t, o)
        PROVE  UNCHANGED operators
    BY <2>2 DEF ProofStep, VerifyProof, ProofRefused
  <2>3. ASSUME NEW n \in Nodes, NEW f \in Finalizers, FinalizeStep(n, f)
        PROVE  UNCHANGED operators
    BY <2>3 DEF FinalizeStep, Candidate, Answer, NoAnswer, Decide, Settle
  <2>4. ASSUME NEW n \in Nodes,
               (\E p \in Pairs : DeliverConflictProof(n, p)) \/ ReadStatus(n) \/ Crash(n)
        PROVE  UNCHANGED operators
    BY <2>4 DEF DeliverConflictProof, ReadStatus, Crash
  <2>5. CASE UNCHANGED vars
    BY <2>5 DEF vars
  <2> QED
    BY <2>1, <2>2, <2>3, <2>4, <2>5, Zenon DEF Next
<1> QED
  BY <1>1, <1>3, <1>4, <1>5

\* A recorded proof stays, and a new one is about a published claim.
LEMMA ProofStepEffect ==
    ASSUME TypeOK, [Next]_vars,
           NEW n \in Nodes, NEW t \in Transfers, NEW o \in Operators
    PROVE  /\ logStatus[n][t][o] = "proven" => logStatus'[n][t][o] = "proven"
           /\ logStatus'[n][t][o] = "proven" =>
                 logStatus[n][t][o] = "proven" \/ t \in published[o]
<1>1. CASE UNCHANGED logStatus
  BY <1>1
<1>2. ASSUME NEW m \in Nodes, NEW u \in Transfers, RecordReplies(m, u),
             ~ingest[m][u].dirty
      PROVE  /\ logStatus[n][t][o] = "proven" => logStatus'[n][t][o] = "proven"
             /\ logStatus'[n][t][o] = "proven" =>
                   logStatus[n][t][o] = "proven" \/ t \in published[o]
  <2> DEFINE reply == ingest[m][u].reply
             new(q, V) == Recorded(logStatus[m][u][q], reply[q], q \in V)
  <2>1. PICK V \in SUBSET {q \in Operators : u \in published[q]} :
            logStatus' = [logStatus EXCEPT ![m][u] = [q \in Operators |-> new(q, V)]]
    BY <1>2 DEF RecordReplies
  <2>2. CASE m = n /\ u = t
    <3>1. reply[o] \in Replies /\ logStatus[m][u][o] \in LogStatuses
      BY ThreadTypes DEF IngestThread
    <3>2. /\ logStatus[m][u][o] = "proven" => new(o, V) = "proven"
          /\ new(o, V) = "proven" => logStatus[m][u][o] = "proven" \/ o \in V
      BY <3>1 DEF Recorded, Raise, LogRank, LogStatuses, Replies
    <3> HIDE DEF new
    <3>3. logStatus'[n][t][o] = new(o, V)
      BY <2>1, <2>2, ThreadTypes
    <3> QED
      BY <2>1, <2>2, <3>2, <3>3
  <2>3. CASE m # n \/ u # t
    <3> HIDE DEF new
    <3>1. logStatus'[n][t][o] = logStatus[n][t][o]
      BY <2>1, <2>3, ThreadTypes
    <3> QED
      BY <3>1
  <2> QED
    BY <2>2, <2>3
<1>3. ASSUME NEW m \in Nodes, NEW u \in Transfers, NEW q \in Operators, VerifyProof(m, u, q)
      PROVE  /\ logStatus[n][t][o] = "proven" => logStatus'[n][t][o] = "proven"
             /\ logStatus'[n][t][o] = "proven" =>
                   logStatus[n][t][o] = "proven" \/ t \in published[o]
  <2>1. u \in published[q] /\ logStatus' = [logStatus EXCEPT ![m][u][q] = "proven"]
    BY <1>3 DEF VerifyProof
  <2>2. CASE m = n /\ u = t /\ q = o
    BY <2>1, <2>2, ThreadTypes
  <2>3. CASE m # n \/ u # t \/ q # o
    BY <2>1, <2>3, ThreadTypes
  <2> QED
    BY <2>2, <2>3
<1>4. \/ UNCHANGED logStatus
      \/ \E m \in Nodes : \E u \in Transfers : RecordReplies(m, u) /\ ~ingest[m][u].dirty
      \/ \E m \in Nodes : \E u \in Transfers : \E q \in Operators : VerifyProof(m, u, q)
  <2>1. ASSUME NEW m \in Nodes, NEW u \in Transfers, IngestStep(m, u)
        PROVE  UNCHANGED logStatus \/ (RecordReplies(m, u) /\ ~ingest[m][u].dirty)
    BY <2>1 DEF IngestStep, IngestConflicting, BeginIngest, SubmitTo, RecordReplies,
                StoreBill, CommitSend, Discard, store
  <2>2. ASSUME NEW m \in Nodes, NEW u \in Transfers, NEW q \in Operators, ProofStep(m, u, q)
        PROVE  UNCHANGED logStatus \/ VerifyProof(m, u, q)
    BY <2>2 DEF ProofStep, ProofRefused
  <2>3. ASSUME NEW m \in Nodes, NEW f \in Finalizers, FinalizeStep(m, f)
        PROVE  UNCHANGED logStatus
    BY <2>3 DEF FinalizeStep, Candidate, Answer, NoAnswer, Decide, Settle, store
  <2>4. ASSUME NEW m \in Nodes,
               (\E p \in Pairs : DeliverConflictProof(m, p)) \/ ReadStatus(m) \/ Crash(m)
        PROVE  UNCHANGED logStatus
    BY <2>4 DEF DeliverConflictProof, ReadStatus, Crash, store
  <2>5. ASSUME NEW q \in Operators, OperatorStep(q)
        PROVE  UNCHANGED logStatus
    BY <2>5 DEF OperatorStep, Publish, Forget, OperatorAppend, store
  <2>6. CASE UNCHANGED vars
    BY <2>6 DEF vars, store
  <2> QED
    BY <2>1, <2>2, <2>3, <2>4, <2>5, <2>6, Zenon DEF Next
<1> QED
  BY <1>1, <1>2, <1>3, <1>4

\* A bill gets into work only when a finalizer takes it up with its proofs.
LEMMA WorkStep ==
    ASSUME TypeOK, [Next]_vars, NEW n \in Nodes, NEW t \in Transfers, InWork(n, t)'
    PROVE  InWork(n, t) \/ LogProven(n, t)
<1>1. CASE UNCHANGED <<status, finalizer>>
  BY <1>1 DEF InWork
<1>2. ASSUME NEW m \in Nodes, NEW u \in Transfers, IngestRival(m, u), UNCHANGED finalizer
      PROVE  InWork(n, t)
  BY <1>2, IngestRivalType DEF InWork
<1>3. ASSUME NEW m \in Nodes, NEW u \in Transfers, StoreBill(m, u) \/ CommitSend(m, u) \/ Discard(m, u)
      PROVE  InWork(n, t)
  <2>1. /\ Stronger(status[m][u], "pending") = "settled" => status[m][u] = "settled"
        /\ Stronger(status[m][u], "verified") = "settled" => status[m][u] = "settled"
    BY ThreadTypes, StrongerSettled
  <2>2. \E x : /\ x = "settled" => status[m][u] = "settled"
               /\ status' = [status EXCEPT ![m][u] = x]
    BY <1>3, <2>1 DEF StoreBill, CommitSend, Discard
  <2>3. status'[n][t] = "settled" => status[n][t] = "settled"
    BY <2>2, ThreadTypes
  <2>4. UNCHANGED finalizer
    BY <1>3 DEF StoreBill, CommitSend, Discard
  <2> QED
    BY <2>3, <2>4 DEF InWork
<1>4. ASSUME NEW m \in Nodes, NEW f \in Finalizers, NEW x \in FinalizerThread,
             x.bill \in {Idle, finalizer[m][f].bill},
             finalizer' = [finalizer EXCEPT ![m][f] = x],
             \A k \in Nodes : \A u \in Transfers :
                status'[k][u] = "settled" => status[k][u] = "settled"
      PROVE  InWork(n, t)
  <2>1. \A g \in Finalizers : finalizer'[n][g].bill = t => finalizer[n][g].bill = t
    BY <1>4, ThreadTypes, AncestryAssumption
  <2> QED
    BY <1>4, <2>1 DEF InWork
<1>5. ASSUME NEW m \in Nodes, NEW f \in Finalizers, NEW u \in Transfers, Candidate(m, f, u)
      PROVE  InWork(n, t) \/ LogProven(n, t)
  <2>1. CASE m = n /\ u = t
    BY <1>5, <2>1 DEF Candidate
  <2>2. CASE m # n \/ u # t
    <3>1. [AtRest EXCEPT !.stage = "asking", !.bill = u].bill = u
      BY DEF AtRest
    <3>2. \A g \in Finalizers : finalizer'[n][g].bill = t => finalizer[n][g].bill = t
      BY <1>5, <2>2, <3>1, ThreadTypes DEF Candidate
    <3> QED
      BY <1>5, <3>2 DEF InWork, Candidate, store
  <2> QED
    BY <2>1, <2>2
<1>6. ASSUME NEW m \in Nodes, NEW f \in Finalizers, NEW k \in Nodes, Answer(m, f, k)
      PROVE  InWork(n, t)
  <2> DEFINE fin == finalizer[m][f]
             heard(x, y) == [fin EXCEPT !.asked = @ \cup {k},
                                        !.confirmed = IF x THEN @ \cup {k} ELSE @,
                                        !.divergent = @ \/ y]
  <2>0. fin \in FinalizerThread
    BY ThreadTypes
  <2>1. \A x, y \in BOOLEAN : heard(x, y) \in FinalizerThread /\ heard(x, y).bill = fin.bill
    BY <2>0 DEF FinalizerThread
  <2>2. \/ finalizer' = [finalizer EXCEPT ![m][f] = heard(FALSE, FALSE)]
        \/ \E u : finalizer' = [finalizer EXCEPT ![m][f] = heard(u = fin.bill, u # fin.bill)]
    BY <1>6, Zenon DEF Answer
  <2> HIDE DEF heard
  <2>3. PICK x \in FinalizerThread : /\ x.bill = fin.bill
                                     /\ finalizer' = [finalizer EXCEPT ![m][f] = x]
    <3>1. \A u : (u = fin.bill) \in BOOLEAN /\ (u # fin.bill) \in BOOLEAN
      OBVIOUS
    <3>2. \E x, y \in BOOLEAN : finalizer' = [finalizer EXCEPT ![m][f] = heard(x, y)]
      BY <2>2, <3>1, Zenon
    <3> QED
      BY <2>1, <3>2
  <2>4. \A j \in Nodes : \A u \in Transfers :
           status'[j][u] = "settled" => status[j][u] = "settled"
    BY <1>6, IngestRivalType DEF Answer, Stored
  <2> QED
    BY <1>4, <2>3, <2>4
<1>7. ASSUME NEW m \in Nodes, NEW f \in Finalizers, NEW k \in Nodes, NoAnswer(m, f, k)
      PROVE  InWork(n, t)
  <2> DEFINE x == [finalizer[m][f] EXCEPT !.asked = @ \cup {k}]
  <2>0. finalizer[m][f] \in FinalizerThread
    BY ThreadTypes
  <2>1. x \in FinalizerThread /\ x.bill = finalizer[m][f].bill
    BY <2>0 DEF FinalizerThread
  <2>2. finalizer' = [finalizer EXCEPT ![m][f] = x] /\ UNCHANGED status
    BY <1>7 DEF NoAnswer, store
  <2> QED
    BY <1>4, <2>1, <2>2
<1>8. ASSUME NEW m \in Nodes, NEW f \in Finalizers, Decide(m, f)
      PROVE  InWork(n, t)
  <2> DEFINE x == [finalizer[m][f] EXCEPT !.stage = "settle"]
  <2>0. finalizer[m][f] \in FinalizerThread
    BY ThreadTypes
  <2>1. x \in FinalizerThread /\ x.bill = finalizer[m][f].bill
    BY <2>0 DEF FinalizerThread
  <2>2. AtRest \in FinalizerThread /\ AtRest.bill = Idle
    BY RestTypes DEF AtRest
  <2>3. UNCHANGED status
    BY <1>8 DEF Decide
  <2>4. \/ finalizer' = [finalizer EXCEPT ![m][f] = x]
        \/ finalizer' = [finalizer EXCEPT ![m][f] = AtRest]
    BY <1>8 DEF Decide
  <2> QED
    BY <1>4, <2>1, <2>2, <2>3, <2>4
<1>9. ASSUME NEW m \in Nodes, NEW f \in Finalizers, Settle(m, f)
      PROVE  InWork(n, t)
  <2>1. AtRest \in FinalizerThread /\ AtRest.bill = Idle
    BY RestTypes DEF AtRest
  <2>2. finalizer' = [finalizer EXCEPT ![m][f] = AtRest]
    BY <1>9 DEF Settle
  <2>3. status'[n][t] = "settled" => InWork(n, t)
    BY <1>9, ThreadTypes DEF Settle, InWork
  <2>4. \A g \in Finalizers : finalizer'[n][g].bill = t => finalizer[n][g].bill = t
    BY <2>1, <2>2, ThreadTypes, AncestryAssumption
  <2> QED
    BY <2>3, <2>4 DEF InWork
<1>10. ASSUME NEW m \in Nodes, Crash(m)
       PROVE  InWork(n, t)
  <2>1. AtRest.bill = Idle
    BY DEF AtRest
  <2>2. \A g \in Finalizers : finalizer'[n][g].bill = t => finalizer[n][g].bill = t
    BY <1>10, <2>1, ThreadTypes, AncestryAssumption DEF Crash
  <2> QED
    BY <1>10, <2>2 DEF InWork, Crash, store
<1>11. ASSUME NEW m \in Nodes, NEW u \in Transfers, IngestStep(m, u)
       PROVE  InWork(n, t) \/ LogProven(n, t)
  BY <1>1, <1>2, <1>3, <1>11
     DEF IngestStep, IngestConflicting, BeginIngest, SubmitTo, RecordReplies, store
<1>12. ASSUME NEW m \in Nodes, NEW f \in Finalizers, FinalizeStep(m, f)
       PROVE  InWork(n, t) \/ LogProven(n, t)
  BY <1>5, <1>6, <1>7, <1>8, <1>9, <1>12, Zenon DEF FinalizeStep
<1>13. ASSUME NEW o \in Operators, OperatorStep(o)
       PROVE  InWork(n, t) \/ LogProven(n, t)
  BY <1>1, <1>13 DEF OperatorStep, Publish, Forget, OperatorAppend, store
<1>14. ASSUME NEW m \in Nodes, NEW u \in Transfers, NEW o \in Operators, ProofStep(m, u, o)
       PROVE  InWork(n, t) \/ LogProven(n, t)
  BY <1>1, <1>14 DEF ProofStep, VerifyProof, ProofRefused
<1>15. ASSUME NEW m \in Nodes, (\E p \in Pairs : DeliverConflictProof(m, p)) \/ ReadStatus(m)
       PROVE  InWork(n, t) \/ LogProven(n, t)
  BY <1>1, <1>15 DEF DeliverConflictProof, ReadStatus
<1>16. CASE UNCHANGED vars
  BY <1>1, <1>16 DEF vars, store
<1> QED
  BY <1>10, <1>11, <1>12, <1>13, <1>14, <1>15, <1>16, Zenon DEF Next

-----------------------------------------------------------------------------
(* The invariant *)

\* The operators with a recorded proof are finitely many, and become no fewer.
LEMMA ProvenGrows ==
    ASSUME TypeOK, [Next]_vars, NEW n \in Nodes, NEW t \in Transfers
    PROVE  /\ Proven(n, t) \subseteq Proven(n, t)'
           /\ IsFiniteSet(Proven(n, t))
           /\ Cardinality(Proven(n, t)) \in Nat
           /\ Cardinality(Proven(n, t)') \in Nat
           /\ Cardinality(Proven(n, t)) =< Cardinality(Proven(n, t)')
<1>1. Proven(n, t) \subseteq Proven(n, t)'
  BY ProofStepEffect DEF Proven
<1>2. Proven(n, t) \subseteq Operators /\ Proven(n, t)' \subseteq Operators
  BY DEF Proven
<1>3. IsFiniteSet(Proven(n, t)) /\ IsFiniteSet(Proven(n, t)')
  BY <1>2, FS_Subset, OperatorAssumption
<1> QED
  BY <1>1, <1>3, FS_Subset, FS_CardinalityType

\* Enough proofs of a transfer make its rivals divergent.
LEMMA ProofsDiverge ==
    ASSUME TypeOK, NEW n \in Nodes, NEW t \in Transfers, NEW u \in Transfers,
           Siblings(t, u), Cardinality(Proven(n, u)) >= RequiredProofs
    PROVE  ~LogProven(n, t)
<1>1. Proven(n, u) # {}
  BY RequiredPositive, FS_EmptySet
<1>2. PICK o \in Operators : logStatus[n][u][o] = "proven"
  BY <1>1 DEF Proven
<1> QED
  BY <1>2 DEF LogProven, Divergent

\* A fresh program has nothing in work.
LEMMA InitInv == Init => Inv
<1> SUFFICES ASSUME Init PROVE Inv
  OBVIOUS
<1>1. TypeOK
  BY InitType
<1>2. RegistryHolds
  BY DEF Init, RegistryHolds
<1>3. ProvenPublished
  BY DEF Init, ProvenPublished, Proven
<1>4. \A n \in Nodes : \A t \in Transfers : ~InWork(n, t)
  <2>1. AtRest.bill = Idle
    BY DEF AtRest
  <2> QED
    BY <2>1, AncestryAssumption DEF Init, InWork
<1> QED
  BY <1>1, <1>2, <1>3, <1>4 DEF Inv, WorkProven, WorkUnrivalled

\* Every step keeps the invariant.
LEMMA NextInv == Inv /\ [Next]_vars => Inv'
<1> SUFFICES ASSUME Inv, [Next]_vars PROVE Inv'
  OBVIOUS
<1>1. TypeOK /\ RegistryHolds /\ ProvenPublished /\ WorkProven /\ WorkUnrivalled
  BY DEF Inv
<1>2. TypeOK'
  BY <1>1, NextType
<1>3. RegistryHolds' /\ \A o \in Operators : published[o] \subseteq published'[o]
  BY <1>1, RegistryStep
<1>4. ProvenPublished'
  <2>1. SUFFICES ASSUME NEW n \in Nodes, NEW t \in Transfers, NEW o \in Operators,
                        logStatus'[n][t][o] = "proven"
                 PROVE  t \in published'[o]
    BY DEF ProvenPublished, Proven
  <2>2. logStatus[n][t][o] = "proven" \/ t \in published[o]
    BY <1>1, <2>1, ProofStepEffect
  <2>3. t \in published[o]
    BY <1>1, <2>2 DEF ProvenPublished, Proven
  <2> QED
    BY <1>3, <2>3
<1>5. ASSUME NEW n \in Nodes, NEW t \in Transfers, InWork(n, t)'
      PROVE  Cardinality(Proven(n, t)) >= RequiredProofs
  <2>1. InWork(n, t) \/ LogProven(n, t)
    BY <1>1, <1>5, WorkStep
  <2> QED
    BY <1>1, <2>1 DEF WorkProven, LogProven
<1>6. WorkProven'
  <2>1. RequiredProofs' = RequiredProofs /\ RequiredProofs \in Nat
    BY RequiredPositive DEF RequiredProofs, Targets
  <2>2. ASSUME NEW n \in Nodes, NEW t \in Transfers, InWork(n, t)'
        PROVE  Cardinality(Proven(n, t)') >= RequiredProofs
    BY <1>1, <1>5, <2>1, <2>2, ProvenGrows
  <2> QED
    BY <2>1, <2>2 DEF WorkProven
<1>7. WorkUnrivalled'
  <2>1. SUFFICES ASSUME NEW n \in Nodes, NEW t \in Transfers, NEW u \in Transfers,
                        Siblings(t, u), InWork(n, t)', InWork(n, u)'
                 PROVE  FALSE
    BY DEF WorkUnrivalled, Siblings
  <2>2. Siblings(u, t)
    BY <2>1 DEF Siblings
  <2>3. ~LogProven(n, t) /\ ~LogProven(n, u)
    BY <1>1, <1>5, <2>1, <2>2, ProofsDiverge
  <2>4. InWork(n, t) /\ InWork(n, u)
    BY <1>1, <2>1, <2>3, WorkStep
  <2> QED
    BY <1>1, <2>1, <2>4 DEF WorkUnrivalled
<1> QED
  BY <1>2, <1>3, <1>4, <1>6, <1>7 DEF Inv

-----------------------------------------------------------------------------
(* Theorems *)

\* The strengthened invariant holds in every reachable state of the nodes, their
\* threads and the operators.
THEOREM SettlementInvariance == Spec => []Inv
  BY InitInv, NextInv, PTL DEF Spec

\* The tables of the store and the threads of store.py and node_client.py stay
\* well typed.
THEOREM SettlementTypeCorrect == Spec => []TypeOK
<1>1. Inv => TypeOK
  BY DEF Inv
<1> QED
  BY <1>1, SettlementInvariance, PTL

\* One node never settles two rivals, for any number of operators, finalizers and
\* required proofs: finalize_pending takes up no bill with a logged rival.
THEOREM OneBranchSettles == Spec => []OneBranchPerNode
<1>1. Inv => OneBranchPerNode
  BY DEF Inv, WorkUnrivalled, InWork, OneBranchPerNode
<1> QED
  BY <1>1, SettlementInvariance, PTL

\* A recorded operator proof is never lost: _record_v3_transfer_log_status_conn
\* does not replace it by a weaker status.
THEOREM ProofsAreKept == Spec => ProvenIsKept
<1>1. Inv /\ [Next]_vars =>
        [\A n \in Nodes : \A t \in Transfers : Proven(n, t) \subseteq Proven(n, t)']_vars
  BY ProvenGrows DEF Inv
<1> QED
  BY <1>1, SettlementInvariance, PTL DEF Spec, ProvenIsKept

\* What a write to one node's conflicts may do: proofs that a bill anchors stay.
KeepsAnchored(m, rest) ==
    /\ conflicts[m] \ Unanchored(m) \subseteq rest
    /\ conflicts' = [conflicts EXCEPT ![m] = rest]

\* Deleting on a look at the conflicts spares the anchored ones, whether or not
\* one of them is returned.
LEMMA PurgeSpares ==
    ASSUME NEW m, NEW rest, Purged(m, rest)
    PROVE  conflicts[m] \ Unanchored(m) \subseteq rest
  BY DEF Purged

\* Storing a proof takes none away.
LEMMA ProofAdds ==
    ASSUME NEW m, NEW p, NEW rest
    PROVE  rest \subseteq WithProof(m, p, rest)
  BY DEF WithProof

\* A rival that is ingested writes what the look left, and perhaps its proof.
LEMMA RivalKeeps ==
    ASSUME NEW m, NEW t, IngestRival(m, t)
    PROVE  \E rest : KeepsAnchored(m, rest)
<1>1. PICK rest \in SUBSET conflicts[m] :
          /\ Purged(m, rest)
          /\ \/ conflicts' = [conflicts EXCEPT ![m] = rest]
             \/ \E p : conflicts' = [conflicts EXCEPT ![m] = WithProof(m, p, rest)]
  BY DEF IngestRival
<1>2. conflicts[m] \ Unanchored(m) \subseteq rest
  BY <1>1, PurgeSpares
<1>3. CASE conflicts' = [conflicts EXCEPT ![m] = rest]
  BY <1>2, <1>3 DEF KeepsAnchored
<1>4. ASSUME NEW p, conflicts' = [conflicts EXCEPT ![m] = WithProof(m, p, rest)]
      PROVE  \E r : KeepsAnchored(m, r)
  <2>1. conflicts[m] \ Unanchored(m) \subseteq WithProof(m, p, rest)
    BY <1>2, ProofAdds
  <2> QED
    BY <1>4, <2>1 DEF KeepsAnchored
<1> QED
  BY <1>1, <1>3, <1>4

\* Any step leaves the conflicts alone or keeps a node's anchored ones.
LEMMA ConflictStep ==
    ASSUME [Next]_vars
    PROVE  UNCHANGED conflicts \/ \E m \in Nodes : \E rest : KeepsAnchored(m, rest)
<1>1. ASSUME NEW m \in Nodes, NEW rest, Purged(m, rest),
             conflicts' = [conflicts EXCEPT ![m] = rest]
      PROVE  \E r : KeepsAnchored(m, r)
  BY <1>1, PurgeSpares DEF KeepsAnchored
<1>2. ASSUME NEW m \in Nodes, NEW p,
             conflicts' = [conflicts EXCEPT ![m] = WithProof(m, p, conflicts[m])]
      PROVE  \E r : KeepsAnchored(m, r)
  <2>1. conflicts[m] \subseteq WithProof(m, p, conflicts[m])
    BY ProofAdds
  <2>2. conflicts[m] \ Unanchored(m) \subseteq WithProof(m, p, conflicts[m])
    BY <2>1
  <2> QED
    BY <1>2, <2>2 DEF KeepsAnchored
<1>3. ASSUME NEW m \in Nodes, NEW u \in Transfers, IngestStep(m, u)
      PROVE  UNCHANGED conflicts \/ \E r : KeepsAnchored(m, r)
  <2>1. CASE IngestConflicting(m, u)
    BY <2>1, RivalKeeps DEF IngestConflicting
  <2>2. CASE BeginIngest(m, u)
    BY <2>2, <1>1 DEF BeginIngest, store
  <2>3. CASE \E o \in Operators : SubmitTo(m, u, o)
    BY <2>3 DEF SubmitTo, store
  <2>4. CASE RecordReplies(m, u) \/ StoreBill(m, u) \/ CommitSend(m, u) \/ Discard(m, u)
    BY <2>4 DEF RecordReplies, StoreBill, CommitSend, Discard, store
  <2> QED
    BY <1>3, <2>1, <2>2, <2>3, <2>4 DEF IngestStep
<1>4. ASSUME NEW m \in Nodes, NEW f \in Finalizers, FinalizeStep(m, f)
      PROVE  UNCHANGED conflicts \/ \E r : KeepsAnchored(m, r)
  <2>1. CASE \E q \in Nodes : Answer(m, f, q)
    <3>1. \/ UNCHANGED conflicts
          \/ \E p : conflicts' = [conflicts EXCEPT ![m] = WithProof(m, p, conflicts[m])]
          \/ \E u : IngestRival(m, u)
      BY <2>1 DEF Answer
    <3> QED
      BY <3>1, <1>2, RivalKeeps
  <2>2. CASE Decide(m, f)
    BY <2>2, <1>1 DEF Decide
  <2>3. CASE (\E t \in Transfers : Candidate(m, f, t)) \/ (\E q \in Nodes : NoAnswer(m, f, q))
             \/ Settle(m, f)
    BY <2>3 DEF Candidate, NoAnswer, Settle, store
  <2> QED
    BY <1>4, <2>1, <2>2, <2>3 DEF FinalizeStep
<1>5. ASSUME NEW m \in Nodes, \E p \in Pairs : DeliverConflictProof(m, p)
      PROVE  \E r : KeepsAnchored(m, r)
  BY <1>5, <1>2 DEF DeliverConflictProof
<1>6. ASSUME NEW m \in Nodes, ReadStatus(m)
      PROVE  \E r : KeepsAnchored(m, r)
  BY <1>6, <1>1 DEF ReadStatus
<1>7. ASSUME \/ \E o \in Operators : OperatorStep(o)
             \/ \E m \in Nodes : Crash(m)
             \/ \E m \in Nodes : \E t \in Transfers : \E o \in Operators : ProofStep(m, t, o)
             \/ UNCHANGED vars
      PROVE  UNCHANGED conflicts
  BY <1>7 DEF OperatorStep, Publish, Forget, OperatorAppend, Crash, ProofStep, VerifyProof,
              ProofRefused, vars, store
<1> QED
  BY <1>3, <1>4, <1>5, <1>6, <1>7, Zenon DEF Next

\* EvidenceKept: no query, announcement, peer, settlement or cancelled send deletes
\* a conflict proof that a stored bill anchors (_latest_conflict_proof_v3_for_token
\* deletes the others on the way).
THEOREM EvidenceStays == Spec => EvidenceKept
<1>1. TypeOK /\ [Next]_vars =>
        [\A n \in Nodes : \A p \in conflicts[n] : Anchored(n, p) => p \in conflicts'[n]]_vars
  <2> SUFFICES ASSUME TypeOK, [Next]_vars,
                      NEW n \in Nodes, NEW p \in conflicts[n], Anchored(n, p)
               PROVE  p \in conflicts'[n]
    OBVIOUS
  <2>1. CASE UNCHANGED conflicts
    BY <2>1
  <2>2. ASSUME NEW m \in Nodes, NEW rest, KeepsAnchored(m, rest)
        PROVE  p \in conflicts'[n]
    <3>1. p \notin Unanchored(n)
      BY DEF Unanchored
    <3>2. n \in DOMAIN conflicts
      BY DEF TypeOK
    <3> QED
      BY <2>2, <3>1, <3>2 DEF KeepsAnchored
  <2> QED
    BY <2>1, <2>2, ConflictStep
<1> QED
  BY <1>1, SettlementTypeCorrect, PTL DEF Spec, EvidenceKept

\* A settled bill's claim is held by as many operators as it needed proofs, even
\* when they forgot what they had not published.
THEOREM SettledBillsAreClaimed == Spec => []SettledIsClaimed
<1>1. ASSUME Inv PROVE SettledIsClaimed
  <2>1. SUFFICES ASSUME NEW n \in Nodes, NEW t \in Transfers, status[n][t] = "settled"
                 PROVE  Cardinality({o \in Operators : t \in claims[o]}) >= RequiredProofs
    BY DEF SettledIsClaimed
  <2> DEFINE Holders == {o \in Operators : t \in claims[o]}
  <2>2. Cardinality(Proven(n, t)) >= RequiredProofs
    BY <1>1, <2>1 DEF Inv, WorkProven, InWork
  <2>3. Proven(n, t) \subseteq Holders
    BY <1>1 DEF Inv, ProvenPublished, RegistryHolds, Proven
  <2>4. IsFiniteSet(Holders)
    <3>1. Holders \subseteq Operators
      OBVIOUS
    <3> QED
      BY <3>1, FS_Subset, OperatorAssumption
  <2> HIDE DEF Holders
  <2>5. IsFiniteSet(Proven(n, t)) /\ Cardinality(Proven(n, t)) =< Cardinality(Holders)
    BY <2>3, <2>4, FS_Subset
  <2>6. Cardinality(Holders) \in Nat /\ Cardinality(Proven(n, t)) \in Nat
    BY <2>4, <2>5, FS_CardinalityType
  <2>7. Cardinality(Holders) >= RequiredProofs
    BY <2>2, <2>5, <2>6, RequiredPositive
  <2> QED
    BY <2>7 DEF Holders
<1> QED
  BY <1>1, SettlementInvariance, PTL

\* Two sets of operators that are each more than half of all share a member.
LEMMA MajoritiesMeet ==
    ASSUME NEW P, NEW Q, P \subseteq Operators, Q \subseteq Operators,
           2 * RequiredProofs > Cardinality(Operators),
           Cardinality(P) >= RequiredProofs, Cardinality(Q) >= RequiredProofs
    PROVE  P \cap Q # {}
<1>1. IsFiniteSet(P) /\ IsFiniteSet(Q) /\ IsFiniteSet(P \cup Q)
  BY FS_Subset, FS_Union, OperatorAssumption
<1>2. Cardinality(P \cup Q) = Cardinality(P) + Cardinality(Q) - Cardinality(P \cap Q)
  BY <1>1, FS_Union
<1>3. P \cup Q \subseteq Operators
  OBVIOUS
<1>4. Cardinality(P \cup Q) =< Cardinality(Operators)
  BY <1>3, FS_Subset, OperatorAssumption
<1>5. /\ Cardinality(P) \in Nat /\ Cardinality(Q) \in Nat
      /\ Cardinality(P \cup Q) \in Nat /\ Cardinality(Operators) \in Nat
  BY <1>1, FS_CardinalityType, OperatorAssumption
<1>6. P \cap Q = {} => Cardinality(P \cap Q) = 0
  BY FS_EmptySet
<1> QED
  BY <1>2, <1>4, <1>5, <1>6, RequiredPositive

\* The default of store.py is such a majority as long as the fan-out reaches every
\* operator.
LEMMA DefaultIsMajority ==
    ASSUME ConfiguredProofs = 0, Fanout >= Cardinality(Operators)
    PROVE  2 * RequiredProofs > Cardinality(Operators)
<1>1. Cardinality(Operators) \in Nat
  BY FS_CardinalityType, OperatorAssumption
<1>2. Targets = Cardinality(Operators)
  BY <1>1, OperatorAssumption DEF Targets
<1> QED
  BY <1>1, <1>2 DEF RequiredProofs

\* When the required proofs are a majority of all operators, rivals are not both
\* settled, whichever nodes settle and whatever the operators forget.
THEOREM NoRivalsSettle ==
    ASSUME 2 * RequiredProofs > Cardinality(Operators)
    PROVE  Spec => []RivalsNeverSettle
<1>1. ASSUME Inv PROVE RivalsNeverSettle
  <2>1. SUFFICES ASSUME NEW n \in Nodes, NEW m \in Nodes,
                        NEW t \in Transfers, NEW u \in Transfers, Siblings(t, u),
                        status[n][t] = "settled", status[m][u] = "settled"
                 PROVE  FALSE
    BY DEF RivalsNeverSettle
  <2>2. /\ Cardinality(Proven(n, t)) >= RequiredProofs
        /\ Cardinality(Proven(m, u)) >= RequiredProofs
    BY <1>1, <2>1 DEF Inv, WorkProven, InWork
  <2>3. Proven(n, t) \subseteq Operators /\ Proven(m, u) \subseteq Operators
    BY DEF Proven
  <2>4. PICK o \in Operators : o \in Proven(n, t) /\ o \in Proven(m, u)
    BY <2>2, <2>3, MajoritiesMeet
  <2>5. t \in claims[o] /\ u \in claims[o]
    BY <1>1, <2>4 DEF Inv, ProvenPublished, RegistryHolds
  <2> QED
    BY <1>1, <2>1, <2>5 DEF Inv, RegistryHolds
<1> QED
  BY <1>1, SettlementInvariance, PTL

\* With the default settings and a fan-out that reaches every operator, rivals are
\* not both settled.
COROLLARY NoRivalsSettleByDefault ==
    ASSUME ConfiguredProofs = 0, Fanout >= Cardinality(Operators)
    PROVE  Spec => []RivalsNeverSettle
  BY DefaultIsMajority, NoRivalsSettle

=============================================================================
