-------------------------- MODULE WalletSendProofs --------------------------
(***************************************************************************)
(* Proofs about WalletSend for any bills, transfers, signing workers and   *)
(* number of files: what leaves the transaction folder was handed over or  *)
(* cancelled, and cancelling does not meet a running sender.               *)
(***************************************************************************)
EXTENDS WalletSend, WellFoundedInduction, TLAPS

-----------------------------------------------------------------------------
(* File names *)

\* The files come in the order of their indices, so a folder that is not empty has a first one.
LEMMA LeastFacts ==
    ASSUME NEW S \in SUBSET Names, S # {}
    PROVE  Least(S) \in S
<1>1. S \subseteq Nat
    BY BoundAssumption DEF Names
<1>2. \E n \in S : \A m \in S : ~(<<m, n>> \in OpToRel(<, Nat))
    BY <1>1, NatLessThanWellFounded, WFMin
<1>3. PICK n \in S : \A m \in S : ~(m < n)
    BY <1>1, <1>2 DEF OpToRel
<1>4. \A m \in S : n <= m
    BY <1>1, <1>3
<1> QED BY <1>4 DEF Least

-----------------------------------------------------------------------------
(* The invariant *)

JobStates == [stage : {"idle", "read", "check", "store", "name", "write", "finish"},
              todo : Seq(Transfers), done : SUBSET Transfers, seen : [Bills -> {"owned", "sent"}],
              path : Names \cup {Nothing}, pending : BOOLEAN]

SenderStates == [stage : {"off", "start", "list", "pick", "ready", "remove", "count", "finish"},
                 todo : SUBSET Names, deferred : SUBSET Names, path : Names \cup {Nothing},
                 raw : Transfers \cup {Nothing}, cancelled : BOOLEAN, left : BOOLEAN]

RetryStates == [stage : {"off", "sleep", "send", "remove"}, raw : Transfers \cup {Nothing}, tries : 0..MaxTries]

UiStates == [stage : {"free", "discard", "unlink"}, todo : SUBSET Names, undone : SUBSET Transfers]

\* A worker in the middle of a batch has a bill at hand, and a name when it writes.
Signs(job) ==
    /\ job \in JobStates
    /\ job.stage \in {"check", "store", "name", "write"} => job.todo # <<>>
    /\ job.stage = "write" => job.path \in Names

\* The sender holds the file and the message it is about; it removes what it handed over.
Sends(s, handed) ==
    /\ s \in SenderStates
    /\ s.stage \in {"ready", "remove"} => s.path \in Names /\ s.raw \in Transfers
    /\ s.stage = "remove" => s.raw \in handed

\* A retry holds its message, has a try left while it sleeps and removes what it handed over.
Retries(r, handed) ==
    /\ r \in RetryStates
    /\ r.stage # "off" => r.raw \in Transfers
    /\ r.stage = "sleep" => r.tries < MaxTries
    /\ r.stage = "remove" => r.raw \in handed

\* The Tk thread is at a file while it unlinks.
Discards(u) == u \in UiStates /\ (u.stage = "unlink" => u.todo # {})

\* The tables.
Tables ==
    /\ files \in [Names -> Transfers \cup {Nothing}]
    /\ rows \in [Transfers -> {"none", "verified", "settled"}]
    /\ lines \in [Bills -> {"owned", "sent"}] /\ saved \in [Bills -> {"owned", "sent"}]
    /\ app \in {"up", "closing", "starting", "down"}
    /\ signed \subseteq Transfers /\ announced \subseteq Transfers /\ gone \subseteq Transfers
    /\ stops \in 0..MaxStops

Flags == cancel \in BOOLEAN /\ sending \in BOOLEAN

Workers ==
    /\ signer \in [Jobs -> JobStates] /\ \A j \in Jobs : Signs(signer[j])
    /\ Sends(sender, announced)
    /\ retry \in [Names -> RetryStates] /\ \A n \in Names : Retries(retry[n], announced)
    /\ Discards(ui)

\* wallet_send_running and the sender thread agree, and a process that is down does nothing.
Agreed ==
    /\ sending <=> sender.stage # "off"
    /\ app = "down" => sender.stage = "off" /\ ui.stage = "free"
    /\ CancelOwnsTheQueue

Inv == Tables /\ Flags /\ Workers /\ Agreed

LEMMA InvTypes == Inv => TypeOK
BY DEF Inv, Tables, Flags, Workers, Sends, Discards, TypeOK, JobStates, SenderStates, RetryStates, UiStates

\* What threads that are not running look like.
LEMMA OffFacts ==
    /\ Signs(NoJob) /\ NoJob \in JobStates
    /\ \A S : Sends(NoSend, S) /\ NoSend.stage = "off"
    /\ \A S : Sends([NoSend EXCEPT !.stage = "start"], S) /\ [NoSend EXCEPT !.stage = "start"].stage = "start"
    /\ \A S : Retries(NoRetry, S) /\ NoRetry \in RetryStates
    /\ Discards(Free) /\ Free.stage = "free"
<1>1. Signs(NoJob) /\ NoJob \in JobStates
    BY DEF NoJob, Signs, JobStates
<1>2. \A S : Sends(NoSend, S) /\ NoSend.stage = "off"
    BY DEF NoSend, Sends, SenderStates
<1>3. \A S : Sends([NoSend EXCEPT !.stage = "start"], S) /\ [NoSend EXCEPT !.stage = "start"].stage = "start"
    BY DEF NoSend, Sends, SenderStates
<1>4. \A S : Retries(NoRetry, S) /\ NoRetry \in RetryStates
    <2>1. 0 \in 0..MaxTries /\ 0 < MaxTries
        BY TriesAssumption
    <2> QED BY <2>1 DEF NoRetry, Retries, RetryStates
<1>5. Discards(Free) /\ Free.stage = "free"
    BY DEF Free, Discards, UiStates
<1> QED BY <1>1, <1>2, <1>3, <1>4, <1>5

\* The list of a cancellation.
LEMMA BeginFacts ==
    ASSUME BeginCancel
    PROVE  Discards(ui') /\ ui'.stage = "discard"
BY DEF BeginCancel, Free, Discards, UiStates, Used

LEMMA InitInv == Init => Inv
<1> SUFFICES ASSUME Init PROVE Inv
    OBVIOUS
<1>1. Tables
    BY BoundAssumption DEF Init, Tables
<1>2. Workers
    BY OffFacts DEF Init, Workers
<1>3. Agreed
    BY OffFacts DEF Init, Agreed, CancelOwnsTheQueue
<1>4. Flags
    BY DEF Init, Flags
<1> QED BY <1>1, <1>2, <1>3, <1>4 DEF Inv

-----------------------------------------------------------------------------
(* Steps *)

\* What was handed over stays handed over.
LEMMA Grow ==
    ASSUME NEW A, NEW B, A \subseteq B
    PROVE  /\ \A s : Sends(s, A) => Sends(s, B)
           /\ \A r : Retries(r, A) => Retries(r, B)
BY DEF Sends, Retries

\* At most one thread moves.
LEMMA WorkersMove ==
    ASSUME Workers, announced \subseteq announced',
           \/ signer' = signer
           \/ \E j \in Jobs : \E new : Signs(new) /\ signer' = [signer EXCEPT ![j] = new],
           sender' = sender \/ Sends(sender', announced'),
           \/ retry' = retry
           \/ \E n \in Names : \E new : Retries(new, announced') /\ retry' = [retry EXCEPT ![n] = new],
           ui' = ui \/ Discards(ui')
    PROVE  Workers'
<1>1. signer' \in [Jobs -> JobStates] /\ \A j \in Jobs : Signs(signer'[j])
    <2>1. CASE signer' = signer
        BY <2>1 DEF Workers
    <2>2. ASSUME NEW j \in Jobs, NEW new, Signs(new), signer' = [signer EXCEPT ![j] = new]
          PROVE  signer' \in [Jobs -> JobStates] /\ \A i \in Jobs : Signs(signer'[i])
        <3>1. signer \in [Jobs -> JobStates] /\ new \in JobStates
            BY <2>2 DEF Workers, Signs
        <3>2. signer' \in [Jobs -> JobStates] /\ \A i \in Jobs : signer'[i] = IF i = j THEN new ELSE signer[i]
            BY <2>2, <3>1
        <3> QED BY <2>2, <3>2 DEF Workers
    <2> QED BY <2>1, <2>2
<1>2. Sends(sender', announced')
    BY Grow DEF Workers
<1>3. retry' \in [Names -> RetryStates] /\ \A n \in Names : Retries(retry'[n], announced')
    <2>1. CASE retry' = retry
        BY <2>1, Grow DEF Workers
    <2>2. ASSUME NEW n \in Names, NEW new, Retries(new, announced'), retry' = [retry EXCEPT ![n] = new]
          PROVE  retry' \in [Names -> RetryStates] /\ \A i \in Names : Retries(retry'[i], announced')
        <3>1. retry \in [Names -> RetryStates] /\ new \in RetryStates
            BY <2>2 DEF Workers, Retries
        <3>2. retry' \in [Names -> RetryStates] /\ \A i \in Names : retry'[i] = IF i = n THEN new ELSE retry[i]
            BY <2>2, <3>1
        <3> QED BY <2>2, <3>2, Grow DEF Workers
    <2> QED BY <2>1, <2>2
<1>4. Discards(ui')
    BY DEF Workers
<1> QED BY <1>1, <1>2, <1>3, <1>4 DEF Workers

\* The sender neither starts nor ends, and the Tk thread does not get busy.
LEMMA AgreedKept ==
    ASSUME Agreed, UNCHANGED <<sending, app>>, sender'.stage = "off" <=> sender.stage = "off",
           ui'.stage # "free" => ui.stage # "free"
    PROVE  Agreed'
BY DEF Agreed, CancelOwnsTheQueue

\* A signing worker goes to the next bill of its batch or on to the lines.
LEMMA NextFacts ==
    ASSUME Inv, NEW j \in Jobs, NEW job \in JobStates, NextInBatch(j, job)
    PROVE  /\ \E new : Signs(new) /\ signer' = [signer EXCEPT ![j] = new]
           /\ lines' \in [Bills -> {"owned", "sent"}]
<1>1. CASE job.todo # <<>>
    <2>1. Signs([job EXCEPT !.stage = "check", !.path = Nothing])
        BY <1>1 DEF Signs, JobStates
    <2>2. lines' \in [Bills -> {"owned", "sent"}]
        BY <1>1 DEF NextInBatch, Inv, Tables
    <2> QED BY <1>1, <2>1, <2>2 DEF NextInBatch
<1>2. CASE job.todo = <<>>
    <2>1. Signs([job EXCEPT !.stage = "finish", !.path = Nothing])
        BY DEF Signs, JobStates
    <2>2. job.seen \in [Bills -> {"owned", "sent"}]
        BY DEF JobStates
    <2>3. lines' \in [Bills -> {"owned", "sent"}]
        BY <1>2, <2>2 DEF NextInBatch, Inv, Tables
    <2> QED BY <1>2, <2>1, <2>3 DEF NextInBatch
<1> QED BY <1>1, <1>2

LEMMA ClickSendInv ==
    ASSUME Inv, NEW j \in Jobs, ClickSend(j)
    PROVE  Inv'
<1>1. Signs([NoJob EXCEPT !.stage = "read", !.pending = Used # {}])
    <2>1. \A p \in BOOLEAN : Signs([NoJob EXCEPT !.stage = "read", !.pending = p])
        BY OffFacts DEF Signs, JobStates
    <2>2. (Used # {}) \in BOOLEAN
        OBVIOUS
    <2> QED BY ONLY <2>1, <2>2
<1>2. Workers'
    BY <1>1, WorkersMove DEF ClickSend, history, Inv
<1>3. Tables'
    BY DEF ClickSend, disk, history, Inv, Tables
<1>4. Flags' /\ Agreed'
    BY AgreedKept DEF ClickSend, Inv, Flags
<1> QED BY <1>2, <1>3, <1>4 DEF Inv

\* Bills are signed, or the request cannot be met.
LEMMA ReadAndSignInv ==
    ASSUME Inv, NEW j \in Jobs, ReadAndSign(j)
    PROVE  Inv'
<1>1. signer[j] \in JobStates /\ signer \in [Jobs -> JobStates] /\ lines \in [Bills -> {"owned", "sent"}]
    BY DEF Inv, Workers, Tables
<1>2. signed' \subseteq Transfers /\ \E new : Signs(new) /\ signer' = [signer EXCEPT ![j] = new]
    <2>1. ASSUME NEW batch \in UNION {[1..k -> Transfers \ signed] : k \in 1..Cardinality(Bills)},
                 signed' = signed \cup {batch[i] : i \in DOMAIN batch},
                 signer' = [signer EXCEPT ![j] = [@ EXCEPT !.stage = "check", !.todo = batch, !.seen = lines]]
          PROVE  signed' \subseteq Transfers /\ \E new : Signs(new) /\ signer' = [signer EXCEPT ![j] = new]
        <3> PICK k \in 1..Cardinality(Bills) : batch \in [1..k -> Transfers \ signed]
            OBVIOUS
        <3>1. k \in Nat /\ 1 \in 1..k /\ batch \in [1..k -> Transfers]
            OBVIOUS
        <3>2. batch \in Seq(Transfers) /\ batch # <<>>
            BY <3>1
        <3>3. Signs([signer[j] EXCEPT !.stage = "check", !.todo = batch, !.seen = lines])
            BY <1>1, <3>2 DEF Signs, JobStates
        <3>4. signed' \subseteq Transfers
            BY <2>1 DEF Inv, Tables
        <3> QED BY <1>1, <2>1, <3>3, <3>4
    <2>2. CASE signer' = [signer EXCEPT ![j].stage = "finish"] /\ signed' = signed
        <3>1. Signs([signer[j] EXCEPT !.stage = "finish"])
            BY <1>1 DEF Signs, JobStates
        <3>2. signer' = [signer EXCEPT ![j] = [signer[j] EXCEPT !.stage = "finish"]]
            BY <1>1, <2>2
        <3>3. signed' \subseteq Transfers
            BY <2>2 DEF Inv, Tables
        <3> QED BY <3>1, <3>2, <3>3
    <2> QED BY <2>1, <2>2 DEF ReadAndSign
<1>3. Workers'
    BY <1>2, WorkersMove DEF ReadAndSign, Inv
<1>4. Tables'
    BY <1>2 DEF ReadAndSign, disk, Inv, Tables
<1>5. Flags' /\ Agreed'
    BY AgreedKept DEF ReadAndSign, Inv, Flags
<1> QED BY <1>3, <1>4, <1>5 DEF Inv

\* The worker has a bill at hand.
LEMMA JobFacts ==
    ASSUME Inv, NEW j \in Jobs, signer[j].stage \in {"check", "store", "name", "write"}
    PROVE  /\ signer \in [Jobs -> JobStates] /\ signer[j] \in JobStates /\ signer[j].todo # <<>>
           /\ Head(signer[j].todo) \in Transfers /\ Tail(signer[j].todo) \in Seq(Transfers)
<1>1. signer \in [Jobs -> JobStates] /\ signer[j] \in JobStates /\ signer[j].todo # <<>>
    BY DEF Inv, Workers, Signs
<1>2. signer[j].todo \in Seq(Transfers)
    BY <1>1 DEF JobStates
<1> QED BY <1>1, <1>2

LEMMA CheckTipInv ==
    ASSUME Inv, NEW j \in Jobs, CheckTip(j)
    PROVE  Inv'
<1> DEFINE t == Head(signer[j].todo)
<1>1. /\ signer \in [Jobs -> JobStates] /\ signer[j] \in JobStates /\ signer[j].todo # <<>>
      /\ t \in Transfers /\ Tail(signer[j].todo) \in Seq(Transfers)
    BY JobFacts DEF CheckTip
<1>2. /\ \E new : Signs(new) /\ signer' = [signer EXCEPT ![j] = new]
      /\ lines' \in [Bills -> {"owned", "sent"}] /\ gone' \subseteq Transfers
    <2>1. CASE Spendable(BillOf[t])
        <3>1. Signs([signer[j] EXCEPT !.stage = "store"])
            BY <1>1 DEF Signs, JobStates
        <3> QED BY <1>1, <2>1, <3>1 DEF CheckTip, Inv, Tables
    <2>2. CASE ~Spendable(BillOf[t])
        <3>1. [signer[j] EXCEPT !.todo = Tail(@)] \in JobStates
            BY <1>1 DEF JobStates
        <3>2. NextInBatch(j, [signer[j] EXCEPT !.todo = Tail(@)]) /\ gone' = gone \cup {t}
            BY <2>2 DEF CheckTip
        <3> QED BY <1>1, <3>1, <3>2, NextFacts DEF Inv, Tables
    <2> QED BY <2>1, <2>2
<1>3. Workers'
    BY <1>2, WorkersMove DEF CheckTip, Inv
<1>4. Tables'
    BY <1>2 DEF CheckTip, disk, Inv, Tables
<1>5. Flags' /\ Agreed'
    BY AgreedKept DEF CheckTip, Inv, Flags
<1> QED BY <1>3, <1>4, <1>5 DEF Inv

LEMMA StoreRowInv ==
    ASSUME Inv, NEW j \in Jobs, StoreRow(j)
    PROVE  Inv'
<1>1. /\ signer \in [Jobs -> JobStates] /\ signer[j] \in JobStates /\ signer[j].todo # <<>>
      /\ Head(signer[j].todo) \in Transfers
    BY JobFacts DEF StoreRow
<1>2. Signs([signer[j] EXCEPT !.stage = "name"]) /\ signer' = [signer EXCEPT ![j] = [signer[j] EXCEPT !.stage = "name"]]
    BY <1>1 DEF StoreRow, Signs, JobStates
<1>3. Workers'
    BY <1>2, WorkersMove DEF StoreRow, history, Inv
<1>4. Tables'
    BY <1>1 DEF StoreRow, history, Inv, Tables
<1>5. Flags' /\ Agreed'
    BY AgreedKept DEF StoreRow, Inv, Flags
<1> QED BY <1>3, <1>4, <1>5 DEF Inv

LEMMA ChoosePathInv ==
    ASSUME Inv, NEW j \in Jobs, ChoosePath(j)
    PROVE  Inv'
<1>1. signer \in [Jobs -> JobStates] /\ signer[j] \in JobStates /\ signer[j].todo # <<>>
    BY JobFacts DEF ChoosePath
<1>2. \E new : Signs(new) /\ signer' = [signer EXCEPT ![j] = new]
    <2>1. PICK next \in Names : signer' = [signer EXCEPT ![j] = [@ EXCEPT !.stage = "write", !.path = next]]
        BY DEF ChoosePath
    <2>2. Signs([signer[j] EXCEPT !.stage = "write", !.path = next])
        BY <1>1 DEF Signs, JobStates
    <2> QED BY <1>1, <2>1, <2>2
<1>3. Workers'
    BY <1>2, WorkersMove DEF ChoosePath, history, Inv
<1>4. Tables'
    BY DEF ChoosePath, disk, history, Inv, Tables
<1>5. Flags' /\ Agreed'
    BY AgreedKept DEF ChoosePath, Inv, Flags
<1> QED BY <1>3, <1>4, <1>5 DEF Inv

LEMMA WriteFileInv ==
    ASSUME Inv, NEW j \in Jobs, WriteFile(j)
    PROVE  Inv'
<1> DEFINE t == Head(signer[j].todo)
           job == [signer[j] EXCEPT !.todo = Tail(@), !.done = @ \cup {t}]
<1>1. /\ signer[j] \in JobStates /\ t \in Transfers /\ Tail(signer[j].todo) \in Seq(Transfers)
    BY JobFacts DEF WriteFile
<1>2. job \in JobStates
    BY <1>1 DEF JobStates
<1>3. NextInBatch(j, job)
    BY DEF WriteFile
<1> HIDE DEF job
<1>4. /\ \E new : Signs(new) /\ signer' = [signer EXCEPT ![j] = new]
      /\ lines' \in [Bills -> {"owned", "sent"}]
    BY <1>2, <1>3, NextFacts
<1>5. files' \in [Names -> Transfers \cup {Nothing}]
    BY <1>1 DEF WriteFile, Inv, Tables
<1>6. Workers'
    BY <1>4, WorkersMove DEF WriteFile, history, Inv
<1>7. Tables'
    BY <1>4, <1>5 DEF WriteFile, history, Inv, Tables
<1>8. Flags' /\ Agreed'
    BY AgreedKept DEF WriteFile, Inv, Flags
<1> QED BY <1>6, <1>7, <1>8 DEF Inv

\* The Tk thread takes the result and starts the sender.
LEMMA SignFinishInv ==
    ASSUME Inv, NEW j \in Jobs, SignFinish(j)
    PROVE  Inv'
<1>1. \/ sender' = sender /\ sending' = sending
      \/ sender' = [NoSend EXCEPT !.stage = "start"] /\ sending' = TRUE
    <2>1. CASE signer[j].done # {} \/ (j = SendJob /\ signer[j].pending)
        <3>1. StartSender
            BY <2>1 DEF SignFinish
        <3>2. CASE sending
            BY <3>1, <3>2 DEF StartSender
        <3>3. CASE ~sending
            BY <3>1, <3>3 DEF StartSender
        <3> QED BY <3>2, <3>3
    <2>2. CASE ~(signer[j].done # {} \/ (j = SendJob /\ signer[j].pending))
        BY Zenon, <2>2 DEF SignFinish
    <2> QED BY <2>1, <2>2
<1>2. Workers'
    <2>1. sender' = sender \/ Sends(sender', announced')
        BY <1>1, OffFacts
    <2> QED BY <2>1, WorkersMove, OffFacts DEF SignFinish, history, Inv
<1>3. Tables'
    BY DEF SignFinish, disk, history, Inv, Tables
<1>4. Flags'
    BY <1>1 DEF SignFinish, Inv, Flags
<1>5. Agreed'
    <2>1. CASE sender' = sender /\ sending' = sending
        BY <2>1, AgreedKept DEF SignFinish, Inv
    <2>2. CASE sender' = [NoSend EXCEPT !.stage = "start"] /\ sending' = TRUE
        <3>1. sender'.stage = "start" /\ app' = "up" /\ ui'.stage = "free"
            BY <2>2, OffFacts DEF SignFinish, UiFree
        <3> QED BY <2>2, <3>1 DEF Agreed, CancelOwnsTheQueue
    <2> QED BY <1>1, <2>1, <2>2
<1> QED BY <1>2, <1>3, <1>4, <1>5 DEF Inv

\* The sender holds a file and the message it read in it.
LEMMA SenderFacts ==
    ASSUME Inv
    PROVE  /\ sender \in SenderStates /\ Sends(sender, announced)
           /\ sender.stage \in {"ready", "remove"} => sender.path \in Names /\ sender.raw \in Transfers
BY DEF Inv, Workers, Sends

\* The sender goes from one stage to another.
LEMMA SenderMoves ==
    ASSUME Inv, sender.stage # "off", Sends(sender', announced'), sender'.stage # "off",
           announced \subseteq announced', announced' \subseteq Transfers,
           \/ retry' = retry
           \/ \E n \in Names : \E new : Retries(new, announced') /\ retry' = [retry EXCEPT ![n] = new],
           files' \in [Names -> Transfers \cup {Nothing}], cancel' \in BOOLEAN,
           UNCHANGED <<rows, saved, lines, signer, sending, ui, app, signed, gone, stops>>
    PROVE  Inv'
<1>1. Workers'
    BY WorkersMove DEF Inv
<1>2. Tables'
    BY DEF Inv, Tables
<1>3. Flags'
    BY DEF Inv, Flags
<1>4. Agreed'
    BY AgreedKept DEF Inv
<1> QED BY <1>1, <1>2, <1>3, <1>4 DEF Inv

LEMMA StopFacts ==
    ASSUME Inv, Stop
    PROVE  \A S : Sends(sender', S) /\ sender'.stage # "off"
<1>1. sender \in SenderStates /\ cancel \in BOOLEAN
    BY SenderFacts DEF Inv, Flags
<1> QED BY <1>1 DEF Stop, Sends, SenderStates

LEMMA SenderStepInv ==
    ASSUME Inv, SenderStep
    PROVE  Inv'
<1>1. /\ sender \in SenderStates /\ files \in [Names -> Transfers \cup {Nothing}] /\ cancel \in BOOLEAN
      /\ announced \subseteq Transfers
    BY SenderFacts DEF Inv, Tables, Flags
<1>2. CASE SenderBegin
    <2>1. Sends(sender', announced') /\ sender'.stage # "off"
        <3>1. CASE sender' = [sender EXCEPT !.stage = "list"]
            BY <1>1, <3>1 DEF Sends, SenderStates
        <3>2. CASE sender' = [sender EXCEPT !.stage = "finish", !.left = Used # {}]
            <4>1. \A p \in BOOLEAN : /\ [sender EXCEPT !.stage = "finish", !.left = p] \in SenderStates
                                     /\ [sender EXCEPT !.stage = "finish", !.left = p].stage = "finish"
                BY <1>1 DEF SenderStates
            <4>2. (Used # {}) \in BOOLEAN
                OBVIOUS
            <4>3. sender' \in SenderStates /\ sender'.stage = "finish"
                BY ONLY <3>2, <4>1, <4>2
            <4> QED BY <4>3 DEF Sends
        <3> QED BY <1>2, <3>1, <3>2 DEF SenderBegin
    <2>2. UNCHANGED <<files, rows, saved, lines, signer, retry, sending, ui, app, signed, announced, gone, stops>>
          /\ cancel' = FALSE /\ sender.stage = "start"
        BY <1>2 DEF SenderBegin, disk, history
    <2> QED BY <1>1, <2>1, <2>2, SenderMoves
<1>3. CASE SenderList
    <2>1. Sends(sender', announced') /\ sender'.stage # "off"
        <3>1. CASE Stop
            BY <3>1, StopFacts
        <3>2. CASE sender' = [sender EXCEPT !.stage = "pick", !.todo = Used \ sender.deferred]
            <4>1. Used \ sender.deferred \subseteq Names
                BY DEF Used
            <4> QED BY <1>1, <3>2, <4>1 DEF Sends, SenderStates
        <3> QED BY <1>3, <3>1, <3>2 DEF SenderList
    <2>2. UNCHANGED <<files, rows, saved, lines, signer, retry, cancel, sending, ui, app, signed, announced, gone, stops>>
          /\ sender.stage = "list"
        BY <1>3 DEF SenderList, disk, history
    <2> QED BY <1>1, <2>1, <2>2, SenderMoves
<1>4. CASE SenderPick
    <2> DEFINE p == Least(sender.todo)
    <2>1. sender.todo # {} => p \in Names
        BY <1>1, LeastFacts DEF SenderStates
    <2>2. sender.todo \subseteq Names
        BY <1>1 DEF SenderStates
    <2> HIDE DEF p
    <2>3. Sends(sender', announced') /\ sender'.stage # "off"
        <3>1. CASE Stop
            BY <3>1, StopFacts
        <3>2. CASE sender' = [sender EXCEPT !.stage = "list"]
            BY <1>1, <3>2 DEF Sends, SenderStates
        <3>3. CASE sender' = [sender EXCEPT !.todo = @ \ {p}]
            BY <1>1, <1>4, <2>2, <3>3 DEF SenderPick, Sends, SenderStates
        <3>4. CASE sender.todo # {} /\ files[p] # Nothing
                   /\ sender' = [sender EXCEPT !.stage = "ready", !.path = p, !.raw = files[p]]
            <4>1. p \in Names /\ files[p] \in Transfers
                BY <1>1, <2>1, <3>4
            <4> QED BY <1>1, <3>4, <4>1 DEF Sends, SenderStates
        <3> QED BY <1>4, <3>1, <3>2, <3>3, <3>4 DEF SenderPick, p
    <2>4. UNCHANGED <<files, rows, saved, lines, signer, retry, cancel, sending, ui, app, signed, announced, gone, stops>>
          /\ sender.stage = "pick"
        BY <1>4 DEF SenderPick, disk, history
    <2> QED BY <1>1, <2>3, <2>4, SenderMoves
<1>5. CASE SenderDispatch
    <2> DEFINE p == sender.path
    <2>1. p \in Names /\ sender.raw \in Transfers /\ sender.todo \subseteq Names /\ sender.deferred \subseteq Names
        BY <1>1, <1>5, SenderFacts DEF SenderDispatch, SenderStates
    <2>2. UNCHANGED <<files, rows, saved, lines, signer, cancel, sending, ui, app, signed, gone, stops>>
          /\ sender.stage = "ready"
        BY <1>5 DEF SenderDispatch, disk
    <2>3. CASE Stop /\ UNCHANGED <<announced, retry>>
        BY <1>1, <2>2, <2>3, StopFacts, SenderMoves
    <2>4. CASE Dispatched(sender.raw) /\ sender' = [sender EXCEPT !.stage = "remove"] /\ UNCHANGED retry
        <3>1. sender.raw \in announced' /\ announced \subseteq announced' /\ announced' \subseteq Transfers
            BY <1>1, <2>1, <2>4 DEF Dispatched
        <3>2. Sends(sender', announced') /\ sender'.stage # "off"
            BY <1>1, <2>1, <2>4, <3>1 DEF Sends, SenderStates
        <3> QED BY <1>1, <2>2, <2>4, <3>1, <3>2, SenderMoves
    <2>5. CASE /\ retry' = IF retry[p].stage = "off"
                           THEN [retry EXCEPT ![p] = [NoRetry EXCEPT !.stage = "sleep", !.raw = sender.raw]]
                           ELSE retry
               /\ sender' = [sender EXCEPT !.stage = "pick", !.todo = @ \ {p}, !.deferred = @ \cup {p},
                                           !.path = Nothing, !.raw = Nothing]
               /\ UNCHANGED announced
        <3>1. Sends(sender', announced') /\ sender'.stage # "off"
            BY <1>1, <2>1, <2>5 DEF Sends, SenderStates
        <3>2. Retries([NoRetry EXCEPT !.stage = "sleep", !.raw = sender.raw], announced')
            <4>1. 0 \in 0..MaxTries /\ 0 < MaxTries
                BY TriesAssumption
            <4> QED BY <2>1, <4>1 DEF Retries, RetryStates, NoRetry
        <3>3. \/ retry' = retry
              \/ \E n \in Names : \E new : Retries(new, announced') /\ retry' = [retry EXCEPT ![n] = new]
            BY <2>1, <2>5, <3>2
        <3> QED BY <1>1, <2>2, <2>5, <3>1, <3>3, SenderMoves
    <2> QED BY <1>5, <2>3, <2>4, <2>5 DEF SenderDispatch
<1>6. CASE SenderRemove
    <2> DEFINE p == sender.path
    <2>1. p \in Names /\ sender.todo \subseteq Names
        BY <1>1, <1>6, SenderFacts DEF SenderRemove, SenderStates
    <2>2. UNCHANGED <<rows, saved, lines, signer, retry, cancel, sending, ui, app, signed, announced, gone, stops>>
          /\ sender.stage = "remove" /\ files' = [files EXCEPT ![p] = Nothing]
          /\ sender' = [sender EXCEPT !.stage = "pick", !.todo = @ \ {p}, !.path = Nothing, !.raw = Nothing]
        BY <1>6 DEF SenderRemove, history
    <2>3. Sends(sender', announced') /\ sender'.stage # "off"
        BY <1>1, <2>1, <2>2 DEF Sends, SenderStates
    <2>4. files' \in [Names -> Transfers \cup {Nothing}]
        BY <1>1, <2>2
    <2> QED BY <1>1, <2>2, <2>3, <2>4, SenderMoves
<1>7. CASE SenderCount
    <2>1. \A p \in BOOLEAN : /\ [sender EXCEPT !.stage = "finish", !.left = p] \in SenderStates
                             /\ [sender EXCEPT !.stage = "finish", !.left = p].stage = "finish"
        BY <1>1 DEF SenderStates
    <2>2. (Used # {}) \in BOOLEAN
        OBVIOUS
    <2>3. sender' = [sender EXCEPT !.stage = "finish", !.left = Used # {}]
        BY <1>7 DEF SenderCount
    <2>4. sender' \in SenderStates /\ sender'.stage = "finish"
        BY ONLY <2>1, <2>2, <2>3
    <2>5. Sends(sender', announced') /\ sender'.stage # "off"
        BY <2>4 DEF Sends
    <2>6. UNCHANGED <<files, rows, saved, lines, signer, retry, cancel, sending, ui, app, signed, announced, gone, stops>>
          /\ sender.stage = "count"
        BY <1>7 DEF SenderCount, disk, history
    <2> QED BY <1>1, <2>5, <2>6, SenderMoves
<1> QED BY <1>2, <1>3, <1>4, <1>5, <1>6, <1>7 DEF SenderStep

\* A retry thread goes from one stage to another.
LEMMA RetryMoves ==
    ASSUME Inv, NEW n \in Names, NEW new, Retries(new, announced'), retry' = [retry EXCEPT ![n] = new],
           announced \subseteq announced', announced' \subseteq Transfers,
           files' \in [Names -> Transfers \cup {Nothing}],
           UNCHANGED <<rows, saved, lines, signer, sender, cancel, sending, ui, app, signed, gone, stops>>
    PROVE  Inv'
<1>1. Workers'
    BY WorkersMove DEF Inv
<1>2. Tables'
    BY DEF Inv, Tables
<1>3. Flags'
    BY DEF Inv, Flags
<1>4. Agreed'
    BY AgreedKept DEF Inv
<1> QED BY <1>1, <1>2, <1>3, <1>4 DEF Inv

LEMMA RetryStepInv ==
    ASSUME Inv, NEW n \in Names, RetryStep(n)
    PROVE  Inv'
<1>1. /\ retry \in [Names -> RetryStates] /\ retry[n] \in RetryStates /\ Retries(retry[n], announced)
      /\ files \in [Names -> Transfers \cup {Nothing}] /\ announced \subseteq Transfers
    BY DEF Inv, Workers, Tables
<1>2. \A S : Retries(NoRetry, S)
    BY OffFacts
<1>3. CASE RetryWake(n)
    <2>1. UNCHANGED <<files, rows, saved, lines, signer, sender, cancel, sending, ui, app, signed, announced, gone, stops>>
          /\ retry[n].stage = "sleep"
        BY <1>3 DEF RetryWake, disk, history
    <2>2. CASE files[n] = Nothing
        BY <1>1, <1>2, <1>3, <2>1, <2>2, RetryMoves DEF RetryWake
    <2>3. CASE files[n] # Nothing
        <3> DEFINE new == [retry[n] EXCEPT !.stage = "send", !.tries = @ + 1]
        <3>1. retry[n].tries + 1 \in 0..MaxTries
            BY <1>1, <2>1, TriesAssumption DEF Retries, RetryStates
        <3>2. Retries(new, announced')
            BY <1>1, <2>1, <3>1 DEF Retries, RetryStates
        <3>3. retry' = [retry EXCEPT ![n] = new]
            BY <1>3, <2>3 DEF RetryWake
        <3> HIDE DEF new
        <3> QED BY <1>1, <2>1, <3>2, <3>3, RetryMoves
    <2> QED BY <2>2, <2>3
<1>4. CASE RetryDispatch(n)
    <2>1. UNCHANGED <<files, rows, saved, lines, signer, sender, cancel, sending, ui, app, signed, gone, stops>>
          /\ retry[n].stage = "send" /\ retry[n].raw \in Transfers
        BY <1>1, <1>4 DEF RetryDispatch, disk, Retries
    <2>2. CASE Dispatched(retry[n].raw) /\ retry' = [retry EXCEPT ![n].stage = "remove"]
        <3> DEFINE new == [retry[n] EXCEPT !.stage = "remove"]
        <3>1. retry[n].raw \in announced' /\ announced \subseteq announced' /\ announced' \subseteq Transfers
            BY <1>1, <2>1, <2>2 DEF Dispatched
        <3>2. Retries(new, announced')
            BY <1>1, <2>1, <3>1 DEF Retries, RetryStates
        <3>3. retry' = [retry EXCEPT ![n] = new]
            BY <1>1, <2>2
        <3> HIDE DEF new
        <3> QED BY <1>1, <2>1, <3>1, <3>2, <3>3, RetryMoves
    <2>3. CASE retry[n].tries >= MaxTries /\ retry' = [retry EXCEPT ![n] = NoRetry] /\ announced' = announced
        BY <1>1, <1>2, <2>1, <2>3, RetryMoves
    <2>4. CASE ~(retry[n].tries >= MaxTries) /\ retry' = [retry EXCEPT ![n].stage = "sleep"] /\ announced' = announced
        <3> DEFINE new == [retry[n] EXCEPT !.stage = "sleep"]
        <3>1. retry[n].tries < MaxTries
            BY <1>1, <2>4, TriesAssumption DEF RetryStates
        <3>2. Retries(new, announced')
            BY <1>1, <2>1, <3>1 DEF Retries, RetryStates
        <3>3. retry' = [retry EXCEPT ![n] = new]
            BY <1>1, <2>4
        <3> HIDE DEF new
        <3> QED BY <1>1, <2>1, <2>4, <3>2, <3>3, RetryMoves
    <2> QED BY <1>4, <2>2, <2>3, <2>4 DEF RetryDispatch
<1>5. CASE RetryRemove(n)
    <2>1. UNCHANGED <<rows, saved, lines, signer, sender, cancel, sending, ui, app, signed, announced, gone, stops>>
          /\ retry' = [retry EXCEPT ![n] = NoRetry]
          /\ files' \in [Names -> Transfers \cup {Nothing}]
        BY <1>1, <1>5 DEF RetryRemove, history
    <2> QED BY <1>1, <1>2, <2>1, RetryMoves
<1> QED BY <1>3, <1>4, <1>5 DEF RetryStep

LEMMA SendFinishInv ==
    ASSUME Inv, SendFinish
    PROVE  Inv'
<1>1. app' = "up" /\ UNCHANGED <<files, rows, saved, lines, signer, retry, cancel, signed, announced, gone, stops>>
      /\ ui.stage = "free"
    BY DEF SendFinish, UiFree, disk, history
<1>2. \/ sending' = FALSE /\ sender' = NoSend /\ (BeginCancel \/ ui' = ui)
      \/ sending' = TRUE /\ sender' = [NoSend EXCEPT !.stage = "start"] /\ ui' = ui
    BY DEF SendFinish
<1>3. Sends(sender', announced')
    BY <1>2, OffFacts
<1>4. ui' = ui \/ Discards(ui')
    BY <1>2, BeginFacts
<1>5. Workers'
    BY <1>1, <1>3, <1>4, WorkersMove DEF Inv
<1>6. Tables'
    BY <1>1 DEF Inv, Tables
<1>7. Flags'
    BY <1>1, <1>2 DEF Inv, Flags
<1>8. Agreed'
    <2>1. CASE sending' = FALSE /\ sender' = NoSend
        BY <1>1, <2>1, OffFacts DEF Agreed, CancelOwnsTheQueue
    <2>2. CASE sending' = TRUE /\ sender' = [NoSend EXCEPT !.stage = "start"] /\ ui' = ui
        BY <1>1, <2>2, OffFacts DEF Agreed, CancelOwnsTheQueue
    <2> QED BY <1>2, <2>1, <2>2
<1> QED BY <1>5, <1>6, <1>7, <1>8 DEF Inv

\* Only a sender that does not run leaves the folder to the Tk thread.
LEMMA CancelButtonInv ==
    ASSUME Inv, CancelButton
    PROVE  Inv'
<1>1. app = "up" /\ app' = "up" /\ ui.stage = "free" /\ cancel' = TRUE
      /\ UNCHANGED <<files, rows, saved, lines, signer, sender, retry, sending, signed, announced, gone, stops>>
    BY DEF CancelButton, UiFree, disk, threads, history
<1>2. ui' = ui \/ (BeginCancel /\ ~sending)
    <2>1. CASE sending
        BY <2>1 DEF CancelButton
    <2>2. CASE ~sending
        BY <2>2 DEF CancelButton
    <2> QED BY <2>1, <2>2
<1>3. Workers'
    BY <1>1, <1>2, WorkersMove, BeginFacts DEF Inv
<1>4. Tables'
    BY <1>1 DEF Inv, Tables
<1>5. Flags'
    BY <1>1 DEF Inv, Flags
<1>6. Agreed'
    BY <1>1, <1>2 DEF Inv, Agreed, CancelOwnsTheQueue
<1> QED BY <1>3, <1>4, <1>5, <1>6 DEF Inv

\* The Tk thread takes the file with the lowest index.
LEMMA UiFacts ==
    ASSUME Inv, ui.todo # {}
    PROVE  Least(ui.todo) \in Names /\ ui \in UiStates
<1>1. ui \in UiStates /\ ui.todo \subseteq Names
    BY DEF Inv, Workers, Discards, UiStates
<1> QED BY <1>1, LeastFacts

LEMMA CancelDiscardInv ==
    ASSUME Inv, CancelDiscard
    PROVE  Inv'
<1> DEFINE t == files[Least(ui.todo)]
<1>1. ui.stage = "discard" /\ ui.todo # {}
      /\ UNCHANGED <<files, saved, lines, signer, sender, retry, cancel, sending, app, signed, announced, gone, stops>>
    BY DEF CancelDiscard, threads, history
<1>2. ui \in UiStates /\ t \in Transfers \cup {Nothing} /\ rows \in [Transfers -> {"none", "verified", "settled"}]
    BY <1>1, UiFacts DEF Inv, Tables
<1> HIDE DEF t
<1>3. Discards(ui') /\ ui'.stage # "free"
    <2>1. CASE t = Nothing
        BY <1>1, <1>2, <2>1 DEF CancelDiscard, Discards, UiStates, t
    <2>2. CASE t # Nothing
        <3>1. ui' = [ui EXCEPT !.stage = "unlink", !.undone = @ \cup {t}]
            BY <2>2 DEF CancelDiscard, t
        <3>2. t \in Transfers
            BY <1>2, <2>2
        <3> QED BY <1>1, <1>2, <3>1, <3>2 DEF Discards, UiStates
    <2> QED BY <2>1, <2>2
<1>4. rows' \in [Transfers -> {"none", "verified", "settled"}]
    BY <1>2 DEF CancelDiscard, t
<1>5. Workers'
    BY <1>1, <1>3, WorkersMove DEF Inv
<1>6. Tables'
    BY <1>1, <1>4 DEF Inv, Tables
<1>7. Flags' /\ Agreed'
    BY <1>1, AgreedKept DEF Inv, Flags
<1> QED BY <1>5, <1>6, <1>7 DEF Inv

LEMMA CancelUnlinkInv ==
    ASSUME Inv, CancelUnlink
    PROVE  Inv'
<1> DEFINE p == Least(ui.todo)
<1>1. ui.stage = "unlink" /\ ui.todo # {}
      /\ UNCHANGED <<rows, saved, lines, signer, sender, retry, cancel, sending, app, signed, announced, stops>>
      /\ files' = [files EXCEPT ![p] = Nothing] /\ ui' = [ui EXCEPT !.stage = "discard", !.todo = @ \ {p}]
      /\ gone' = IF files[p] \in ui.undone THEN gone \cup {files[p]} ELSE gone
    BY DEF CancelUnlink, threads, Inv, Workers, Discards
<1>2. ui \in UiStates /\ p \in Names /\ files \in [Names -> Transfers \cup {Nothing}] /\ gone \subseteq Transfers
    BY <1>1, UiFacts DEF Inv, Tables
<1> HIDE DEF p
<1>3. Discards(ui') /\ ui'.stage # "free"
    BY <1>1, <1>2 DEF Discards, UiStates
<1>4. files' \in [Names -> Transfers \cup {Nothing}] /\ gone' \subseteq Transfers
    BY <1>1, <1>2 DEF UiStates
<1>5. Workers'
    BY <1>1, <1>3, WorkersMove DEF Inv
<1>6. Tables'
    BY <1>1, <1>4 DEF Inv, Tables
<1>7. Flags' /\ Agreed'
    BY <1>1, AgreedKept DEF Inv, Flags
<1> QED BY <1>5, <1>6, <1>7 DEF Inv

\* The process ends: its threads and what was unlocked are gone.
LEMMA Ends ==
    ASSUME Inv, app' = "down", ui' = Free, signer' = [j \in Jobs |-> NoJob], sender' = NoSend,
           retry' = [n \in Names |-> NoRetry], cancel' = FALSE, sending' = FALSE,
           lines' \in [Bills -> {"owned", "sent"}], saved' \in [Bills -> {"owned", "sent"}], stops' \in 0..MaxStops,
           UNCHANGED <<files, rows, signed, announced, gone>>
    PROVE  Inv'
<1>1. Workers'
    BY OffFacts DEF Workers
<1>2. Tables'
    BY DEF Inv, Tables
<1>3. Flags'
    BY DEF Flags
<1>4. Agreed'
    BY OffFacts DEF Agreed, CancelOwnsTheQueue
<1> QED BY <1>1, <1>2, <1>3, <1>4 DEF Inv

LEMMA CancelDoneInv ==
    ASSUME Inv, CancelDone
    PROVE  Inv'
<1>1. UNCHANGED <<files, rows, signed, announced, gone, stops>> /\ ui' = Free
    BY DEF CancelDone, history
<1>2. lines \in [Bills -> {"owned", "sent"}] /\ saved \in [Bills -> {"owned", "sent"}] /\ stops \in 0..MaxStops
    BY DEF Inv, Tables
<1>3. Restored \in [Bills -> {"owned", "sent"}]
    BY <1>2 DEF Restored
<1>4. ASSUME app' = "up", lines' \in [Bills -> {"owned", "sent"}],
             UNCHANGED <<saved, signer, sender, retry, cancel, sending>>
      PROVE  Inv'
    <2>1. Workers'
        BY <1>1, <1>4, OffFacts, WorkersMove DEF Inv
    <2>2. Tables'
        BY <1>1, <1>4 DEF Inv, Tables
    <2>3. Flags'
        BY <1>4 DEF Inv, Flags
    <2>4. Agreed'
        BY <1>1, <1>4, OffFacts DEF Inv, Agreed, CancelOwnsTheQueue
    <2> QED BY <2>1, <2>2, <2>3, <2>4 DEF Inv
<1>5. CASE app = "up" /\ lines' = Restored /\ UNCHANGED <<app, saved, threads, cancel, sending>>
    BY <1>3, <1>4, <1>5 DEF threads
<1>6. CASE app = "starting" /\ app' = "up" /\ UNCHANGED <<lines, saved, threads, cancel, sending>>
    BY <1>2, <1>4, <1>6 DEF threads
<1>7. CASE /\ app = "closing" /\ app' = "down"
           /\ saved' = Restored /\ lines' = Restored
           /\ signer' = [j \in Jobs |-> NoJob] /\ sender' = NoSend
           /\ retry' = [n \in Names |-> NoRetry]
           /\ cancel' = FALSE /\ sending' = FALSE
    BY <1>1, <1>2, <1>3, <1>7, Ends
<1> QED BY <1>5, <1>6, <1>7 DEF CancelDone

LEMMA CloseInv ==
    ASSUME Inv, Close
    PROVE  Inv'
<1>1. UNCHANGED <<files, rows, saved, lines, signer, sender, retry, sending, signed, announced, gone>>
      /\ cancel' = TRUE /\ app' = "closing" /\ stops < MaxStops /\ stops' = stops + 1 /\ BeginCancel
    BY DEF Close, disk, threads, history
<1>2. Workers'
    BY <1>1, WorkersMove, BeginFacts DEF Inv
<1>3. stops' \in 0..MaxStops
    BY <1>1, BoundAssumption DEF Inv, Tables
<1>4. Tables'
    BY <1>1, <1>3 DEF Inv, Tables
<1>5. Flags' /\ Agreed'
    BY <1>1 DEF Inv, Flags, Agreed, CancelOwnsTheQueue
<1> QED BY <1>2, <1>4, <1>5 DEF Inv

LEMMA CrashInv ==
    ASSUME Inv, Crash
    PROVE  Inv'
<1>1. UNCHANGED <<files, rows, saved, signed, announced, gone>> /\ stops < MaxStops /\ stops' = stops + 1
    BY DEF Crash, disk, history
<1>2. stops' \in 0..MaxStops
    BY <1>1, BoundAssumption DEF Inv, Tables
<1>3. lines' \in [Bills -> {"owned", "sent"}] /\ saved' \in [Bills -> {"owned", "sent"}]
    BY <1>1 DEF Crash, Inv, Tables
<1> QED BY <1>1, <1>2, <1>3, Ends DEF Crash

LEMMA StartInv ==
    ASSUME Inv, Start
    PROVE  Inv'
<1>1. UNCHANGED <<files, rows, saved, lines, signer, sender, retry, sending, signed, announced, gone, stops>>
      /\ cancel' = TRUE /\ app = "down" /\ app' = "starting" /\ BeginCancel
    BY DEF Start, disk, threads, history
<1>2. Workers'
    BY <1>1, WorkersMove, BeginFacts DEF Inv
<1>3. Tables'
    BY <1>1 DEF Inv, Tables
<1>4. Flags' /\ Agreed'
    BY <1>1 DEF Inv, Flags, Agreed, CancelOwnsTheQueue
<1> QED BY <1>2, <1>3, <1>4 DEF Inv

LEMMA SettleInv ==
    ASSUME Inv, NEW t \in Transfers, Settle(t)
    PROVE  Inv'
<1>1. UNCHANGED <<files, saved, lines, signer, sender, retry, cancel, sending, ui, app, signed, announced, gone, stops>>
      /\ rows' = [rows EXCEPT ![t] = "settled"]
    BY DEF Settle, threads, history
<1>2. Workers'
    BY <1>1, WorkersMove DEF Inv
<1>3. Tables'
    BY <1>1 DEF Inv, Tables
<1>4. Flags' /\ Agreed'
    BY <1>1, AgreedKept DEF Inv, Flags
<1> QED BY <1>2, <1>3, <1>4 DEF Inv

LEMMA StutterInv ==
    ASSUME Inv, UNCHANGED vars
    PROVE  Inv'
<1>1. UNCHANGED <<files, rows, saved, lines, signer, sender, retry, cancel, sending, ui, app,
                  signed, announced, gone, stops>>
    BY DEF vars, disk, threads, history
<1>2. Workers'
    BY <1>1, WorkersMove DEF Inv
<1>3. Tables'
    BY <1>1 DEF Inv, Tables
<1>4. Flags' /\ Agreed'
    BY <1>1, AgreedKept DEF Inv, Flags
<1> QED BY <1>2, <1>3, <1>4 DEF Inv

LEMMA NextInv ==
    ASSUME Inv, [Next]_vars
    PROVE  Inv'
<1>1. ASSUME NEW j \in Jobs, ClickSend(j) \/ JobStep(j) \/ SignFinish(j) PROVE Inv'
    BY <1>1, ClickSendInv, ReadAndSignInv, CheckTipInv, StoreRowInv, ChoosePathInv, WriteFileInv, SignFinishInv
       DEF JobStep
<1>2. CASE SenderStep \/ SendFinish
    BY <1>2, SenderStepInv, SendFinishInv
<1>3. ASSUME NEW n \in Names, RetryStep(n) PROVE Inv'
    BY <1>3, RetryStepInv
<1>4. CASE CancelButton \/ CancelStep
    BY <1>4, CancelButtonInv, CancelDiscardInv, CancelUnlinkInv, CancelDoneInv DEF CancelStep
<1>5. CASE Close \/ Crash \/ Start
    BY <1>5, CloseInv, CrashInv, StartInv
<1>6. ASSUME NEW t \in Transfers, Settle(t) PROVE Inv'
    BY <1>6, SettleInv
<1>7. CASE UNCHANGED vars
    BY <1>7, StutterInv
<1> QED BY <1>1, <1>2, <1>3, <1>4, <1>5, <1>6, <1>7 DEF Next

-----------------------------------------------------------------------------
(* Theorems *)

\* The invariant holds in every state.
THEOREM Invariance == Spec => []Inv
<1>1. Init => Inv
    BY InitInv
<1>2. Inv /\ [Next]_vars => Inv'
    BY NextInv
<1> QED BY <1>1, <1>2, PTL DEF Spec

\* Every value has its type: a thread that writes, removes or sends has a file and a message.
THEOREM TypeCorrect == Spec => []TypeOK
<1>1. Inv => TypeOK
    BY InvTypes
<1> QED BY <1>1, Invariance, PTL

\* The Tk thread never empties the folder while the paced sender works on it, closing excepted
\* (cancel_wallet_send_button, start_wallet_send_worker, run).
THEOREM CancelMeetsNoSender == Spec => []CancelOwnsTheQueue
<1>1. Inv => CancelOwnsTheQueue
    BY DEF Inv, Agreed
<1> QED BY <1>1, Invariance, PTL

\* A step takes a file away only after a hand-over or a cancellation of what is in it.
LEMMA LeavesStep ==
    ASSUME Inv, [Next]_vars, NEW n \in Names, files[n] # Nothing, files'[n] # files[n], ~Mistaken(n)
    PROVE  files[n] \in announced' \cup gone'
<1>1. files \in [Names -> Transfers \cup {Nothing}]
    BY DEF Inv, Tables
<1>2. ASSUME NEW j \in Jobs, ClickSend(j) \/ JobStep(j) \/ SignFinish(j) PROVE FALSE
    <2>1. CASE WriteFile(j)
        BY <1>1, <2>1 DEF WriteFile, Mistaken
    <2>2. CASE ClickSend(j) \/ ReadAndSign(j) \/ CheckTip(j) \/ StoreRow(j) \/ ChoosePath(j) \/ SignFinish(j)
        BY <2>2 DEF ClickSend, ReadAndSign, CheckTip, StoreRow, ChoosePath, SignFinish, disk
    <2> QED BY <1>2, <2>1, <2>2 DEF JobStep
<1>3. CASE SenderStep
    <2>1. CASE SenderRemove
        <3>1. sender.stage = "remove" /\ files' = [files EXCEPT ![sender.path] = Nothing] /\ announced' = announced
            BY <2>1 DEF SenderRemove, history
        <3>2. sender.path = n
            BY <1>1, <3>1
        <3>3. sender.raw = files[n]
            BY <3>1, <3>2 DEF Mistaken
        <3>4. sender.raw \in announced
            BY <3>1 DEF Inv, Workers, Sends
        <3> QED BY <3>1, <3>3, <3>4
    <2>2. CASE SenderBegin \/ SenderList \/ SenderPick \/ SenderDispatch \/ SenderCount
        BY <2>2 DEF SenderBegin, SenderList, SenderPick, SenderDispatch, SenderCount, disk
    <2> QED BY <1>3, <2>1, <2>2 DEF SenderStep
<1>4. ASSUME NEW k \in Names, RetryStep(k) PROVE files[n] \in announced' \cup gone'
    <2>1. CASE RetryRemove(k)
        <3>1. retry[k].stage = "remove" /\ files' = [files EXCEPT ![k] = Nothing] /\ announced' = announced
            BY <2>1 DEF RetryRemove, history
        <3>2. k = n
            BY <1>1, <3>1
        <3>3. retry[k].raw = files[n]
            BY <3>1, <3>2 DEF Mistaken
        <3>4. retry[k].raw \in announced
            BY <3>1 DEF Inv, Workers, Retries
        <3> QED BY <3>1, <3>3, <3>4
    <2>2. CASE RetryWake(k) \/ RetryDispatch(k)
        BY <2>2 DEF RetryWake, RetryDispatch, disk
    <2> QED BY <1>4, <2>1, <2>2 DEF RetryStep
<1>5. CASE CancelStep
    <2>1. CASE CancelUnlink
        <3>1. /\ ui.stage = "unlink" /\ files' = [files EXCEPT ![Least(ui.todo)] = Nothing]
              /\ gone' = IF files[Least(ui.todo)] \in ui.undone THEN gone \cup {files[Least(ui.todo)]} ELSE gone
            BY <2>1 DEF CancelUnlink
        <3>2. Least(ui.todo) = n
            BY <1>1, <3>1
        <3> QED BY <3>1, <3>2 DEF Mistaken
    <2>2. CASE CancelDiscard \/ CancelDone
        BY <2>2 DEF CancelDiscard, CancelDone
    <2> QED BY <1>5, <2>1, <2>2 DEF CancelStep
<1>6. CASE SendFinish \/ CancelButton \/ Close \/ Crash \/ Start
    BY <1>6 DEF SendFinish, CancelButton, Close, Crash, Start, disk
<1>7. ASSUME NEW t \in Transfers, Settle(t) PROVE FALSE
    BY <1>7 DEF Settle
<1>8. CASE UNCHANGED vars
    BY <1>8 DEF vars, disk
<1> QED BY <1>2, <1>3, <1>4, <1>5, <1>6, <1>7, <1>8 DEF Next

\* A queued transfer leaves the folder only when a peer was handed it or it was cancelled,
\* unless its file name was given out a second time (_remove_transaction_file).
THEOREM QueuedLeavesWhenSent == Spec => LeavesOnlyWhenSent
<1>1. ASSUME Inv, [Next]_vars
      PROVE  [\A n \in Names : (files[n] # Nothing /\ files'[n] # files[n] /\ ~Mistaken(n)) =>
                files[n] \in announced' \cup gone']_vars
    BY <1>1, LeavesStep
<1> QED BY <1>1, Invariance, PTL DEF Spec, LeavesOnlyWhenSent
=============================================================================
