----------------------------- MODULE WalletSend -----------------------------
(***************************************************************************)
(* How the desktop wallet spends: signing jobs (send_bills, charge_bills)  *)
(* commit transfers to the local store and to transaction_folder/; one     *)
(* paced sender and one retry thread per file hand the queued files to     *)
(* peers; the Tk thread starts, finishes, cancels and closes.              *)
(* src/ind/desktop.py, wallet_services.py, sender_node.py, runtime.py.     *)
(*                                                                         *)
(* A transfer stands for its announcement.  Pacing and back-off only delay *)
(* a step; what a peer does is the choice in Dispatched.                   *)
(***************************************************************************)
EXTENDS Integers, Sequences, FiniteSets

CONSTANTS
    Bills,      \* the bills the wallet holds, settled and its own at first
    Transfers,  \* the transfers that may be signed, each at most once
    BillOf,     \* the bill a transfer spends
    Jobs,       \* signing workers: SendJob and the charge of printed bills
    SendJob,    \* the worker of start_wallet_signing_worker
    MaxFiles,   \* bound: indices of transaction_<n>.json
    MaxTries,   \* WALLET_QUEUED_RETRY_MAX_ATTEMPTS
    MaxStops,   \* bound: how often the application stops
    Nothing

ASSUME BillAssumption == BillOf \in [Transfers -> Bills]
ASSUME JobAssumption == SendJob \in Jobs
ASSUME BoundAssumption == {MaxFiles, MaxStops} \subseteq Nat
ASSUME TriesAssumption == MaxTries \in Nat \ {0}     \* minimum=1
ASSUME NothingAssumption == Nothing \notin Transfers \cup 1..MaxFiles

VARIABLES
    files,      \* transaction_<n>.json: the announcement in it
    rows,       \* bills_v3 row of each transfer's bill
    lines,      \* the unlocked wallet's lines; "-" marks a sent bill
    saved,      \* the lines in the encrypted wallet file
    signer,     \* the signing workers
    sender,     \* the thread of start_wallet_send_worker
    retry,      \* _run_queued_gossip_retry by file, _queued_gossip_retries
    cancel,     \* _queued_send_cancel_event
    sending,    \* wallet_send_running
    ui,         \* what the Tk thread is busy with
    app,        \* the process
    signed,     \* transfers signed so far
    announced,  \* transfers a peer was handed
    gone,       \* transfers cancelled or dropped
    stops       \* times the application stopped

Names == 1..MaxFiles

disk == <<files, rows, saved>>
threads == <<signer, sender, retry>>
history == <<signed, announced, gone>>
vars == <<disk, lines, threads, cancel, sending, ui, app, history, stops>>

Used == {n \in Names : files[n] # Nothing}
Least(S) == CHOOSE n \in S : \A m \in S : n <= m

NoJob == [stage |-> "idle", todo |-> <<>>, done |-> {}, seen |-> [b \in Bills |-> "owned"], path |-> Nothing,
          pending |-> FALSE]
NoSend == [stage |-> "off", todo |-> {}, deferred |-> {}, path |-> Nothing,
           raw |-> Nothing, cancelled |-> FALSE, left |-> FALSE]
NoRetry == [stage |-> "off", raw |-> Nothing, tries |-> 0]
Free == [stage |-> "free", todo |-> {}, undone |-> {}]

TypeOK ==
    /\ files \in [Names -> Transfers \cup {Nothing}]
    /\ rows \in [Transfers -> {"none", "verified", "settled"}]
    /\ {lines, saved} \subseteq [Bills -> {"owned", "sent"}]
    /\ signer \in [Jobs -> [stage : {"idle", "read", "check", "store", "name", "write", "finish"},
                            todo : Seq(Transfers), done : SUBSET Transfers,
                            seen : [Bills -> {"owned", "sent"}],
                            path : Names \cup {Nothing}, pending : BOOLEAN]]
    /\ sender \in [stage : {"off", "start", "list", "pick", "ready", "remove", "count", "finish"},
                   todo : SUBSET Names, deferred : SUBSET Names, path : Names \cup {Nothing},
                   raw : Transfers \cup {Nothing}, cancelled : BOOLEAN, left : BOOLEAN]
    /\ retry \in [Names -> [stage : {"off", "sleep", "send", "remove"},
                            raw : Transfers \cup {Nothing}, tries : 0..MaxTries]]
    /\ {cancel, sending} \subseteq BOOLEAN
    /\ ui \in [stage : {"free", "discard", "unlink"}, todo : SUBSET Names, undone : SUBSET Transfers]
    /\ app \in {"up", "closing", "starting", "down"}
    /\ {signed, announced, gone} \subseteq SUBSET Transfers
    /\ stops \in 0..MaxStops

Init ==
    /\ files = [n \in Names |-> Nothing]
    /\ rows = [t \in Transfers |-> "none"]
    /\ lines = [b \in Bills |-> "owned"] /\ saved = lines
    /\ signer = [j \in Jobs |-> NoJob]
    /\ sender = NoSend
    /\ retry = [n \in Names |-> NoRetry]
    /\ cancel = FALSE /\ sending = FALSE
    /\ ui = Free /\ app = "up"
    /\ signed = {} /\ announced = {} /\ gone = {}
    /\ stops = 0

Running == app \in {"up", "closing", "starting"}
UiFree == app = "up" /\ ui.stage = "free"

-----------------------------------------------------------------------------
(* Signing *)

\* get_spendable_bill_v3_by_display_id: no newer branch is in the store.
Spendable(b) == \A t \in Transfers : BillOf[t] = b => rows[t] = "none"

\* send_button, charge_bills: refused while the same worker is running.
ClickSend(j) ==
    /\ UiFree /\ signer[j].stage = "idle" /\ signed # Transfers
    /\ signer' = [signer EXCEPT ![j] = [NoJob EXCEPT !.stage = "read", !.pending = Used # {}]]
    /\ UNCHANGED <<disk, lines, sender, retry, cancel, sending, ui, app, history, stops>>

\* The worker reads the lines, picks bills and signs a transfer of each; a
\* request that cannot be met signs nothing.
ReadAndSign(j) ==
    /\ Running /\ signer[j].stage = "read"
    /\ \/ \E batch \in {s \in UNION {[1..k -> Transfers \ signed] : k \in 1..Cardinality(Bills)} :
                          \A a, b \in DOMAIN s : a # b => BillOf[s[a]] # BillOf[s[b]]} :
            LET S == {batch[i] : i \in DOMAIN batch} IN
            /\ \A t \in S : lines[BillOf[t]] = "owned" /\ Spendable(BillOf[t])
            /\ signed' = signed \cup S
            /\ signer' = [signer EXCEPT ![j] = [@ EXCEPT !.stage = "check", !.todo = batch, !.seen = lines]]
       \/ signer' = [signer EXCEPT ![j].stage = "finish"] /\ UNCHANGED signed
    /\ UNCHANGED <<disk, lines, sender, retry, cancel, sending, ui, app, announced, gone, stops>>

\* commit_ready_results goes to the next bill, or writes the wallet when the
\* batch is through.
NextInBatch(j, job) ==
    IF job.todo # <<>>
    THEN /\ signer' = [signer EXCEPT ![j] = [job EXCEPT !.stage = "check", !.path = Nothing]]
         /\ UNCHANGED lines
    ELSE /\ signer' = [signer EXCEPT ![j] = [job EXCEPT !.stage = "finish", !.path = Nothing]]
         /\ lines' = IF j = SendJob \/ job.done # {}
                     THEN [b \in Bills |-> IF \E t \in job.done : BillOf[t] = b
                                           THEN "sent" ELSE job.seen[b]]
                     ELSE lines

\* ensure_prepared_wallet_spend_is_current: an error drops the bill.
CheckTip(j) ==
    LET job == signer[j]
        t == Head(job.todo)
    IN
    /\ Running /\ job.stage = "check"
    /\ IF Spendable(BillOf[t])
       THEN signer' = [signer EXCEPT ![j].stage = "store"] /\ UNCHANGED <<lines, gone>>
       ELSE /\ NextInBatch(j, [job EXCEPT !.todo = Tail(@)])
            /\ gone' = gone \cup {t}
    /\ UNCHANGED <<disk, sender, retry, cancel, sending, ui, app, signed, announced, stops>>

\* store_cached_bill_v3, a transaction of its own.
StoreRow(j) ==
    /\ Running /\ signer[j].stage = "store"
    /\ rows' = [rows EXCEPT ![Head(signer[j].todo)] = "verified"]
    /\ signer' = [signer EXCEPT ![j].stage = "name"]
    /\ UNCHANGED <<files, saved, lines, sender, retry, cancel, sending, ui, app, history, stops>>

\* next_transaction_path: one more than the highest index in the folder.
ChoosePath(j) ==
    LET next == IF Used = {} THEN 1 ELSE 1 + CHOOSE n \in Used : \A m \in Used : m <= n IN
    /\ Running /\ signer[j].stage = "name" /\ next \in Names
    /\ signer' = [signer EXCEPT ![j] = [@ EXCEPT !.stage = "write", !.path = next]]
    /\ UNCHANGED <<disk, lines, sender, retry, cancel, sending, ui, app, history, stops>>

\* write_transaction_message
WriteFile(j) ==
    LET job == signer[j]
        t == Head(job.todo)
    IN
    /\ Running /\ job.stage = "write"
    /\ files' = [files EXCEPT ![job.path] = t]
    /\ NextInBatch(j, [job EXCEPT !.todo = Tail(@), !.done = @ \cup {t}])
    /\ UNCHANGED <<rows, saved, sender, retry, cancel, sending, ui, app, history, stops>>

\* start_wallet_send_worker: a sender that is running is left to it.
StartSender ==
    IF sending THEN UNCHANGED <<sending, sender>>
    ELSE sending' = TRUE /\ sender' = [NoSend EXCEPT !.stage = "start"]

\* finish() of a signing worker, on the Tk thread
SignFinish(j) ==
    LET job == signer[j] IN
    /\ UiFree /\ job.stage = "finish"
    /\ signer' = [signer EXCEPT ![j] = NoJob]
    /\ IF job.done # {} \/ (j = SendJob /\ job.pending)
       THEN StartSender ELSE UNCHANGED <<sending, sender>>
    /\ UNCHANGED <<disk, lines, retry, cancel, ui, app, history, stops>>

-----------------------------------------------------------------------------
(* The paced sender, send_queued_bills_paced *)

\* It forgets an earlier cancellation; without files or peers it is done.
SenderBegin ==
    /\ Running /\ sender.stage = "start"
    /\ cancel' = FALSE
    /\ \/ Used # {} /\ sender' = [sender EXCEPT !.stage = "list"]
       \/ sender' = [sender EXCEPT !.stage = "finish", !.left = Used # {}]
    /\ UNCHANGED <<disk, lines, signer, retry, sending, ui, app, history, stops>>

Stop == sender' = [sender EXCEPT !.stage = "count", !.cancelled = cancel]

\* One pass over the folder; files that failed in this run are left alone.
SenderList ==
    /\ Running /\ sender.stage = "list"
    /\ IF cancel \/ Used \ sender.deferred = {}
       THEN Stop
       ELSE sender' = [sender EXCEPT !.stage = "pick", !.todo = Used \ sender.deferred]
    /\ UNCHANGED <<disk, lines, signer, retry, cancel, sending, ui, app, history, stops>>

\* The next file is read and validated; one that has vanished is dropped.
SenderPick ==
    LET p == Least(sender.todo) IN
    /\ Running /\ sender.stage = "pick"
    /\ IF sender.todo = {} THEN sender' = [sender EXCEPT !.stage = "list"]
       ELSE IF cancel THEN Stop
       ELSE IF files[p] = Nothing THEN sender' = [sender EXCEPT !.todo = @ \ {p}]
       ELSE sender' = [sender EXCEPT !.stage = "ready", !.path = p, !.raw = files[p]]
    /\ UNCHANGED <<disk, lines, signer, retry, cancel, sending, ui, app, history, stops>>

\* _broadcast_gossip_fire_and_forget got the frame out to a peer, or did not.
Dispatched(t) == announced' = announced \cup {t}

\* Mutant of SenderDispatch: a failure also counts as sent.
SenderForgets ==
    /\ Running /\ sender.stage = "ready" /\ ~cancel
    /\ sender' = [sender EXCEPT !.stage = "remove"]
    /\ \/ Dispatched(sender.raw)
       \/ UNCHANGED announced
    /\ UNCHANGED <<disk, lines, signer, retry, cancel, sending, ui, app, signed, gone, stops>>

\* Mutant of SenderDispatch: a failed file is not deferred.
SenderTriesAgain ==
    LET p == sender.path IN
    /\ Running /\ sender.stage = "ready"
    /\ \/ cancel /\ Stop /\ UNCHANGED announced
       \/ /\ ~cancel /\ Dispatched(sender.raw)
          /\ sender' = [sender EXCEPT !.stage = "remove"]
       \/ /\ ~cancel
          /\ sender' = [sender EXCEPT !.stage = "pick", !.todo = @ \ {p}]
          /\ UNCHANGED announced
    /\ UNCHANGED <<disk, lines, signer, retry, cancel, sending, ui, app, signed, gone, stops>>

\* After the pacer's wait.  A failed file gets a retry thread unless one is
\* registered under its name, and is deferred.
SenderDispatch ==
    LET p == sender.path IN
    /\ Running /\ sender.stage = "ready"
    /\ \/ cancel /\ Stop /\ UNCHANGED <<announced, retry>>
       \/ /\ ~cancel /\ Dispatched(sender.raw)
          /\ sender' = [sender EXCEPT !.stage = "remove"]
          /\ UNCHANGED retry
       \/ /\ ~cancel
          /\ retry' = IF retry[p].stage = "off"
                      THEN [retry EXCEPT ![p] = [NoRetry EXCEPT !.stage = "sleep", !.raw = sender.raw]]
                      ELSE retry
          /\ sender' = [sender EXCEPT !.stage = "pick", !.todo = @ \ {p}, !.deferred = @ \cup {p},
                                      !.path = Nothing, !.raw = Nothing]
          /\ UNCHANGED announced
    /\ UNCHANGED <<disk, lines, signer, cancel, sending, ui, app, signed, gone, stops>>

\* _remove_transaction_file, by name
SenderRemove ==
    LET p == sender.path IN
    /\ Running /\ sender.stage = "remove"
    /\ files' = [files EXCEPT ![p] = Nothing]
    /\ sender' = [sender EXCEPT !.stage = "pick", !.todo = @ \ {p}, !.path = Nothing, !.raw = Nothing]
    /\ UNCHANGED <<rows, saved, lines, signer, retry, cancel, sending, ui, app, history, stops>>

\* queued_remaining of the summary
SenderCount ==
    /\ Running /\ sender.stage = "count"
    /\ sender' = [sender EXCEPT !.stage = "finish", !.left = Used # {}]
    /\ UNCHANGED <<disk, lines, signer, retry, cancel, sending, ui, app, history, stops>>

-----------------------------------------------------------------------------
(* A background retry, _run_queued_gossip_retry.  It holds the message it  *)
(* was started with and knows the file only by its name.                   *)

RetryWake(n) ==
    /\ Running /\ retry[n].stage = "sleep"
    /\ retry' = IF files[n] = Nothing THEN [retry EXCEPT ![n] = NoRetry]
                ELSE [retry EXCEPT ![n] = [retry[n] EXCEPT !.stage = "send", !.tries = retry[n].tries + 1]]
    /\ UNCHANGED <<disk, lines, signer, sender, cancel, sending, ui, app, history, stops>>

RetryDispatch(n) ==
    /\ Running /\ retry[n].stage = "send"
    /\ \/ Dispatched(retry[n].raw) /\ retry' = [retry EXCEPT ![n].stage = "remove"]
       \/ /\ retry' = IF retry[n].tries >= MaxTries THEN [retry EXCEPT ![n] = NoRetry]
                      ELSE [retry EXCEPT ![n].stage = "sleep"]
          /\ UNCHANGED announced
    /\ UNCHANGED <<disk, lines, signer, sender, cancel, sending, ui, app, signed, gone, stops>>

RetryRemove(n) ==
    /\ Running /\ retry[n].stage = "remove"
    /\ files' = [files EXCEPT ![n] = Nothing]
    /\ retry' = [retry EXCEPT ![n] = NoRetry]
    /\ UNCHANGED <<rows, saved, lines, signer, sender, cancel, sending, ui, app, history, stops>>

-----------------------------------------------------------------------------
(* The Tk thread: finishing, cancelling, closing *)

\* cancel_queued_wallet_send_files lists the folder; the Tk thread is busy
\* with the list while the other threads go on.
BeginCancel == ui' = [Free EXCEPT !.stage = "discard", !.todo = Used]

\* Mutant of SendFinish: the flag is cleared before the summary is known.
FinishEarly ==
    /\ UiFree /\ sender.stage # "off" /\ sending
    /\ sending' = FALSE
    /\ UNCHANGED <<sender, disk, lines, signer, retry, cancel, ui, app, history, stops>>

\* finish() of the send worker: a cancelled run empties the folder, a run
\* that believes the folder empty is repeated when it is not.
SendFinish ==
    /\ UiFree /\ sender.stage = "finish"
    /\ \/ /\ sender.cancelled
          /\ sending' = FALSE /\ sender' = NoSend /\ BeginCancel
       \/ /\ ~sender.cancelled /\ Used # {} /\ ~sender.left
          /\ sending' = TRUE /\ sender' = [NoSend EXCEPT !.stage = "start"]
          /\ UNCHANGED ui
       \/ /\ ~sender.cancelled /\ ~(Used # {} /\ ~sender.left)
          /\ sending' = FALSE /\ sender' = NoSend
          /\ UNCHANGED ui
    /\ UNCHANGED <<disk, lines, signer, retry, cancel, app, history, stops>>

\* cancel_wallet_send_button: the sender is told, or the folder is emptied
\* here when no sender runs.
CancelButton ==
    /\ UiFree /\ (Used # {} \/ sending)
    /\ cancel' = TRUE
    /\ IF sending THEN UNCHANGED ui ELSE BeginCancel
    /\ UNCHANGED <<disk, lines, threads, sending, app, history, stops>>

\* queued_wallet_transfer_detail and discard_unsettled_bill_v3 of one file
CancelDiscard ==
    LET t == files[Least(ui.todo)] IN
    /\ Running /\ ui.stage = "discard" /\ ui.todo # {}
    /\ IF t = Nothing
       THEN ui' = [ui EXCEPT !.stage = "unlink"] /\ UNCHANGED rows
       ELSE /\ ui' = [ui EXCEPT !.stage = "unlink", !.undone = @ \cup {t}]
            /\ rows' = IF rows[t] = "verified" THEN [rows EXCEPT ![t] = "none"] ELSE rows
    /\ UNCHANGED <<files, saved, lines, threads, cancel, sending, app, history, stops>>

CancelUnlink ==
    LET p == Least(ui.todo) IN
    /\ Running /\ ui.stage = "unlink"
    /\ files' = [files EXCEPT ![p] = Nothing]
    /\ gone' = IF files[p] \in ui.undone THEN gone \cup {files[p]} ELSE gone
    /\ ui' = [ui EXCEPT !.stage = "discard", !.todo = @ \ {p}]
    /\ UNCHANGED <<rows, saved, lines, threads, cancel, sending, app, signed, announced, stops>>

Restored == [b \in Bills |-> IF \E t \in ui.undone : BillOf[t] = b THEN "owned" ELSE lines[b]]

\* restore_cancelled_wallet_lines.  On closing the lines are then saved and
\* the process ends; at start-up no wallet is unlocked yet.
CancelDone ==
    /\ Running /\ ui.stage = "discard" /\ ui.todo = {}
    /\ ui' = Free
    /\ \/ app = "up" /\ lines' = Restored /\ UNCHANGED <<app, saved, threads, cancel, sending>>
       \/ app = "starting" /\ app' = "up" /\ UNCHANGED <<lines, saved, threads, cancel, sending>>
       \/ /\ app = "closing" /\ app' = "down"
          /\ saved' = Restored /\ lines' = Restored
          /\ signer' = [j \in Jobs |-> NoJob] /\ sender' = NoSend
          /\ retry' = [n \in Names |-> NoRetry]
          /\ cancel' = FALSE /\ sending' = FALSE
    /\ UNCHANGED <<files, rows, history, stops>>

\* on_closing waits for no thread but SendJob's.
Close ==
    /\ UiFree /\ signer[SendJob].stage = "idle" /\ stops < MaxStops
    /\ cancel' = TRUE /\ app' = "closing" /\ stops' = stops + 1
    /\ BeginCancel
    /\ UNCHANGED <<disk, lines, threads, sending, history>>

\* The process dies; the unlocked lines were only in memory.
Crash ==
    /\ Running /\ stops < MaxStops
    /\ stops' = stops + 1 /\ app' = "down" /\ ui' = Free
    /\ lines' = saved
    /\ signer' = [j \in Jobs |-> NoJob] /\ sender' = NoSend
    /\ retry' = [n \in Names |-> NoRetry]
    /\ cancel' = FALSE /\ sending' = FALSE
    /\ UNCHANGED <<disk, history>>

\* run(): what the last session left in the folder is cancelled.
Start ==
    /\ app = "down"
    /\ app' = "starting" /\ cancel' = TRUE
    /\ BeginCancel
    /\ UNCHANGED <<disk, lines, threads, sending, history, stops>>

\* The network settles an announced transfer and the store learns of it.
Settle(t) ==
    /\ t \in announced /\ rows[t] = "verified"
    /\ rows' = [rows EXCEPT ![t] = "settled"]
    /\ UNCHANGED <<files, saved, lines, threads, cancel, sending, ui, app, history, stops>>

-----------------------------------------------------------------------------

JobStep(j) ==
    \/ ReadAndSign(j) \/ CheckTip(j) \/ StoreRow(j) \/ ChoosePath(j) \/ WriteFile(j)
SenderStep ==
    SenderBegin \/ SenderList \/ SenderPick \/ SenderDispatch \/ SenderRemove \/ SenderCount
RetryStep(n) == RetryWake(n) \/ RetryDispatch(n) \/ RetryRemove(n)
CancelStep == CancelDiscard \/ CancelUnlink \/ CancelDone

Next ==
    \/ \E j \in Jobs : ClickSend(j) \/ JobStep(j) \/ SignFinish(j)
    \/ SenderStep \/ SendFinish
    \/ \E n \in Names : RetryStep(n)
    \/ CancelButton \/ CancelStep
    \/ Close \/ Crash \/ Start
    \/ \E t \in Transfers : Settle(t)

Spec == Init /\ [][Next]_vars

\* Threads and Tk callbacks run; clicks, crashes and settlement need not.
Fairness ==
    /\ \A j \in Jobs : WF_vars(JobStep(j)) /\ WF_vars(SignFinish(j))
    /\ WF_vars(SenderStep) /\ WF_vars(SendFinish) /\ WF_vars(CancelStep) /\ WF_vars(Start)
    /\ \A n \in Names : WF_vars(RetryStep(n))

LiveSpec == Spec /\ Fairness

-----------------------------------------------------------------------------
(* Properties *)

\* A thread that goes by a name under which another transfer is queued now.
Mistaken(n) ==
    \/ sender.stage = "remove" /\ sender.path = n /\ sender.raw # files[n]
    \/ retry[n].stage = "remove" /\ retry[n].raw # files[n]
    \/ ui.stage = "unlink" /\ Least(ui.todo) = n /\ files[n] \notin ui.undone
    \/ \E j \in Jobs : signer[j].stage = "write" /\ signer[j].path = n

\* A queued announcement leaves the folder only when a peer was handed it or
\* it was cancelled, unless the file's name was given out a second time while
\* a thread still went by it (_remove_transaction_file, next_transaction_path).
LeavesOnlyWhenSent ==
    [][\A n \in Names : (files[n] # Nothing /\ files'[n] # files[n] /\ ~Mistaken(n)) =>
            files[n] \in announced' \cup gone']_vars

\* The folder is never emptied by the Tk thread while the paced sender works
\* on it, except when the application closes: wallet_send_running and the
\* sender thread agree.
CancelOwnsTheQueue == (ui.stage # "free" /\ app # "closing") => sender.stage = "off"

\* A send that was started comes to its end, whatever peers, retries, further
\* signing and cancelling do: wallet_send_running does not stay set.
SendEnds == sending ~> ~sending

\* A queued announcement leaves the folder only when a peer was handed it or
\* it was cancelled.
NothingIsLost ==
    [][\A n \in Names : (files[n] # Nothing /\ files'[n] # files[n]) =>
            files[n] \in announced' \cup gone']_vars
=============================================================================
