----------------------------- MODULE BridgeRelay -----------------------------
(***************************************************************************)
(* The bridge jobs.  bridge-event-watcher copies the BridgeRequested logs  *)
(* of the sending chain into the bridgeTransactions collection of          *)
(* Firestore, one document per message with status QUEUED.  bridge-monitor *)
(* polls the LayerZero scan API for every document it still tracks, copies *)
(* the status, and acts on it: it clears a message that FAILED, retries a  *)
(* stored payload or one VERIFIED for over a day, and alerts an operator.  *)
(*                                                                         *)
(* LayerZero is external: `payload` is what its endpoint on L1 holds of a  *)
(* message, `api` what the scan API shows, possibly later.  Anybody may    *)
(* deliver a stored payload.  clearMessage and manualRetry need a stored   *)
(* payload and consume it; they revert without one.                        *)
(*                                                                         *)
(* Messages are numbered by their nonce, in the order of their logs, so a  *)
(* block number is the number of messages requested by then.  The monitor  *)
(* sends from one wallet (bridgeManager) at its latest nonce.              *)
(***************************************************************************)
EXTENDS Integers, FiniteSetsExt

CONSTANTS
    Monitors,     \* executions of bridge-monitor that can be in flight together
    NumMessages,  \* bound: messages ever requested
    BatchSize,    \* FIRESTORE_MAX_BATCH_SIZE
    Patience,     \* 24 hours
    MaxAttempts,  \* TRANSACTION_MAX_RETRIES
    MaxTime,      \* bound: the clock stops
    MaxFaults,    \* bound: faults of the two jobs together
    None          \* no document; no transaction in the mempool; no owner

ASSUME BoundsAssumption ==
    /\ NumMessages \in Nat
    /\ BatchSize \in Nat \ {0}
    /\ MaxAttempts \in Nat \ {0}
    /\ MaxTime \in Nat \ {0}
    /\ {Patience, MaxFaults} \subseteq Nat

Messages == 1..NumMessages
\* INFLIGHT stands for INFLIGHT, CONFIRMING and BLOCKED, which call for no
\* transaction.
ApiStatuses == {"INFLIGHT", "VERIFIED", "PAYLOAD_STORED", "FAILED", "DELIVERED"}
Tracked == {"QUEUED", "INFLIGHT", "VERIFIED"}
Docs == [status : ApiStatuses \cup {"QUEUED", "NOT_FOUND"}, verifiedAt : Nat]
Txs == [message : Messages, op : {"clearMessage", "manualRetry"}, owner : Monitors \cup {None}]

ASSUME NoneAssumption == None \notin Monitors /\ None \notin Docs /\ None \notin Txs

VARIABLES
    now,
    \* LayerZero
    requested,  \* messages requested so far
    payload,    \* "none", "stored", "delivered" or "cleared"
    api,        \* the status the scan API shows; "404" before it knows one
    \* Firestore
    doc,        \* bridgeTransactions/<guid>, or None
    cursor,     \* events/bridgeRequested.lastBlockNumber
    \* the jobs
    watcher,    \* the run of bridge-event-watcher
    monitor,    \* the runs of bridge-monitor
    pending,    \* the wallet's transaction in the mempool, or None
    receipt,    \* "none", "success" or "reverted", for the run that waits
    faults      \* of either job

lzVars == <<requested, payload, api>>
vars == <<now, lzVars, doc, cursor, watcher, monitor, pending, receipt, faults>>

NothingLeft == [m \in Messages |-> None]
IdleWatcher == [pc |-> "idle", cur |-> 0, left |-> {}]
IdleMonitor == [pc |-> "idle", snapshot |-> NothingLeft, status |-> "404", verifiedAt |-> 0,
                attempt |-> 0]

Init ==
    /\ now = 1
    /\ requested = 0
    /\ payload = [m \in Messages |-> "none"]
    /\ api = [m \in Messages |-> "404"]
    /\ doc = NothingLeft
    /\ cursor = 0
    /\ watcher = IdleWatcher
    /\ monitor = [j \in Monitors |-> IdleMonitor]
    /\ pending = None
    /\ receipt = [j \in Monitors |-> "none"]
    /\ faults = [watcher |-> 0, monitor |-> 0]

-----------------------------------------------------------------------------
(* LayerZero and the clock.                                                *)

Tick ==
    /\ now < MaxTime
    /\ now' = now + 1
    /\ UNCHANGED <<lzVars, doc, cursor, watcher, monitor, pending, receipt, faults>>

Request ==
    /\ requested < NumMessages
    /\ requested' = requested + 1
    /\ UNCHANGED <<now, payload, api, doc, cursor, watcher, monitor, pending, receipt, faults>>

\* The scan API shows a new status of message m.
Show(m, status) ==
    /\ api' = [api EXCEPT ![m] = status]
    /\ UNCHANGED <<now, requested, doc, cursor, watcher, monitor, pending, receipt, faults>>

Index(m) == m <= requested /\ api[m] = "404" /\ Show(m, "INFLIGHT") /\ UNCHANGED payload

Verify(m) ==
    /\ api[m] = "INFLIGHT"
    /\ Show(m, "VERIFIED")
    /\ payload' = [payload EXCEPT ![m] = "stored"]

\* The executor could not deliver the message.
ExecutionFails(m) ==
    /\ api[m] = "VERIFIED" /\ payload[m] = "stored"
    /\ \E status \in {"PAYLOAD_STORED", "FAILED"} : Show(m, status)
    /\ UNCHANGED payload

\* The executor, or anybody else, delivers it; the scan API lags behind, and
\* shows a cleared message as delivered too.
Deliver(m) ==
    /\ payload[m] = "stored"
    /\ payload' = [payload EXCEPT ![m] = "delivered"]
    /\ UNCHANGED <<now, requested, api, doc, cursor, watcher, monitor, pending, receipt, faults>>

ShowDelivery(m) ==
    /\ payload[m] \in {"delivered", "cleared"} /\ api[m] # "DELIVERED"
    /\ Show(m, "DELIVERED")
    /\ UNCHANGED payload

\* The wallet's transaction is mined.
Mine ==
    /\ pending # None
    /\ LET m == pending.message
           stored == payload[m] = "stored"
           outcome == IF stored THEN "success" ELSE "reverted"
       IN  /\ payload' = IF ~stored THEN payload
                         ELSE [payload EXCEPT ![m] = IF pending.op = "clearMessage"
                                                       THEN "cleared" ELSE "delivered"]
           /\ receipt' = [j \in Monitors |-> IF j = pending.owner THEN outcome ELSE receipt[j]]
    /\ pending' = None
    /\ UNCHANGED <<now, requested, api, doc, cursor, watcher, monitor, faults>>

-----------------------------------------------------------------------------
(* bridge-event-watcher.                                                   *)

\* Mutant: the range starts one block late.
Watch_SkipsFirst ==
    /\ watcher.pc = "idle"
    /\ cursor < requested
    /\ watcher' = [pc |-> "saving", cur |-> requested, left |-> cursor + 2..requested]
    /\ UNCHANGED <<now, lzVars, doc, cursor, monitor, pending, receipt, faults>>

\* performJob and fetchEvents: the logs between the cursor and the head.
Watch ==
    /\ watcher.pc = "idle"
    /\ cursor < requested
    /\ watcher' = [pc |-> "saving", cur |-> requested, left |-> cursor + 1..requested]
    /\ UNCHANGED <<now, lzVars, doc, cursor, monitor, pending, receipt, faults>>

\* saveBridgeTransactionsBatch commits its batches in any order; a document
\* that exists is replaced (merge: false).
SaveBatch ==
    /\ watcher.pc = "saving"
    /\ \E i \in watcher.left :
         LET batch == {m \in watcher.left : (m - cursor - 1) \div BatchSize
                                              = (i - cursor - 1) \div BatchSize}
         IN  /\ doc' = [m \in Messages |->
                          IF m \in batch
                            THEN [status |-> "QUEUED", verifiedAt |-> 0]
                            ELSE doc[m]]
             /\ watcher' = [watcher EXCEPT !.left = @ \ batch]
    /\ UNCHANGED <<now, lzVars, cursor, monitor, pending, receipt, faults>>

\* updateEventState
SaveCursor ==
    /\ watcher.pc = "saving"
    /\ watcher.left = {}
    /\ cursor' = watcher.cur
    /\ watcher' = IdleWatcher
    /\ UNCHANGED <<now, lzVars, doc, monitor, pending, receipt, faults>>

WatcherFails ==
    /\ watcher.pc # "idle"
    /\ faults.watcher + faults.monitor < MaxFaults
    /\ faults' = [faults EXCEPT !.watcher = @ + 1]
    /\ watcher' = IdleWatcher
    /\ UNCHANGED <<now, lzVars, doc, cursor, monitor, pending, receipt>>

-----------------------------------------------------------------------------
(* bridge-monitor.                                                         *)

Left(snapshot) == {m \in Messages : snapshot[m] # None}

\* The message a run is at: documents are sorted by their nonce.
At(j) == Min(Left(monitor[j].snapshot))

\* Mutant: no filter on the status.
FetchDocs_All(j) ==
    /\ monitor[j].pc = "idle"
    /\ Left(doc) # {}
    /\ monitor' = [monitor EXCEPT ![j].pc = "checking", ![j].snapshot = doc]
    /\ UNCHANGED <<now, lzVars, doc, cursor, watcher, pending, receipt, faults>>

\* Mutant: VERIFIED is not among the statuses asked for.
FetchDocs_NoVerified(j) ==
    LET snapshot == [m \in Messages |->
                       IF doc[m] # None /\ doc[m].status \in Tracked \ {"VERIFIED"}
                         THEN doc[m] ELSE None]
    IN  /\ monitor[j].pc = "idle"
        /\ Left(snapshot) # {}
        /\ monitor' = [monitor EXCEPT ![j].pc = "checking", ![j].snapshot = snapshot]
        /\ UNCHANGED <<now, lzVars, doc, cursor, watcher, pending, receipt, faults>>

\* performJob: the documents are read once, before the first is processed.
FetchDocs(j) ==
    LET snapshot == [m \in Messages |->
                       IF doc[m] # None /\ doc[m].status \in Tracked THEN doc[m] ELSE None]
    IN  /\ monitor[j].pc = "idle"
        /\ Left(snapshot) # {}
        /\ monitor' = [monitor EXCEPT ![j].pc = "checking", ![j].snapshot = snapshot]
        /\ UNCHANGED <<now, lzVars, doc, cursor, watcher, pending, receipt, faults>>

\* handleVerifiedStatus looks at the document as it was read.
Overdue(time) == time # 0 /\ time < now - Patience

\* What the status calls for: a transaction, or None.
OpFor(j) ==
    LET m == At(j)
    IN  IF api[m] = "FAILED" THEN "clearMessage"
        ELSE IF \/ api[m] = "VERIFIED" /\ Overdue(monitor[j].snapshot[m].verifiedAt)
                \/ api[m] = "PAYLOAD_STORED" /\ payload[m] = "stored"
          THEN "manualRetry"
        ELSE "none"

\* fetchBridgeGuidTransaction and the switch on its status.  A message that
\* is VERIFIED and not overdue gets a new verifiedAt, the present, at each poll.
CheckStatus(j) ==
    /\ monitor[j].pc = "checking"
    /\ api[At(j)] # "404"
    /\ monitor' = [monitor EXCEPT
                     ![j].pc = IF OpFor(j) = "none" THEN "updating" ELSE "submitting",
                     ![j].status = api[At(j)],
                     ![j].verifiedAt = IF api[At(j)] = "VERIFIED" /\ OpFor(j) = "none"
                                         THEN now ELSE 0,
                     ![j].attempt = 0]
    /\ UNCHANGED <<now, lzVars, doc, cursor, watcher, pending, receipt, faults>>

\* On to the next document.
Advance(j) ==
    LET rest == [monitor[j].snapshot EXCEPT ![At(j)] = None]
    IN  monitor' = [monitor EXCEPT ![j] = IF Left(rest) = {} THEN IdleMonitor
                                          ELSE [IdleMonitor EXCEPT !.pc = "checking",
                                                                   !.snapshot = rest]]

MarkNotFound(j) ==
    /\ doc' = [doc EXCEPT ![At(j)].status = "NOT_FOUND"]
    /\ Advance(j)

\* The catch block of processBridgeTransaction: the API answers 404.
StatusNotFound(j) ==
    /\ monitor[j].pc = "checking"
    /\ api[At(j)] = "404"
    /\ MarkNotFound(j)
    /\ UNCHANGED <<now, lzVars, cursor, watcher, pending, receipt, faults>>

\* Mutant: a stored payload is cleared as a failed one is.
Operation_ClearsStored(j) ==
    IF monitor[j].status \in {"FAILED", "PAYLOAD_STORED"} THEN "clearMessage" ELSE "manualRetry"

\* handleFailedStatus clears, the other handlers retry.
Operation(j) == IF monitor[j].status = "FAILED" THEN "clearMessage" ELSE "manualRetry"

\* submitWithRetry: gas estimation passes, and the transaction replaces the
\* one in the mempool.
Submit(j) ==
    /\ monitor[j].pc = "submitting"
    /\ payload[At(j)] = "stored"
    /\ pending' = [message |-> At(j), op |-> Operation(j), owner |-> j]
    /\ monitor' = [monitor EXCEPT ![j].pc = "waiting"]
    /\ UNCHANGED <<now, lzVars, doc, cursor, watcher, receipt, faults>>

\* Mutant: one attempt too many.
Retry_OneMore(j) ==
    monitor' = [monitor EXCEPT ![j] =
                  IF @.attempt = MaxAttempts THEN IdleMonitor
                  ELSE [@ EXCEPT !.pc = "submitting", !.attempt = @ + 1]]

\* The catch block of submitTransaction.
Retry(j) ==
    LET next == monitor[j].attempt + 1
    IN  monitor' = [monitor EXCEPT ![j] =
                      IF next = MaxAttempts THEN IdleMonitor
                      ELSE [@ EXCEPT !.pc = "submitting", !.attempt = next]]

\* An error ends the whole run, unless its text (a status code, call data, the
\* guid) contains "404": then the document is NOT_FOUND.  The last attempt of
\* submitTransaction throws a text of its own, "Transaction Max retries reached".
EndsInLastAttempt(j) ==
    monitor[j].pc \in {"submitting", "waiting"} /\ monitor[j].attempt + 1 = MaxAttempts

Throw(j) ==
    \/ ~EndsInLastAttempt(j) /\ MarkNotFound(j)
    \/ monitor' = [monitor EXCEPT ![j] = IdleMonitor] /\ UNCHANGED doc

\* Gas estimation reverts; "missing revert data" is tried again.
SubmitReverts(j) ==
    /\ monitor[j].pc = "submitting"
    /\ payload[At(j)] # "stored"
    /\ Throw(j) \/ (Retry(j) /\ UNCHANGED doc)
    /\ UNCHANGED <<now, lzVars, cursor, watcher, pending, receipt, faults>>

\* The transaction is mined and reverted ("Transaction failed with status: 0").
TransactionFailed(j) ==
    /\ monitor[j].pc = "waiting"
    /\ receipt[j] = "reverted"
    /\ monitor' = [monitor EXCEPT ![j] = IdleMonitor]
    /\ receipt' = [receipt EXCEPT ![j] = "none"]
    /\ UNCHANGED <<now, lzVars, doc, cursor, watcher, pending, faults>>

\* The run waits for its transaction no more; it stays in the mempool.
Forget(j) ==
    /\ receipt' = [receipt EXCEPT ![j] = "none"]
    /\ pending' = IF pending # None /\ pending.owner = j
                    THEN [pending EXCEPT !.owner = None] ELSE pending

\* "replacement fee too low": the mempool keeps the transaction it has.
SubmitUnderpriced(j) ==
    /\ monitor[j].pc = "submitting"
    /\ pending # None
    /\ Retry(j)
    /\ UNCHANGED <<now, lzVars, doc, cursor, watcher, pending, receipt, faults>>

MonitorFault(j) ==
    /\ faults.watcher + faults.monitor < MaxFaults
    /\ faults' = [faults EXCEPT !.monitor = @ + 1]
    /\ Forget(j)
    /\ UNCHANGED <<now, lzVars, cursor, watcher>>

\* A request of the attempt, or the wait for the receipt, times out.
Timeout(j) ==
    /\ monitor[j].pc \in {"submitting", "waiting"}
    /\ Retry(j)
    /\ MonitorFault(j)
    /\ UNCHANGED doc

\* Any other error, or the container is killed.
MonitorFails(j) ==
    /\ monitor[j].pc # "idle"
    /\ Throw(j)
    /\ MonitorFault(j)

\* Mutant: the status of the receipt is not looked at.
Confirm_AnyReceipt(j) ==
    /\ monitor[j].pc = "waiting"
    /\ receipt[j] # "none"
    /\ monitor' = [monitor EXCEPT ![j].pc = "updating"]
    /\ receipt' = [receipt EXCEPT ![j] = "none"]
    /\ UNCHANGED <<now, lzVars, doc, cursor, watcher, pending, faults>>

\* ethersWaitForTransactionConfirmation returns.
Confirm(j) ==
    /\ monitor[j].pc = "waiting"
    /\ receipt[j] = "success"
    /\ monitor' = [monitor EXCEPT ![j].pc = "updating"]
    /\ receipt' = [receipt EXCEPT ![j] = "none"]
    /\ UNCHANGED <<now, lzVars, doc, cursor, watcher, pending, faults>>

\* updateBridgeTransaction with what the handler returned: a verifiedAt only
\* for a message VERIFIED and not overdue, which else keeps the one it has.
Update(j) ==
    LET m == At(j)
        verified == monitor[j].verifiedAt
    IN  /\ monitor[j].pc = "updating"
        /\ doc' = [doc EXCEPT ![m].status = monitor[j].status,
                              ![m].verifiedAt = IF verified # 0 THEN verified ELSE @]
        /\ Advance(j)
        /\ UNCHANGED <<now, lzVars, cursor, watcher, pending, receipt, faults>>

MonitorStep(j) ==
    \/ CheckStatus(j) \/ StatusNotFound(j) \/ Submit(j) \/ SubmitReverts(j)
    \/ Confirm(j) \/ TransactionFailed(j) \/ Update(j)

Next ==
    \/ Tick \/ Request \/ Mine
    \/ \E m \in Messages : \/ Index(m) \/ Verify(m) \/ ExecutionFails(m)
                           \/ Deliver(m) \/ ShowDelivery(m)
    \/ Watch \/ SaveBatch \/ SaveCursor \/ WatcherFails
    \/ \E j \in Monitors : \/ FetchDocs(j) \/ MonitorStep(j) \/ SubmitUnderpriced(j)
                           \/ Timeout(j) \/ MonitorFails(j)

Spec == Init /\ [][Next]_vars

\* The jobs are started again and again and finish their runs, transactions
\* are mined, and LayerZero verifies a message and shows what became of it.
\* Its executor need not come, faults need not happen, nor the operator's
\* alerts be answered.
FairSpec ==
    /\ Spec
    /\ WF_vars(Watch \/ SaveBatch \/ SaveCursor)
    /\ \A j \in Monitors : WF_vars(FetchDocs(j) \/ MonitorStep(j))
    /\ WF_vars(Mine)
    /\ \A m \in Messages : WF_vars(Index(m)) /\ WF_vars(Verify(m)) /\ WF_vars(ShowDelivery(m))

-----------------------------------------------------------------------------
(* Properties.                                                             *)

Payloads == {"none", "stored", "delivered", "cleared"}
Settled == {"delivered", "cleared"}
PCs == {"idle", "checking", "submitting", "waiting", "updating"}
Runs == [pc : PCs, snapshot : [Messages -> Docs \cup {None}],
         status : ApiStatuses \cup {"404"}, verifiedAt : Nat,
         attempt : 0..MaxAttempts - 1]
Receipts == {"none", "success", "reverted"}

\* Type invariant of the state above.
TypeOK ==
    /\ now \in 1..MaxTime
    /\ requested \in 0..NumMessages
    /\ payload \in [Messages -> Payloads]
    /\ api \in [Messages -> ApiStatuses \cup {"404"}]
    /\ doc \in [Messages -> Docs \cup {None}]
    /\ cursor \in 0..requested
    /\ watcher \in [pc : {"idle", "saving"}, cur : 0..requested, left : SUBSET (1..requested)]
    /\ monitor \in [Monitors -> Runs]
    /\ pending \in Txs \cup {None}
    /\ receipt \in [Monitors -> Receipts]
    /\ faults \in [watcher : 0..MaxFaults, monitor : 0..MaxFaults]

Exists(m) == doc[m] # None

\* The monitor stops tracking a message only when the message needs nothing
\* more: its payload is delivered or cleared, and cleared if the document says
\* FAILED.  Holds across stale snapshots, the lag of the scan API, a delivery
\* that races the monitor's own transaction, and timeouts.  NOT_FOUND is the
\* exception: nothing is known of such a message, and nobody looks again.
UntrackedSettled ==
    \A m \in Messages : Exists(m) =>
        /\ doc[m].status \in {"DELIVERED", "PAYLOAD_STORED"} => payload[m] \in Settled
        /\ doc[m].status = "FAILED" => payload[m] = "cleared"

\* The wallet clears a message, which burns what it carries, only if the scan
\* API reported that its execution FAILED; whoever delivers it meanwhile wins.
ClearedOnlyIfFailed ==
    [][\A m \in Messages : payload'[m] = "cleared" /\ payload[m] # "cleared" => api[m] = "FAILED"]_vars

\* A document that left the tracked states never comes back, unless a run of
\* the watcher died between its batches and its cursor, and the next one
\* replaces the documents.  Needs that runs of the monitor do not overlap.
FinalUnlessRewatched ==
    [][\A m \in Messages : Exists(m) /\ doc[m].status \notin Tracked /\ faults.watcher = 0 =>
          doc'[m] = doc[m]]_vars

\* The message waits for an executor that does not come.  The monitor would
\* retry it after a day, but each poll before that renews verifiedAt.
Renewed(m) == api[m] = "VERIFIED" /\ ~Overdue(doc[m].verifiedAt)

\* Nobody looks at the message again, though its payload is not settled.
GivenUp(m) == doc[m].status = "NOT_FOUND" /\ payload[m] \notin Settled

\* A poll could meet a 404: the scan API does not know the message yet, or a
\* run failed with an error whose text holds those digits.
MeetsNotFound(m) == api[m] = "404" \/ faults.monitor > 0

\* Every requested message gets a document, its payload is delivered or
\* cleared, and the document leaves the tracked states: no crash, no delivery
\* behind the monitor's back, no message at the head of the queue and no lost
\* executor keeps it from that.  Two cases are excused: polls that keep
\* renewing verifiedAt put the retry off for ever, and a document is given up
\* for good after a 404.
EveryMessageSettles ==
    \A m \in Messages :
        \/ <>[](Exists(m) /\ Renewed(m))
        \/ <>(Exists(m) /\ MeetsNotFound(m)) /\ <>[](Exists(m) /\ GivenUp(m))
        \/ m <= requested ~>
             Exists(m) /\ doc[m].status \notin Tracked /\ payload[m] \in Settled
=============================================================================
