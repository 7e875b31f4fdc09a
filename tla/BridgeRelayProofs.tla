-------------------------- MODULE BridgeRelayProofs --------------------------
(***************************************************************************)
(* Safety of the bridge jobs for any number of overlapping monitors, any   *)
(* number of messages and any bounds: the type invariant, the inductive    *)
(* invariant IndInv, and from it UntrackedSettled and ClearedOnlyIfFailed. *)
(* FinalUnlessRewatched is proved for a single monitor, with a stronger    *)
(* invariant, OneMonitorInv: two runs that overlap break it.               *)
(***************************************************************************)
EXTENDS BridgeRelay, CollectionLemmas

-----------------------------------------------------------------------------
(* The inductive invariant.                                                *)

\* The endpoint holds a payload from the moment LayerZero verified the
\* message, and the scan API reports no delivery that did not happen.
LzInv ==
    \A m \in Messages :
        /\ payload[m] = "none" <=> api[m] \in {"404", "INFLIGHT"}
        /\ api[m] = "DELIVERED" => payload[m] \in Settled

\* A message that failed is reported as such until it is reported as settled.
Failed(m) == api[m] \in {"FAILED", "DELIVERED"}

\* A document may take this status and leave the tracked ones.
Resolved(m, status) ==
    /\ status \in {"DELIVERED", "PAYLOAD_STORED"} => payload[m] \in Settled
    /\ status = "FAILED" => payload[m] = "cleared"

\* The message a run is at, of its record.
Current(r) == Min(Left(r.snapshot))

\* A run r with receipt q is at a document that exists; it clears messages that
\* failed only, and updates the document once its transaction has succeeded.
RunInv(r, q) ==
    /\ \A m \in Left(r.snapshot) : doc[m] # None
    /\ r.pc # "idle" => Left(r.snapshot) # {}
    /\ r.pc \in {"submitting", "waiting"} /\ r.status = "FAILED" => Failed(Current(r))
    /\ r.pc \notin {"idle", "checking"} => r.status # "404"
    /\ r.pc = "updating" \/ q = "success" => Resolved(Current(r), r.status)
    /\ q # "none" => r.pc = "waiting"

\* The transaction in the mempool clears a failed message only, and it is the
\* one its owner, if it has one, waits for.
PendingInv ==
    pending # None =>
      /\ pending.op = "clearMessage" => Failed(pending.message)
      /\ pending.owner # None =>
           /\ monitor[pending.owner].pc = "waiting"
           /\ receipt[pending.owner] = "none"
           /\ pending.message = Current(monitor[pending.owner])
           /\ monitor[pending.owner].status = "FAILED" => pending.op = "clearMessage"

IndInv ==
    /\ TypeOK
    /\ LzInv
    /\ UntrackedSettled
    /\ \A j \in Monitors : RunInv(monitor[j], receipt[j])
    /\ PendingInv

-----------------------------------------------------------------------------
(* The message a run is at.                                                *)

LEMMA CurrentIsLeft ==
    ASSUME NEW r \in Runs, Left(r.snapshot) # {}
    PROVE  Current(r) \in Messages /\ Current(r) \in Left(r.snapshot)
<1>1. Left(r.snapshot) \subseteq Messages /\ Messages \subseteq Nat
  BY BoundsAssumption DEF Left, Messages
<1> QED
  BY <1>1, MinIsSmallest DEF Current

-----------------------------------------------------------------------------
(* Steps around the monitors.                                              *)

\* Payloads that are settled stay as they are, failures stay reported.
Forward ==
    \A m \in Messages : /\ payload[m] \in Settled => payload'[m] = payload[m]
                        /\ Failed(m) => Failed(m)'

DocsStay == \A m \in Messages : doc[m] # None => doc'[m] # None

\* What a run relies on is not taken back.
LEMMA RunInvForward ==
    ASSUME TypeOK, Forward, DocsStay, NEW r \in Runs, NEW q \in Receipts, RunInv(r, q)
    PROVE  RunInv(r, q)'
<1>1. \A m \in Left(r.snapshot) : m \in Messages
  BY DEF Left
<1>2. Left(r.snapshot) # {} => Current(r) \in Messages
  BY CurrentIsLeft
<1>3. \A m \in Left(r.snapshot) : doc'[m] # None
  BY <1>1 DEF DocsStay, RunInv
<1>4. r.pc # "idle" => Current(r) \in Messages
  BY <1>2 DEF RunInv
<1>5. r.pc \in {"submitting", "waiting"} /\ r.status = "FAILED" => Failed(Current(r))'
  BY <1>4 DEF RunInv, Forward
<1>6. r.pc = "updating" \/ q = "success" => Resolved(Current(r), r.status)'
  <2> SUFFICES ASSUME r.pc = "updating" \/ q = "success" PROVE Resolved(Current(r), r.status)'
    OBVIOUS
  <2>1. Resolved(Current(r), r.status) /\ Current(r) \in Messages
    BY <1>4 DEF RunInv
  <2> QED
    BY <2>1 DEF Resolved, Forward, Settled
<1> QED
  BY <1>3, <1>5, <1>6 DEF RunInv

\* Steps of LayerZero, the clock and the watcher.
LEMMA EnvironmentInd ==
    ASSUME IndInv, TypeOK', LzInv', UntrackedSettled', Forward, DocsStay,
           UNCHANGED <<monitor, pending, receipt>>
    PROVE  IndInv'
<1>1. ASSUME NEW j \in Monitors PROVE RunInv(monitor[j], receipt[j])'
  <2>1. monitor[j] \in Runs /\ receipt[j] \in Receipts /\ TypeOK /\ RunInv(monitor[j], receipt[j])
    BY DEF IndInv, TypeOK
  <2> QED
    BY <2>1, RunInvForward DEF RunInv
<1>2. PendingInv'
  <2>1. pending # None => pending.message \in Messages
    BY DEF IndInv, TypeOK, Txs
  <2> QED
    BY <2>1 DEF IndInv, PendingInv, Forward, Current
<1> QED
  BY <1>1, <1>2 DEF IndInv

\* Nothing but the clock, the requests, the cursor, the watcher or the faults.
LEMMA QuietInd ==
    ASSUME IndInv, TypeOK',
           UNCHANGED <<payload, api, doc, monitor, pending, receipt>>
    PROVE  IndInv'
<1>1. LzInv' /\ UntrackedSettled'
  BY DEF IndInv, LzInv, UntrackedSettled, Exists, Settled
<1>2. Forward /\ DocsStay
  BY DEF Forward, DocsStay, Failed
<1> QED
  BY <1>1, <1>2, EnvironmentInd

LEMMA TickInd == IndInv /\ Tick => IndInv'
<1> SUFFICES ASSUME IndInv, Tick PROVE IndInv'
  OBVIOUS
<1>1. TypeOK'
  BY BoundsAssumption DEF IndInv, TypeOK, Tick, lzVars
<1> QED
  BY <1>1, QuietInd DEF Tick, lzVars

LEMMA RequestInd == IndInv /\ Request => IndInv'
<1> SUFFICES ASSUME IndInv, Request PROVE IndInv'
  OBVIOUS
<1> USE BoundsAssumption DEF Request
<1>1. requested' \in 0..NumMessages /\ 0..requested \subseteq 0..requested'
      /\ 1..requested \subseteq 1..requested'
  BY DEF IndInv, TypeOK
<1>2. TypeOK'
  BY <1>1 DEF IndInv, TypeOK
<1> QED
  BY <1>2, QuietInd

LEMMA WatchInd == IndInv /\ Watch => IndInv'
<1> SUFFICES ASSUME IndInv, Watch PROVE IndInv'
  OBVIOUS
<1> USE BoundsAssumption DEF Watch, lzVars
<1>1. cursor + 1..requested \in SUBSET (1..requested)
  BY DEF IndInv, TypeOK
<1>2. TypeOK'
  BY <1>1 DEF IndInv, TypeOK
<1> QED
  BY <1>2, QuietInd

LEMMA SaveCursorInd == IndInv /\ SaveCursor => IndInv'
<1> SUFFICES ASSUME IndInv, SaveCursor PROVE IndInv'
  OBVIOUS
<1>1. TypeOK'
  BY BoundsAssumption DEF IndInv, TypeOK, SaveCursor, lzVars, IdleWatcher
<1> QED
  BY <1>1, QuietInd DEF SaveCursor, lzVars

LEMMA WatcherFailsInd == IndInv /\ WatcherFails => IndInv'
<1> SUFFICES ASSUME IndInv, WatcherFails PROVE IndInv'
  OBVIOUS
<1>1. TypeOK'
  BY BoundsAssumption DEF IndInv, TypeOK, WatcherFails, lzVars, IdleWatcher
<1> QED
  BY <1>1, QuietInd DEF WatcherFails, lzVars

\* The watcher puts a document back among the tracked ones.
LEMMA SaveBatchInd == IndInv /\ SaveBatch => IndInv'
<1> SUFFICES ASSUME IndInv, SaveBatch PROVE IndInv'
  OBVIOUS
<1> DEFINE Queued == [status |-> "QUEUED", verifiedAt |-> 0]
<1>1. PICK batch : /\ doc' = [m \in Messages |-> IF m \in batch THEN Queued ELSE doc[m]]
                   /\ watcher' = [watcher EXCEPT !.left = @ \ batch]
  BY DEF SaveBatch
<1>2. Queued \in Docs /\ Queued # None /\ Queued.status = "QUEUED"
  BY NoneAssumption DEF Docs
<1> HIDE DEF Queued
<1>3. TypeOK'
  BY <1>1, <1>2 DEF IndInv, TypeOK, SaveBatch, lzVars
<1>4. LzInv' /\ UntrackedSettled'
  BY <1>1, <1>2 DEF SaveBatch, IndInv, LzInv, UntrackedSettled, Exists, Settled, lzVars
<1>5. Forward /\ DocsStay
  BY <1>1, <1>2 DEF SaveBatch, Forward, DocsStay, Failed, lzVars
<1> QED
  BY <1>3, <1>4, <1>5, EnvironmentInd DEF SaveBatch

\* The scan API shows a status that agrees with the endpoint.
LEMMA ShowInd ==
    ASSUME IndInv, NEW m \in Messages, NEW status \in ApiStatuses, Show(m, status),
           payload' = payload \/ (payload[m] = "none" /\ payload' = [payload EXCEPT ![m] = "stored"]),
           payload'[m] = "none" <=> status = "INFLIGHT",
           status = "DELIVERED" => payload'[m] \in Settled,
           Failed(m) => status \in {"FAILED", "DELIVERED"}
    PROVE  IndInv'
<1> USE DEF Show
<1>1. payload' \in [Messages -> Payloads] /\ \A n \in Messages : n # m => payload'[n] = payload[n]
  BY DEF IndInv, TypeOK, Payloads
<1>2. api' \in [Messages -> ApiStatuses \cup {"404"}]
  BY DEF IndInv, TypeOK
<1>3. TypeOK'
  BY <1>1, <1>2 DEF IndInv, TypeOK
<1>4. LzInv'
  BY <1>1 DEF IndInv, TypeOK, LzInv, ApiStatuses
<1>5. Forward /\ DocsStay
  BY <1>1 DEF Forward, DocsStay, Failed, IndInv, TypeOK, Settled
<1>6. UntrackedSettled'
  BY <1>1, <1>5 DEF IndInv, UntrackedSettled, Exists, Forward, Settled
<1> QED
  BY <1>3, <1>4, <1>5, <1>6, EnvironmentInd

LEMMA LayerZeroInd ==
    ASSUME IndInv, NEW m \in Messages,
           Index(m) \/ Verify(m) \/ ExecutionFails(m) \/ Deliver(m) \/ ShowDelivery(m)
    PROVE  IndInv'
<1>1. /\ payload[m] = "none" <=> api[m] \in {"404", "INFLIGHT"}
      /\ api[m] = "DELIVERED" => payload[m] \in Settled
      /\ payload \in [Messages -> Payloads]
  BY DEF IndInv, LzInv, TypeOK
<1>2. CASE Index(m)
  BY <1>1, <1>2, ShowInd DEF Index, ApiStatuses, Failed
<1>3. CASE Verify(m)
  <2>1. payload'[m] = "stored"
    BY <1>1, <1>3 DEF Verify
  <2> QED
    BY <1>1, <1>3, <2>1, ShowInd DEF Verify, ApiStatuses, Failed
<1>4. CASE ExecutionFails(m)
  <2>1. PICK status \in {"PAYLOAD_STORED", "FAILED"} : Show(m, status)
    BY <1>4 DEF ExecutionFails
  <2> QED
    BY <1>1, <1>4, <2>1, ShowInd DEF ExecutionFails, ApiStatuses, Failed
<1>5. CASE Deliver(m)
  <2>1. payload' \in [Messages -> Payloads] /\ payload'[m] = "delivered"
        /\ \A n \in Messages : n # m => payload'[n] = payload[n]
    BY <1>1, <1>5 DEF Deliver, Payloads
  <2>2. TypeOK'
    BY <1>5, <2>1 DEF Deliver, IndInv, TypeOK
  <2>3. LzInv'
    BY <1>1, <1>5, <2>1 DEF Deliver, IndInv, LzInv, Settled
  <2>4. Forward /\ DocsStay
    BY <1>5, <2>1 DEF Deliver, Forward, DocsStay, Failed, Settled
  <2>5. UntrackedSettled'
    BY <1>5, <2>1, <2>4 DEF Deliver, IndInv, UntrackedSettled, Exists, Forward, Settled
  <2> QED
    BY <1>5, <2>2, <2>3, <2>4, <2>5, EnvironmentInd DEF Deliver
<1>6. CASE ShowDelivery(m)
  BY <1>1, <1>6, ShowInd DEF ShowDelivery, ApiStatuses, Settled
<1> QED
  BY <1>2, <1>3, <1>4, <1>5, <1>6

-----------------------------------------------------------------------------
(* Steps of a monitor.                                                     *)

\* Run j becomes r with receipt q.
Becomes(j, r, q) == monitor' = [monitor EXCEPT ![j] = r] /\ receipt' = [receipt EXCEPT ![j] = q]

\* What a step of a run may do to the documents.
DocStep == doc' \in [Messages -> Docs \cup {None}] /\ DocsStay /\ UntrackedSettled'

LEMMA RunStepInd ==
    ASSUME IndInv, NEW j \in Monitors, NEW r \in Runs, NEW q \in Receipts,
           RunInv(r, q), Becomes(j, r, q),
           pending' \in Txs \cup {None}, PendingInv', DocStep,
           faults' \in [watcher : 0..MaxFaults, monitor : 0..MaxFaults],
           UNCHANGED <<now, lzVars, cursor, watcher>>
    PROVE  IndInv'
<1> USE DEF Becomes, DocStep, lzVars
<1>1. TypeOK'
  BY DEF IndInv, TypeOK
<1>2. LzInv'
  BY DEF IndInv, LzInv
<1>3. Forward
  BY DEF Forward, Failed
<1>4. ASSUME NEW i \in Monitors PROVE RunInv(monitor[i], receipt[i])'
  <2>1. monitor[i] \in Runs /\ receipt[i] \in Receipts /\ RunInv(monitor[i], receipt[i]) /\ TypeOK
    BY DEF IndInv, TypeOK
  <2>2. CASE i = j
    <3>1. monitor'[i] = r /\ receipt'[i] = q
      BY <2>2 DEF IndInv, TypeOK
    <3>2. RunInv(r, q)'
      BY <2>1, <1>3, RunInvForward
    <3> QED
      BY <3>1, <3>2 DEF RunInv
  <2>3. CASE i # j
    <3>1. monitor'[i] = monitor[i] /\ receipt'[i] = receipt[i]
      BY <2>3 DEF IndInv, TypeOK
    <3>2. \A x \in Runs, y \in Receipts : RunInv(x, y) => RunInv(x, y)'
      BY <2>1, <1>3, RunInvForward
    <3>3. \A x, y : x = monitor[i] /\ y = receipt[i] => RunInv(x, y)'
      BY <2>1, <3>2
    <3> QED
      BY <3>1, <3>3 DEF RunInv
  <2> QED
    BY <2>2, <2>3
<1> QED
  BY <1>1, <1>2, <1>4 DEF IndInv

\* The transaction in the mempool is not the one of run j.
LEMMA PendingKept ==
    ASSUME IndInv, NEW j \in Monitors, NEW r \in Runs, NEW q \in Receipts, Becomes(j, r, q),
           UNCHANGED <<api, pending>>, monitor[j].pc # "waiting" \/ receipt[j] # "none"
    PROVE  PendingInv'
<1>1. pending # None => pending.owner # j
  BY NoneAssumption DEF IndInv, PendingInv
<1>2. pending # None => pending.owner \in Monitors \cup {None} /\ pending.message \in Messages
  BY DEF IndInv, TypeOK, Txs
<1> QED
  BY <1>1, <1>2 DEF IndInv, TypeOK, PendingInv, Becomes, Failed, Current

\* A transaction nobody waits for is left in the mempool.
LEMMA PendingForgotten ==
    ASSUME IndInv, NEW j \in Monitors, NEW r \in Runs,
           monitor' = [monitor EXCEPT ![j] = r], Forget(j), UNCHANGED api
    PROVE  PendingInv' /\ pending' \in Txs \cup {None}
<1>1. CASE pending # None /\ pending.owner = j
  BY <1>1 DEF IndInv, TypeOK, PendingInv, Forget, Failed, Txs
<1>2. CASE ~(pending # None /\ pending.owner = j)
  <2>1. pending # None => pending.owner \in Monitors \cup {None} /\ pending.message \in Messages
    BY DEF IndInv, TypeOK, Txs
  <2> QED
    BY <1>2, <2>1 DEF IndInv, TypeOK, PendingInv, Forget, Failed, Current
<1> QED
  BY <1>1, <1>2

LEMMA IdleRun == IdleMonitor \in Runs /\ RunInv(IdleMonitor, "none") /\ "none" \in Receipts
<1>1. Left(NothingLeft) = {}
  BY DEF Left, NothingLeft
<1>2. IdleMonitor \in Runs
  BY BoundsAssumption DEF IdleMonitor, Runs, PCs, NothingLeft
<1>3. IdleMonitor.pc = "idle" /\ Left(IdleMonitor.snapshot) = {}
  BY <1>1 DEF IdleMonitor
<1> QED
  BY <1>2, <1>3 DEF RunInv, Receipts

\* A run that is not idle is at a document.
LEMMA AtDocument ==
    ASSUME IndInv, NEW j \in Monitors, monitor[j].pc # "idle"
    PROVE  /\ monitor[j] \in Runs /\ receipt[j] \in Receipts
           /\ RunInv(monitor[j], receipt[j])
           /\ At(j) = Current(monitor[j]) /\ At(j) \in Messages
           /\ At(j) \in Left(monitor[j].snapshot) /\ doc[At(j)] \in Docs
<1>1. monitor[j] \in Runs /\ receipt[j] \in Receipts /\ RunInv(monitor[j], receipt[j])
  BY DEF IndInv, TypeOK
<1>2. At(j) = Current(monitor[j])
  BY DEF At, Current
<1>3. At(j) \in Messages /\ At(j) \in Left(monitor[j].snapshot)
  BY <1>1, <1>2, CurrentIsLeft DEF RunInv
<1>4. doc[At(j)] \in Docs
  BY <1>1, <1>3 DEF RunInv, IndInv, TypeOK
<1> QED
  BY <1>1, <1>2, <1>3, <1>4

LEMMA AdvanceRun ==
    ASSUME IndInv, NEW j \in Monitors, monitor[j].pc # "idle", Advance(j)
    PROVE  \E r \in Runs : RunInv(r, "none") /\ monitor' = [monitor EXCEPT ![j] = r]
<1> DEFINE rest == [monitor[j].snapshot EXCEPT ![At(j)] = None]
           next == [IdleMonitor EXCEPT !.pc = "checking", !.snapshot = rest]
<1>1. rest \in [Messages -> Docs \cup {None}] /\ Left(rest) \subseteq Left(monitor[j].snapshot)
  BY AtDocument DEF Runs, Left
<1>2. CASE Left(rest) = {}
  BY <1>2, IdleRun DEF Advance
<1>3. CASE Left(rest) # {}
  <2> HIDE DEF rest
  <2>1. IdleMonitor \in Runs
    BY IdleRun
  <2>2. next \in Runs /\ next.pc = "checking" /\ next.snapshot = rest
    BY <1>1, <2>1 DEF Runs, PCs
  <2>3. RunInv(next, "none")
    BY <1>1, <1>3, <2>2, AtDocument DEF RunInv
  <2> QED
    BY <1>3, <2>2, <2>3 DEF Advance, rest
<1> QED
  BY <1>2, <1>3

LEMMA RetryRun ==
    ASSUME IndInv, NEW j \in Monitors, monitor[j].pc \in {"submitting", "waiting"}, Retry(j)
    PROVE  \E r \in Runs : RunInv(r, "none") /\ monitor' = [monitor EXCEPT ![j] = r]
<1> DEFINE run == monitor[j]
           next == [run EXCEPT !.pc = "submitting", !.attempt = run.attempt + 1]
<1>1. CASE run.attempt + 1 = MaxAttempts
  BY <1>1, IdleRun DEF Retry
<1>2. CASE run.attempt + 1 # MaxAttempts
  <2>1. run \in Runs /\ RunInv(run, receipt[j])
    BY AtDocument
  <2>2. /\ next \in Runs /\ next.pc = "submitting"
        /\ next.snapshot = run.snapshot /\ next.status = run.status
    <3> HIDE DEF run
    <3>1. run.attempt + 1 \in 0..MaxAttempts - 1
      BY <1>2, <2>1, BoundsAssumption DEF Runs
    <3> QED
      BY <2>1, <3>1 DEF Runs, PCs
  <2>3. Current(next) = Current(run)
    BY <2>2 DEF Current
  <2>4. RunInv(next, "none")
    BY <2>1, <2>2, <2>3 DEF RunInv
  <2>5. monitor' = [monitor EXCEPT ![j] = next]
    BY <1>2 DEF Retry, IndInv, TypeOK
  <2> QED
    BY <2>2, <2>4, <2>5
<1> QED
  BY <1>1, <1>2

\* A document takes a status its message is ready for.
LEMMA DocWritten ==
    ASSUME IndInv, NEW m \in Messages, doc[m] # None, NEW d \in Docs, Resolved(m, d.status),
           doc' = [doc EXCEPT ![m] = d], UNCHANGED payload
    PROVE  DocStep
<1>1. doc' \in [Messages -> Docs \cup {None}]
  BY DEF IndInv, TypeOK
<1>2. DocsStay
  BY NoneAssumption DEF DocsStay, IndInv, TypeOK
<1>3. UntrackedSettled'
  BY DEF IndInv, TypeOK, UntrackedSettled, Exists, Resolved, Settled
<1> QED
  BY <1>1, <1>2, <1>3 DEF DocStep

LEMMA DocUnchanged ==
    ASSUME IndInv, UNCHANGED <<doc, payload>>
    PROVE  DocStep
<1> QED
  BY DEF IndInv, TypeOK, DocStep, DocsStay, UntrackedSettled, Exists, Settled

LEMMA NotFoundWritten ==
    ASSUME IndInv, NEW j \in Monitors, monitor[j].pc # "idle", MarkNotFound(j), UNCHANGED payload
    PROVE  DocStep
<1> DEFINE d == [doc[At(j)] EXCEPT !.status = "NOT_FOUND"]
<1>1. At(j) \in Messages /\ doc[At(j)] \in Docs /\ doc[At(j)] # None
  BY AtDocument, NoneAssumption
<1>2. d \in Docs /\ d.status = "NOT_FOUND"
  BY <1>1 DEF Docs
<1>3. doc' = [doc EXCEPT ![At(j)] = d]
  BY DEF MarkNotFound
<1>4. Resolved(At(j), d.status)
  BY <1>2 DEF Resolved
<1> QED
  BY <1>1, <1>2, <1>3, <1>4, DocWritten

LEMMA ThrowRun ==
    ASSUME IndInv, NEW j \in Monitors, monitor[j].pc # "idle", Throw(j), UNCHANGED payload
    PROVE  /\ \E r \in Runs : RunInv(r, "none") /\ monitor' = [monitor EXCEPT ![j] = r]
           /\ DocStep
<1>1. CASE MarkNotFound(j)
  BY <1>1, NotFoundWritten, AdvanceRun DEF MarkNotFound
<1>2. CASE monitor' = [monitor EXCEPT ![j] = IdleMonitor] /\ UNCHANGED doc
  BY <1>2, IdleRun, DocUnchanged
<1> QED
  BY <1>1, <1>2 DEF Throw

\* A step of a run that waits for no transaction.
LEMMA QuietRunInd ==
    ASSUME IndInv, NEW j \in Monitors, NEW r \in Runs, monitor[j].pc # "waiting",
           RunInv(r, "none"), monitor' = [monitor EXCEPT ![j] = r], DocStep,
           UNCHANGED <<now, lzVars, cursor, watcher, pending, receipt, faults>>
    PROVE  IndInv'
<1>1. receipt[j] = "none" /\ "none" \in Receipts
  BY DEF IndInv, TypeOK, RunInv, Receipts
<1>2. Becomes(j, r, "none")
  BY <1>1 DEF Becomes, IndInv, TypeOK
<1>3. PendingInv'
  BY <1>1, <1>2, PendingKept DEF lzVars
<1>4. /\ pending' \in Txs \cup {None}
      /\ faults' \in [watcher : 0..MaxFaults, monitor : 0..MaxFaults]
  BY DEF IndInv, TypeOK
<1> QED
  BY <1>1, <1>2, <1>3, <1>4, RunStepInd

LEMMA FetchDocsInd ==
    ASSUME IndInv, NEW j \in Monitors, FetchDocs(j) PROVE IndInv'
<1> DEFINE snapshot == [m \in Messages |->
                          IF doc[m] # None /\ doc[m].status \in Tracked THEN doc[m] ELSE None]
           next == [monitor[j] EXCEPT !.pc = "checking", !.snapshot = snapshot]
<1>1. /\ monitor[j].pc = "idle" /\ Left(snapshot) # {}
      /\ monitor' = [monitor EXCEPT ![j] = next]
  BY DEF FetchDocs, IndInv, TypeOK
<1>2. snapshot \in [Messages -> Docs \cup {None}] /\ \A m \in Left(snapshot) : doc[m] # None
  BY DEF IndInv, TypeOK, Left
<1> HIDE DEF snapshot
<1>3. monitor[j] \in Runs
  BY DEF IndInv, TypeOK
<1>4. next \in Runs /\ next.pc = "checking" /\ next.snapshot = snapshot
  BY <1>2, <1>3 DEF Runs, PCs
<1>5. RunInv(next, "none")
  BY <1>1, <1>2, <1>4 DEF RunInv
<1>6. DocStep
  BY DocUnchanged DEF FetchDocs, lzVars
<1> QED
  BY <1>1, <1>4, <1>5, <1>6, QuietRunInd DEF FetchDocs

LEMMA CheckStatusInd ==
    ASSUME IndInv, NEW j \in Monitors, CheckStatus(j) PROVE IndInv'
<1> DEFINE run == monitor[j]
           pc == IF OpFor(j) = "none" THEN "updating" ELSE "submitting"
           time == IF api[At(j)] = "VERIFIED" /\ OpFor(j) = "none" THEN now ELSE 0
           next == [run EXCEPT !.pc = pc, !.status = api[At(j)], !.verifiedAt = time,
                               !.attempt = 0]
<1>1. /\ run.pc = "checking" /\ api[At(j)] # "404"
      /\ monitor' = [monitor EXCEPT ![j] = next]
  BY DEF CheckStatus, IndInv, TypeOK
<1>2. /\ run \in Runs /\ RunInv(run, receipt[j]) /\ At(j) = Current(run)
      /\ At(j) \in Messages /\ At(j) \in Left(run.snapshot)
  BY <1>1, AtDocument
<1>3. api[At(j)] \in ApiStatuses
  BY <1>1, <1>2 DEF IndInv, TypeOK
<1>4. pc = "updating" => Resolved(At(j), api[At(j)])
  <2> SUFFICES ASSUME OpFor(j) = "none" PROVE Resolved(At(j), api[At(j)])
    OBVIOUS
  <2>1. api[At(j)] # "FAILED" /\ ~(api[At(j)] = "PAYLOAD_STORED" /\ payload[At(j)] = "stored")
    BY DEF OpFor
  <2>2. payload[At(j)] \in Payloads
    BY <1>2 DEF IndInv, TypeOK
  <2> QED
    BY <1>2, <2>1, <2>2 DEF Resolved, IndInv, LzInv, Settled, Payloads
<1>5. pc \in {"updating", "submitting"} /\ time \in Nat
  BY DEF IndInv, TypeOK
<1> HIDE DEF run, pc, time
<1>6. /\ next \in Runs /\ next.pc = pc /\ next.status = api[At(j)]
      /\ next.snapshot = run.snapshot
  <2>1. 0 \in 0..MaxAttempts - 1
    BY BoundsAssumption
  <2> QED
    BY <1>2, <1>3, <1>5, <2>1 DEF Runs, PCs
<1> HIDE DEF next
<1>7. Current(next) = At(j)
  BY <1>2, <1>6 DEF Current
<1>8. RunInv(next, "none")
  BY <1>1, <1>2, <1>4, <1>5, <1>6, <1>7 DEF RunInv, Failed
<1>9. DocStep
  BY DocUnchanged DEF CheckStatus, lzVars
<1> QED
  BY <1>1, <1>6, <1>8, <1>9, QuietRunInd DEF CheckStatus, run

LEMMA StatusNotFoundInd ==
    ASSUME IndInv, NEW j \in Monitors, StatusNotFound(j) PROVE IndInv'
<1>1. DocStep /\ \E r \in Runs : RunInv(r, "none") /\ monitor' = [monitor EXCEPT ![j] = r]
  BY NotFoundWritten, AdvanceRun DEF StatusNotFound, MarkNotFound, lzVars
<1> QED
  BY <1>1, QuietRunInd DEF StatusNotFound

LEMMA SubmitRevertsInd ==
    ASSUME IndInv, NEW j \in Monitors, SubmitReverts(j) PROVE IndInv'
<1>1. DocStep /\ \E r \in Runs : RunInv(r, "none") /\ monitor' = [monitor EXCEPT ![j] = r]
  BY ThrowRun, RetryRun, DocUnchanged DEF SubmitReverts, lzVars
<1> QED
  BY <1>1, QuietRunInd DEF SubmitReverts

LEMMA SubmitUnderpricedInd ==
    ASSUME IndInv, NEW j \in Monitors, SubmitUnderpriced(j) PROVE IndInv'
<1>1. DocStep /\ \E r \in Runs : RunInv(r, "none") /\ monitor' = [monitor EXCEPT ![j] = r]
  BY RetryRun, DocUnchanged DEF SubmitUnderpriced, lzVars
<1> QED
  BY <1>1, QuietRunInd DEF SubmitUnderpriced

\* The status a run writes is one its message is ready for.
LEMMA UpdateInd ==
    ASSUME IndInv, NEW j \in Monitors, Update(j) PROVE IndInv'
<1> DEFINE m == At(j)
           status == monitor[j].status
           time == IF monitor[j].verifiedAt # 0 THEN monitor[j].verifiedAt
                   ELSE doc[m].verifiedAt
           d == [doc[m] EXCEPT !.status = status, !.verifiedAt = time]
<1>1. /\ monitor[j] \in Runs /\ RunInv(monitor[j], receipt[j]) /\ m = Current(monitor[j])
      /\ m \in Messages /\ doc[m] \in Docs /\ doc[m] # None /\ monitor[j].pc = "updating"
  BY AtDocument, NoneAssumption DEF Update
<1>2. status \in ApiStatuses /\ Resolved(m, status)
  BY <1>1 DEF RunInv, Runs
<1>3. time \in Nat
  BY <1>1 DEF Docs, Runs
<1>4. doc' = [doc EXCEPT ![m] = d]
  BY <1>1 DEF Update, IndInv, TypeOK, Docs
<1>5. d \in Docs /\ d.status = status
  BY <1>1, <1>2, <1>3 DEF Docs
<1> HIDE DEF m, status, time, d
<1>6. DocStep
  BY <1>1, <1>2, <1>4, <1>5, DocWritten DEF Update, lzVars
<1>7. \E r \in Runs : RunInv(r, "none") /\ monitor' = [monitor EXCEPT ![j] = r]
  BY <1>1, AdvanceRun DEF Update
<1> QED
  BY <1>1, <1>6, <1>7, QuietRunInd DEF Update

LEMMA SubmitInd ==
    ASSUME IndInv, NEW j \in Monitors, Submit(j) PROVE IndInv'
<1> DEFINE run == monitor[j]
           next == [run EXCEPT !.pc = "waiting"]
           tx == [message |-> At(j), op |-> Operation(j), owner |-> j]
<1>1. /\ run \in Runs /\ RunInv(run, receipt[j]) /\ At(j) = Current(run)
      /\ At(j) \in Messages /\ run.pc = "submitting"
  BY AtDocument DEF Submit
<1>2. receipt[j] = "none" /\ "none" \in Receipts
  BY <1>1 DEF IndInv, TypeOK, RunInv, Receipts
<1>3. Becomes(j, next, "none")
  BY <1>2 DEF Submit, Becomes, IndInv, TypeOK
<1>4. /\ next \in Runs /\ next.pc = "waiting" /\ next.status = run.status
      /\ next.snapshot = run.snapshot /\ Current(next) = At(j)
  BY <1>1 DEF Runs, PCs, Current
<1>5. RunInv(next, "none")
  BY <1>1, <1>4 DEF RunInv
<1>6. pending' = tx /\ tx \in Txs /\ tx.owner = j /\ tx.message = At(j)
      /\ (tx.op = "clearMessage" <=> run.status = "FAILED")
  BY <1>1 DEF Submit, Txs, Operation
<1>7. monitor'[j] = next /\ receipt'[j] = "none" /\ api' = api
  BY <1>3 DEF Becomes, IndInv, TypeOK, Submit, lzVars
<1> HIDE DEF next, tx, run
<1>8. PendingInv'
  <2>1. Current(next)' = Current(next)
    BY <1>7 DEF Current, Left, next, run
  <2>2. run.status = "FAILED" => Failed(At(j))
    BY <1>1 DEF RunInv
  <2>3. (pending.op = "clearMessage" => Failed(pending.message))'
    BY <1>6, <1>7, <2>2 DEF Failed
  <2>4. Current(monitor[j])' = At(j)
    BY <1>4, <1>7 DEF Current
  <2> QED
    BY <1>4, <1>6, <1>7, <2>3, <2>4 DEF PendingInv
<1>9. DocStep
  BY DocUnchanged DEF Submit, lzVars
<1>10. faults' \in [watcher : 0..MaxFaults, monitor : 0..MaxFaults]
  BY DEF Submit, IndInv, TypeOK
<1> QED
  BY <1>2, <1>3, <1>4, <1>5, <1>6, <1>8, <1>9, <1>10, RunStepInd DEF Submit

\* The run takes its receipt.
LEMMA ReceiptInd ==
    ASSUME IndInv, NEW j \in Monitors, Confirm(j) \/ TransactionFailed(j) PROVE IndInv'
<1> USE DEF Confirm, TransactionFailed
<1>1. receipt[j] # "none" /\ monitor[j].pc = "waiting"
  OBVIOUS
<1>2. PICK r \in Runs : RunInv(r, "none") /\ monitor' = [monitor EXCEPT ![j] = r]
  <2>1. CASE TransactionFailed(j)
    BY <2>1, IdleRun
  <2>2. CASE Confirm(j)
    <3> DEFINE run == monitor[j]
               next == [run EXCEPT !.pc = "updating"]
    <3>1. run \in Runs /\ RunInv(run, "success")
      BY <2>2, AtDocument
    <3>2. /\ next \in Runs /\ next.pc = "updating" /\ next.status = run.status
          /\ next.snapshot = run.snapshot /\ Current(next) = Current(run)
      BY <3>1 DEF Runs, PCs, Current
    <3>3. run.status # "404"
      BY <2>2 DEF IndInv, RunInv
    <3>4. RunInv(next, "none")
      BY <3>1, <3>2, <3>3 DEF RunInv
    <3> QED
      BY <2>2, <3>2, <3>4 DEF IndInv, TypeOK
  <2> QED
    BY <2>1, <2>2
<1>3. "none" \in Receipts /\ Becomes(j, r, "none")
  BY <1>2 DEF Receipts, Becomes
<1>4. PendingInv'
  BY <1>1, <1>3, PendingKept DEF lzVars
<1>5. DocStep
  BY DocUnchanged DEF lzVars
<1>6. /\ pending' \in Txs \cup {None}
      /\ faults' \in [watcher : 0..MaxFaults, monitor : 0..MaxFaults]
  BY DEF IndInv, TypeOK
<1> QED
  BY <1>2, <1>3, <1>4, <1>5, <1>6, RunStepInd

LEMMA FaultInd ==
    ASSUME IndInv, NEW j \in Monitors, Timeout(j) \/ MonitorFails(j) PROVE IndInv'
<1>1. MonitorFault(j) /\ UNCHANGED <<now, lzVars, cursor, watcher>>
  BY DEF Timeout, MonitorFails, MonitorFault
<1>2. DocStep /\ \E r \in Runs : RunInv(r, "none") /\ monitor' = [monitor EXCEPT ![j] = r]
  BY <1>1, ThrowRun, RetryRun, DocUnchanged DEF Timeout, MonitorFails, lzVars
<1>3. PICK r \in Runs : RunInv(r, "none") /\ monitor' = [monitor EXCEPT ![j] = r]
  BY <1>2
<1>4. "none" \in Receipts /\ Becomes(j, r, "none")
  BY <1>1, <1>3 DEF Receipts, Becomes, MonitorFault, Forget
<1>5. PendingInv' /\ pending' \in Txs \cup {None}
  BY <1>1, <1>3, PendingForgotten DEF MonitorFault, lzVars
<1>6. faults' \in [watcher : 0..MaxFaults, monitor : 0..MaxFaults]
  <2>1. /\ faults.watcher \in 0..MaxFaults /\ faults.monitor \in 0..MaxFaults
        /\ faults \in [watcher : 0..MaxFaults, monitor : 0..MaxFaults]
    BY DEF IndInv, TypeOK
  <2>2. faults.monitor + 1 \in 0..MaxFaults
    BY <1>1, <2>1, BoundsAssumption DEF MonitorFault
  <2> QED
    BY <1>1, <2>1, <2>2 DEF MonitorFault
<1> QED
  BY <1>1, <1>2, <1>3, <1>4, <1>5, <1>6, RunStepInd

\* The transaction finds the payload stored and consumes it, or reverts; its
\* owner learns which.
LEMMA MineInd == ASSUME IndInv, Mine PROVE IndInv'
<1> DEFINE m == pending.message
           outcome == IF payload[m] = "stored" THEN "success" ELSE "reverted"
           result == IF pending.op = "clearMessage" THEN "cleared" ELSE "delivered"
<1>1. /\ pending # None /\ pending \in Txs /\ m \in Messages
      /\ pending.op \in {"clearMessage", "manualRetry"} /\ pending' = None
      /\ receipt' = [j \in Monitors |-> IF j = pending.owner THEN outcome ELSE receipt[j]]
      /\ payload' = IF payload[m] = "stored" THEN [payload EXCEPT ![m] = result] ELSE payload
      /\ UNCHANGED <<now, requested, api, doc, cursor, watcher, monitor, faults>>
  BY DEF Mine, IndInv, TypeOK, Txs
<1>2. /\ payload \in [Messages -> Payloads] /\ payload' \in [Messages -> Payloads]
      /\ \A n \in Messages : payload'[n] # payload[n] =>
           n = m /\ payload[n] = "stored" /\ payload'[n] = result
      /\ payload[m] = "stored" => payload'[m] = result
      /\ result \in Settled /\ (result = "cleared" <=> pending.op = "clearMessage")
  BY <1>1 DEF IndInv, TypeOK, Payloads, Settled
<1>3. outcome \in Receipts /\ outcome # "none" /\ (outcome = "success" => payload[m] = "stored")
  BY DEF Receipts
<1> HIDE DEF m, outcome, result
<1>4. TypeOK'
  BY <1>1, <1>2, <1>3 DEF IndInv, TypeOK
<1>5. LzInv'
  BY <1>1, <1>2 DEF IndInv, LzInv, Settled
<1>6. Forward /\ DocsStay
  BY <1>1, <1>2 DEF Forward, DocsStay, Failed, Settled
<1>7. UntrackedSettled'
  BY <1>1, <1>6 DEF IndInv, UntrackedSettled, Exists, Forward, Settled
<1>8. ASSUME NEW j \in Monitors PROVE RunInv(monitor[j], receipt[j])'
  <2>1. monitor[j] \in Runs /\ receipt[j] \in Receipts /\ RunInv(monitor[j], receipt[j]) /\ TypeOK
    BY DEF IndInv, TypeOK
  <2>2. \A r \in Runs, q \in Receipts : RunInv(r, q) => RunInv(r, q)'
    BY <1>6, <2>1, RunInvForward
  <2>3. \A x, y : x = monitor[j] /\ y = receipt[j] => RunInv(x, y)'
    BY <2>1, <2>2
  <2>4. monitor'[j] = monitor[j]
    BY <1>1
  <2>5. CASE j # pending.owner
    BY <1>1, <2>3, <2>4, <2>5 DEF RunInv
  <2>6. CASE j = pending.owner
    <3> DEFINE run == monitor[j]
    <3>1. /\ run.pc = "waiting" /\ receipt[j] = "none" /\ m = Current(run)
          /\ run.status = "FAILED" => pending.op = "clearMessage"
      BY <1>1, <2>6, NoneAssumption DEF IndInv, PendingInv, m
    <3>2. receipt'[j] = outcome
      BY <1>1, <2>6
    <3>3. outcome = "success" => Resolved(Current(run), run.status)'
      BY <1>1, <1>2, <1>3, <3>1 DEF Resolved, Current
    <3>4. RunInv(run, "none")'
      BY <2>3, <2>4, <3>1 DEF RunInv
    <3>5. /\ \A n \in Left(monitor'[j].snapshot) : doc'[n] # None
          /\ Left(monitor'[j].snapshot) # {} /\ monitor'[j].status # "404"
          /\ monitor'[j].status = "FAILED" => Failed(Current(run))'
      BY <1>1, <2>4, <3>1, <3>4 DEF RunInv
    <3>6. receipt'[j] = "success" => Resolved(Current(monitor[j]), monitor[j].status)'
      BY <3>2, <3>3
    <3> QED
      BY <2>4, <3>1, <3>2, <3>5, <3>6 DEF RunInv
  <2> QED
    BY <2>5, <2>6
<1>9. PendingInv'
  BY <1>1 DEF PendingInv
<1> QED
  BY <1>4, <1>5, <1>7, <1>8, <1>9 DEF IndInv

-----------------------------------------------------------------------------
(* The theorems.                                                           *)

LEMMA InitInd == Init => IndInv
<1> SUFFICES ASSUME Init PROVE IndInv
  OBVIOUS
<1>1. NothingLeft \in [Messages -> Docs \cup {None}] /\ \A m \in Messages : NothingLeft[m] = None
  BY DEF NothingLeft
<1>2. TypeOK
  BY <1>1, IdleRun, BoundsAssumption
  DEF Init, TypeOK, Payloads, Receipts, IdleWatcher
<1>3. LzInv /\ UntrackedSettled
  BY <1>1 DEF Init, LzInv, UntrackedSettled, Exists
<1>4. ASSUME NEW j \in Monitors PROVE RunInv(monitor[j], receipt[j])
  BY IdleRun DEF Init
<1>5. PendingInv
  BY DEF Init, PendingInv
<1> QED
  BY <1>2, <1>3, <1>4, <1>5 DEF IndInv

LEMMA NextInd == IndInv /\ [Next]_vars => IndInv'
<1> SUFFICES ASSUME IndInv, [Next]_vars PROVE IndInv'
  OBVIOUS
<1>1. CASE Tick \/ Request \/ Mine
  BY <1>1, TickInd, RequestInd, MineInd
<1>2. CASE \E m \in Messages : \/ Index(m) \/ Verify(m) \/ ExecutionFails(m)
                               \/ Deliver(m) \/ ShowDelivery(m)
  BY <1>2, LayerZeroInd
<1>3. CASE Watch \/ SaveBatch \/ SaveCursor \/ WatcherFails
  BY <1>3, WatchInd, SaveBatchInd, SaveCursorInd, WatcherFailsInd
<1>4. CASE \E j \in Monitors : \/ FetchDocs(j) \/ MonitorStep(j) \/ SubmitUnderpriced(j)
                               \/ Timeout(j) \/ MonitorFails(j)
  BY <1>4, FetchDocsInd, CheckStatusInd, StatusNotFoundInd, SubmitInd, SubmitRevertsInd,
     ReceiptInd, UpdateInd, SubmitUnderpricedInd, FaultInd DEF MonitorStep
<1>5. CASE UNCHANGED vars
  <2>1. TypeOK'
    BY <1>5 DEF vars, lzVars, IndInv, TypeOK
  <2> QED
    BY <1>5, <2>1, QuietInd DEF vars, lzVars
<1> QED
  BY <1>1, <1>2, <1>3, <1>4, <1>5 DEF Next

\* IndInv is an invariant of the bridge jobs.
THEOREM Invariance == Spec => []IndInv
<1> QED
  BY InitInd, NextInd, PTL DEF Spec

\* Every variable keeps its type, for all values of the constants.
THEOREM TypeCorrect == Spec => []TypeOK
<1>1. IndInv => TypeOK
  BY DEF IndInv
<1> QED
  BY <1>1, Invariance, PTL

\* A document leaves the tracked states for DELIVERED, PAYLOAD_STORED or FAILED
\* only when its message is settled, however many runs of the monitor overlap
\* and whatever fails.
THEOREM UntrackedIsSettled == Spec => []UntrackedSettled
<1>1. IndInv => UntrackedSettled
  BY DEF IndInv
<1> QED
  BY <1>1, Invariance, PTL

\* The jobs clear a message only while the scan API shows it FAILED.
THEOREM OnlyFailedIsCleared == Spec => ClearedOnlyIfFailed
<1> DEFINE Cleared == \A m \in Messages :
                        payload'[m] = "cleared" /\ payload[m] # "cleared" => api[m] = "FAILED"
<1>1. IndInv /\ [Next]_vars => [Cleared]_vars
  <2> SUFFICES ASSUME IndInv, Next, NEW m \in Messages,
                      payload'[m] = "cleared", payload[m] # "cleared"
               PROVE  api[m] = "FAILED"
    OBVIOUS
  <2>1. payload \in [Messages -> Payloads] /\ payload'[m] # payload[m]
    BY DEF IndInv, TypeOK
  <2>2. CASE Mine
    <3>1. /\ pending # None /\ pending.message = m /\ payload[m] = "stored"
          /\ pending.op = "clearMessage"
      BY <2>1, <2>2 DEF Mine, IndInv, TypeOK, Txs
    <3>2. Failed(m) /\ api[m] # "DELIVERED"
      BY <3>1 DEF IndInv, PendingInv, LzInv, Settled
    <3> QED
      BY <3>2 DEF Failed
  <2>3. CASE \E n \in Messages : \/ Index(n) \/ Verify(n) \/ ExecutionFails(n)
                                 \/ Deliver(n) \/ ShowDelivery(n)
    BY <2>1, <2>3 DEF Index, Verify, ExecutionFails, Deliver, ShowDelivery
  <2>4. CASE payload' = payload
    BY <2>1, <2>4
  <2>5. Mine \/ payload' = payload \/ \E n \in Messages : \/ Index(n) \/ Verify(n)
          \/ ExecutionFails(n) \/ Deliver(n) \/ ShowDelivery(n)
    BY DEF Next, MonitorStep, lzVars, Tick, Request, Watch, SaveBatch, SaveCursor, WatcherFails,
           FetchDocs, CheckStatus, StatusNotFound, Submit, SubmitReverts, Confirm,
           TransactionFailed, Update, SubmitUnderpriced, Timeout, MonitorFails, MonitorFault
  <2> QED
    BY <2>2, <2>3, <2>4, <2>5
<1> QED
  BY <1>1, Invariance, PTL DEF Spec, ClearedOnlyIfFailed

-----------------------------------------------------------------------------
(* Documents that left the tracked states, when Monitors has one run.      *)

\* As long as no run of the watcher has failed, a message has its document
\* only behind the cursor or where the present run has saved it.
FreshInv ==
    /\ watcher.pc = "saving" => watcher.left \subseteq cursor + 1..watcher.cur
    /\ faults.watcher = 0 =>
         \A m \in Messages : Exists(m) =>
             IF watcher.pc = "idle" THEN m <= cursor
             ELSE m <= watcher.cur /\ m \notin watcher.left

\* What a run of the monitor has still before it is tracked to this day.
TrackedInv ==
    \A j \in Monitors : \A m \in Left(monitor[j].snapshot) : doc[m].status \in Tracked

OneMonitorInv == IndInv /\ FreshInv /\ TrackedInv

\* A document is not changed that left the tracked states.
FinalStays == \A m \in Messages : Exists(m) /\ doc[m].status \notin Tracked /\ faults.watcher = 0 =>
                  doc'[m] = doc[m]

\* Advance leaves the document the run was at, and that one only.
LEMMA AdvanceLeaves ==
    ASSUME IndInv, NEW j \in Monitors, monitor[j].pc # "idle", Advance(j)
    PROVE  Left(monitor'[j].snapshot) \subseteq Left(monitor[j].snapshot) \ {At(j)}
<1> DEFINE rest == [monitor[j].snapshot EXCEPT ![At(j)] = None]
<1>1. rest \in [Messages -> Docs \cup {None}] /\ Left(rest) \subseteq Left(monitor[j].snapshot) \ {At(j)}
  BY AtDocument DEF Runs, Left
<1> HIDE DEF rest
<1>2. monitor'[j] = IF Left(rest) = {} THEN IdleMonitor
                    ELSE [IdleMonitor EXCEPT !.pc = "checking", !.snapshot = rest]
  BY DEF Advance, rest, IndInv, TypeOK
<1>3. CASE Left(rest) = {}
  <2>1. Left(IdleMonitor.snapshot) = {}
    BY DEF IdleMonitor, Left, NothingLeft
  <2> QED
    BY <1>2, <1>3, <2>1
<1>4. CASE Left(rest) # {}
  <2>1. monitor'[j].snapshot = rest
    BY <1>2, <1>4 DEF IdleMonitor
  <2> QED
    BY <1>1, <2>1
<1> QED
  BY <1>3, <1>4

\* A run that has read its documents writes the one it is at, and takes no
\* other one up.
LEMMA MonitorWrites ==
    ASSUME IndInv, NEW j \in Monitors,
           MonitorStep(j) \/ SubmitUnderpriced(j) \/ Timeout(j) \/ MonitorFails(j)
    PROVE  /\ UNCHANGED <<cursor, watcher>> /\ faults'.watcher = faults.watcher
           /\ \/ doc' = doc /\ Left(monitor'[j].snapshot) \subseteq Left(monitor[j].snapshot)
              \/ /\ At(j) \in Left(monitor[j].snapshot) /\ doc[At(j)] # None
                 /\ DOMAIN doc' = Messages /\ doc'[At(j)] # None
                 /\ \A m \in Messages \ {At(j)} : doc'[m] = doc[m]
                 /\ Left(monitor'[j].snapshot) \subseteq Left(monitor[j].snapshot) \ {At(j)}
<1>0. /\ monitor \in [Monitors -> Runs] /\ doc \in [Messages -> Docs \cup {None}]
      /\ faults \in [watcher : 0..MaxFaults, monitor : 0..MaxFaults]
      /\ Left(IdleMonitor.snapshot) = {}
  BY DEF IndInv, TypeOK, IdleMonitor, Left, NothingLeft
<1>1. UNCHANGED <<cursor, watcher>> /\ faults'.watcher = faults.watcher
  BY <1>0 DEF MonitorStep, CheckStatus, StatusNotFound, Submit, SubmitReverts, Confirm,
           TransactionFailed, Update, SubmitUnderpriced, Timeout, MonitorFails, MonitorFault
<1>2. Retry(j) => Left(monitor'[j].snapshot) \subseteq Left(monitor[j].snapshot)
  BY <1>0 DEF Retry, Runs
<1>3. ASSUME MarkNotFound(j), monitor[j].pc # "idle"
      PROVE  /\ At(j) \in Left(monitor[j].snapshot) /\ doc[At(j)] # None
             /\ DOMAIN doc' = Messages /\ doc'[At(j)] # None
             /\ \A m \in Messages \ {At(j)} : doc'[m] = doc[m]
             /\ Left(monitor'[j].snapshot) \subseteq Left(monitor[j].snapshot) \ {At(j)}
  <2>1. /\ At(j) \in Left(monitor[j].snapshot) /\ doc[At(j)] \in Docs /\ At(j) \in Messages
    BY <1>3, AtDocument
  <2>2. doc' = [doc EXCEPT ![At(j)] = [doc[At(j)] EXCEPT !.status = "NOT_FOUND"]]
    BY <1>3 DEF MarkNotFound
  <2>3. [doc[At(j)] EXCEPT !.status = "NOT_FOUND"] \in Docs
    BY <2>1 DEF Docs
  <2> QED
    BY <1>0, <1>3, <2>1, <2>2, <2>3, AdvanceLeaves, NoneAssumption DEF MarkNotFound
<1>4. CASE CheckStatus(j) \/ Submit(j) \/ Confirm(j)
  <2>1. doc' = doc /\ monitor'[j].snapshot = monitor[j].snapshot
    BY <1>0, <1>4 DEF CheckStatus, Submit, Confirm, Runs
  <2> QED
    BY <1>1, <2>1
<1>5. CASE TransactionFailed(j)
  BY <1>0, <1>1, <1>5 DEF TransactionFailed
<1>6. CASE SubmitUnderpriced(j) \/ Timeout(j)
  BY <1>1, <1>2, <1>6 DEF SubmitUnderpriced, Timeout
<1>7. CASE StatusNotFound(j)
  BY <1>1, <1>3, <1>7 DEF StatusNotFound
<1>8. ASSUME Throw(j), monitor[j].pc # "idle"
      PROVE  \/ doc' = doc /\ Left(monitor'[j].snapshot) \subseteq Left(monitor[j].snapshot)
             \/ MarkNotFound(j)
  BY <1>0, <1>8 DEF Throw
<1>9. CASE SubmitReverts(j) \/ MonitorFails(j)
  BY <1>1, <1>2, <1>3, <1>8, <1>9 DEF SubmitReverts, MonitorFails
<1>10. CASE Update(j)
  <2>1. /\ At(j) \in Left(monitor[j].snapshot) /\ doc[At(j)] \in Docs /\ At(j) \in Messages
        /\ Left(monitor'[j].snapshot) \subseteq Left(monitor[j].snapshot) \ {At(j)}
    BY <1>10, AtDocument, AdvanceLeaves DEF Update
  <2> DEFINE status == monitor[j].status
             time == IF monitor[j].verifiedAt # 0 THEN monitor[j].verifiedAt
                     ELSE doc[At(j)].verifiedAt
             d == [doc[At(j)] EXCEPT !.status = status, !.verifiedAt = time]
  <2>2. status \in ApiStatuses /\ monitor[j].verifiedAt \in Nat
    BY <1>10, AtDocument DEF RunInv, Runs, Update
  <2>3. time \in Nat
    BY <2>1, <2>2 DEF Docs
  <2>4. doc' = [doc EXCEPT ![At(j)] = d]
    BY <1>0, <1>10, <2>1 DEF Update, Docs
  <2>5. d \in Docs
    BY <2>1, <2>2, <2>3 DEF Docs
  <2> HIDE DEF status, time, d
  <2> QED
    BY <1>0, <1>1, <2>1, <2>4, <2>5, NoneAssumption
<1> QED
  BY <1>4, <1>5, <1>6, <1>7, <1>9, <1>10 DEF MonitorStep

LEMMA WatcherFresh ==
    ASSUME OneMonitorInv, Watch \/ SaveCursor \/ WatcherFails
    PROVE  FreshInv' /\ TrackedInv' /\ FinalStays
<1>0. /\ cursor \in Nat /\ requested \in Nat /\ cursor <= requested /\ Messages \subseteq Nat
      /\ faults \in [watcher : 0..MaxFaults, monitor : 0..MaxFaults]
      /\ watcher \in [pc : {"idle", "saving"}, cur : 0..requested, left : SUBSET (1..requested)]
      /\ FreshInv /\ TrackedInv
  BY BoundsAssumption DEF OneMonitorInv, IndInv, TypeOK, Messages
<1>1. doc' = doc /\ monitor' = monitor
  BY DEF Watch, SaveCursor, WatcherFails
<1>2. TrackedInv' /\ FinalStays
  BY <1>0, <1>1 DEF TrackedInv, FinalStays
<1>3. CASE Watch
  <2>1. /\ cursor' = cursor /\ faults' = faults /\ watcher.pc = "idle"
        /\ watcher'.pc = "saving" /\ watcher'.cur = requested
        /\ watcher'.left = cursor + 1..requested
    BY <1>3 DEF Watch
  <2>2. faults.watcher = 0 => \A m \in Messages : Exists(m) => m <= cursor
    BY <1>0, <2>1 DEF FreshInv
  <2> QED
    BY <1>0, <1>1, <1>2, <2>1, <2>2 DEF FreshInv, Exists
<1>4. CASE SaveCursor
  <2>1. /\ cursor' = watcher.cur /\ faults' = faults /\ watcher.pc = "saving"
        /\ watcher'.pc = "idle"
    BY <1>4 DEF SaveCursor, IdleWatcher
  <2> QED
    BY <1>0, <1>1, <1>2, <2>1 DEF FreshInv, Exists
<1>5. CASE WatcherFails
  <2>1. faults'.watcher = faults.watcher + 1 /\ watcher'.pc = "idle" /\ faults.watcher \in Nat
    BY <1>0, <1>5 DEF WatcherFails, IdleWatcher
  <2>2. faults'.watcher # 0
    BY <2>1
  <2> QED
    BY <1>2, <2>1, <2>2 DEF FreshInv
<1> QED
  BY <1>3, <1>4, <1>5

LEMMA SaveBatchFresh ==
    ASSUME OneMonitorInv, SaveBatch
    PROVE  FreshInv' /\ TrackedInv' /\ FinalStays
<1> DEFINE Queued == [status |-> "QUEUED", verifiedAt |-> 0]
<1>0. /\ cursor \in Nat /\ Messages \subseteq Nat
      /\ watcher \in [pc : {"idle", "saving"}, cur : 0..requested, left : SUBSET (1..requested)]
      /\ FreshInv /\ TrackedInv
  BY BoundsAssumption DEF OneMonitorInv, IndInv, TypeOK, Messages
<1>1. PICK batch : /\ batch \subseteq watcher.left
                   /\ doc' = [m \in Messages |-> IF m \in batch THEN Queued ELSE doc[m]]
                   /\ watcher' = [watcher EXCEPT !.left = @ \ batch]
  BY DEF SaveBatch
<1>2. Queued.status \in Tracked
  BY DEF Tracked
<1>3. UNCHANGED <<cursor, monitor, faults>> /\ watcher.pc = "saving"
  BY DEF SaveBatch
<1> HIDE DEF Queued
<1>4. /\ watcher'.pc = "saving" /\ watcher'.cur = watcher.cur
      /\ watcher'.left = watcher.left \ batch
  BY <1>0, <1>1, <1>3
<1>5. watcher.left \subseteq cursor + 1..watcher.cur /\ watcher.cur \in Int
  BY <1>0, <1>3 DEF FreshInv
<1>6. ASSUME faults.watcher = 0, NEW m \in Messages, Exists(m)
      PROVE  m <= watcher.cur /\ m \notin watcher.left
  BY <1>0, <1>3, <1>6 DEF FreshInv
<1>7. ASSUME faults.watcher = 0, NEW m \in Messages, doc'[m] # None
      PROVE  m <= watcher.cur /\ m \notin watcher.left \ batch
  <2>1. CASE m \in batch
    BY <1>0, <1>1, <1>5, <2>1
  <2>2. CASE m \notin batch
    BY <1>1, <1>6, <1>7, <2>2 DEF Exists
  <2> QED
    BY <2>1, <2>2
<1>8. FreshInv'
  BY <1>3, <1>4, <1>5, <1>7 DEF FreshInv, Exists
<1>9. TrackedInv'
  BY <1>0, <1>1, <1>2, <1>3 DEF TrackedInv, Left
<1>10. FinalStays
  BY <1>1, <1>6 DEF FinalStays
<1> QED
  BY <1>8, <1>9, <1>10

\* LayerZero and the clock touch neither a document nor a job's record.
LEMMA EnvironmentFresh ==
    ASSUME OneMonitorInv, UNCHANGED <<doc, cursor, watcher, faults>>,
           \A j \in Monitors : Left(monitor'[j].snapshot) \subseteq Left(monitor[j].snapshot)
    PROVE  FreshInv' /\ TrackedInv' /\ FinalStays
BY DEF OneMonitorInv, FreshInv, TrackedInv, FinalStays, Exists

LEMMA FetchDocsFresh ==
    ASSUME OneMonitorInv, NEW j \in Monitors, FetchDocs(j)
    PROVE  FreshInv' /\ TrackedInv' /\ FinalStays
<1> DEFINE snapshot == [m \in Messages |->
                          IF doc[m] # None /\ doc[m].status \in Tracked THEN doc[m] ELSE None]
<1>1. UNCHANGED <<doc, cursor, watcher, faults>>
  BY DEF FetchDocs
<1>2. monitor \in [Monitors -> Runs]
  BY DEF OneMonitorInv, IndInv, TypeOK
<1>3. monitor'[j].snapshot = snapshot /\ \A i \in Monitors \ {j} : monitor'[i] = monitor[i]
  BY <1>2 DEF FetchDocs, Runs
<1>4. \A m \in Left(snapshot) : doc[m].status \in Tracked
  BY DEF Left
<1> HIDE DEF snapshot
<1>5. TrackedInv'
  BY <1>1, <1>3, <1>4 DEF OneMonitorInv, TrackedInv
<1>6. FreshInv' /\ FinalStays
  BY <1>1 DEF OneMonitorInv, FreshInv, FinalStays, Exists
<1> QED
  BY <1>5, <1>6

\* The run writes a document it has still before it, which is tracked; no
\* other run has it before it.
LEMMA MonitorFresh ==
    ASSUME OneMonitorInv, NEW j \in Monitors, Monitors = {j},
           MonitorStep(j) \/ SubmitUnderpriced(j) \/ Timeout(j) \/ MonitorFails(j)
    PROVE  FreshInv' /\ TrackedInv' /\ FinalStays
<1>1. UNCHANGED <<cursor, watcher>> /\ faults'.watcher = faults.watcher
  BY MonitorWrites DEF OneMonitorInv
<1>2. CASE doc' = doc /\ Left(monitor'[j].snapshot) \subseteq Left(monitor[j].snapshot)
  <2>1. TrackedInv' /\ FinalStays
    BY <1>2 DEF OneMonitorInv, TrackedInv, FinalStays
  <2>2. FreshInv'
    BY <1>1, <1>2 DEF OneMonitorInv, FreshInv, Exists
  <2> QED
    BY <2>1, <2>2
<1>3. CASE /\ At(j) \in Left(monitor[j].snapshot) /\ doc[At(j)] # None
           /\ \A m \in Messages \ {At(j)} : doc'[m] = doc[m]
           /\ Left(monitor'[j].snapshot) \subseteq Left(monitor[j].snapshot) \ {At(j)}
  <2>1. doc[At(j)].status \in Tracked
    BY <1>3 DEF OneMonitorInv, TrackedInv
  <2>2. FinalStays
    BY <1>3, <2>1 DEF FinalStays
  <2>3. \A m \in Left(monitor'[j].snapshot) : m \in Messages \ {At(j)}
    BY <1>3 DEF Left
  <2>4. TrackedInv'
    BY <1>3, <2>3 DEF OneMonitorInv, TrackedInv
  <2>5. \A m \in Messages : doc'[m] # None => Exists(m)
    BY <1>3 DEF Exists
  <2>6. FreshInv'
    BY <1>1, <2>5 DEF OneMonitorInv, FreshInv, Exists
  <2> QED
    BY <2>2, <2>4, <2>6
<1> QED
  BY <1>2, <1>3, MonitorWrites DEF OneMonitorInv

LEMMA OneMonitorStep ==
    ASSUME OneMonitorInv, [Next]_vars, NEW r, Monitors = {r}
    PROVE  OneMonitorInv' /\ FinalStays
<1> SUFFICES FreshInv' /\ TrackedInv' /\ FinalStays
  BY NextInd DEF OneMonitorInv
<1>1. CASE UNCHANGED <<doc, cursor, watcher, faults, monitor>>
  BY <1>1, EnvironmentFresh
<1>2. CASE Watch \/ SaveCursor \/ WatcherFails
  BY <1>2, WatcherFresh
<1>3. CASE SaveBatch
  BY <1>3, SaveBatchFresh
<1>4. CASE \E j \in Monitors : FetchDocs(j)
  BY <1>4, FetchDocsFresh
<1>5. CASE \E j \in Monitors : \/ MonitorStep(j) \/ SubmitUnderpriced(j)
                               \/ Timeout(j) \/ MonitorFails(j)
  <2>1. PICK j \in Monitors : \/ MonitorStep(j) \/ SubmitUnderpriced(j)
                              \/ Timeout(j) \/ MonitorFails(j)
    BY <1>5
  <2>2. Monitors = {j}
    OBVIOUS
  <2> QED
    BY <2>1, <2>2, MonitorFresh
<1>6. \/ UNCHANGED <<doc, cursor, watcher, faults, monitor>>
      \/ Watch \/ SaveCursor \/ WatcherFails \/ SaveBatch
      \/ \E j \in Monitors : \/ FetchDocs(j) \/ MonitorStep(j) \/ SubmitUnderpriced(j)
                             \/ Timeout(j) \/ MonitorFails(j)
  <2>1. Tick \/ Request \/ Mine => UNCHANGED <<doc, cursor, watcher, faults, monitor>>
    BY DEF Tick, Request, Mine
  <2>2. ASSUME NEW m \in Messages, \/ Index(m) \/ Verify(m) \/ ExecutionFails(m)
                                   \/ Deliver(m) \/ ShowDelivery(m)
        PROVE  UNCHANGED <<doc, cursor, watcher, faults, monitor>>
    BY <2>2 DEF Index, Verify, ExecutionFails, Deliver, ShowDelivery, Show
  <2>3. UNCHANGED vars => UNCHANGED <<doc, cursor, watcher, faults, monitor>>
    BY DEF vars
  <2> QED
    BY <2>1, <2>2, <2>3 DEF Next
<1> QED
  BY <1>1, <1>2, <1>3, <1>4, <1>5, <1>6

\* A document that left the tracked states is not written again, as long as no
\* run of the watcher has failed and runs of the monitor do not overlap,
\* whatever else fails: the next batches of the watcher are of messages that
\* have no document yet, and the monitor's snapshot holds none that left.
THEOREM FinalIsFinal ==
    ASSUME NEW r, Monitors = {r}
    PROVE  Spec => FinalUnlessRewatched
<1>1. Init => OneMonitorInv
  <2>1. Left(NothingLeft) = {}
    BY DEF Left, NothingLeft
  <2>2. Init => FreshInv /\ TrackedInv
    BY <2>1 DEF Init, FreshInv, TrackedInv, IdleWatcher, IdleMonitor, Exists, NothingLeft
  <2> QED
    BY <2>2, InitInd DEF OneMonitorInv
<1>2. OneMonitorInv /\ [Next]_vars => OneMonitorInv' /\ [FinalStays]_vars
  BY OneMonitorStep
<1>3. Spec => [][FinalStays]_vars
  BY <1>1, <1>2, PTL DEF Spec
<1> QED
  BY <1>3 DEF FinalUnlessRewatched, FinalStays
=============================================================================
