---------------------------- MODULE MintExecutor ----------------------------
(***************************************************************************)
(* The mint-executor job (packages/mint-executor).  Every MINT_INTERVAL_   *)
(* WEEKS it calls mint on the Minter contract, every TRANSFER_INTERVAL_    *)
(* WEEKS transferToLiquidity.  When it last did so it reads from the       *)
(* minterEvents collection of Firestore, to which it adds a record for     *)
(* each call it sees confirmed and, at the start of a run, for the first   *)
(* new log of either kind: an administrator may call Minter by hand, and a *)
(* run may stop before it has recorded a call of its own.                  *)
(*                                                                         *)
(* A block of L1 is known by the last log at or before it, its position in *)
(* `logs`: blocks without a log of Minter change nothing but whether the   *)
(* block range of a run is empty, which is left open where either can be.  *)
(* Both calls are sent by one wallet (tokenManager) at its latest nonce,   *)
(* so its mempool holds one transaction at most.                           *)
(***************************************************************************)
EXTENDS Integers, Sequences, FiniteSetsExt

CONSTANTS
    Jobs,           \* executions of the job that can be in flight together
    MintInterval,   \* MINT_INTERVAL_WEEKS, in days
    TransferInterval, \* TRANSFER_INTERVAL_WEEKS, in days
    MaxRetries,     \* TRANSACTION_MAX_RETRIES of a mint; a transfer has one try
    AvailableFrom,  \* MINT_AVAILABLE_FROM
    RpcLag,         \* logs by which the node that answers may be behind
    MaxDay,         \* bound: the last day
    MaxManual,      \* bound: calls an administrator makes
    MaxFaults,      \* bound: runs that fail, waits and requests that time out
    None            \* no transaction in the mempool; no owner

Ops == {"mint", "transferToLiquidity"}
Interval == [mint |-> MintInterval, transferToLiquidity |-> TransferInterval]
Attempts == [mint |-> MaxRetries, transferToLiquidity |-> 1]

ASSUME BoundsAssumption ==
    /\ MintInterval \in Nat \ {0} /\ TransferInterval \in Nat \ {0}
    /\ MaxRetries \in Nat \ {0}
    /\ {AvailableFrom, RpcLag, MaxDay, MaxManual, MaxFaults} \subseteq Nat

Txs == [op : Ops, owner : Jobs \cup {None}]

ASSUME NoneAssumption == None \notin Jobs /\ None \notin Txs

VARIABLES
    today,
    logs,       \* the Minted and TransferredToLiquidity logs, oldest first
    pending,    \* the wallet's transaction in the mempool, or None
    latest,     \* the latest record in minterEvents of each kind
    cursor,     \* events/minter.lastBlockNumber
    job,        \* the local variables of each run
    receipt,    \* the log of the transaction a run waits for, 0 before it
    faults

vars == <<today, logs, pending, latest, cursor, job, receipt, faults>>

NoRecord == [log |-> 0, day |-> 0]
NothingFound == [op \in Ops |-> 0]
Idle == [pc |-> "idle", cur |-> 0, found |-> NothingFound, due |-> {}, attempt |-> 0]

Init ==
    /\ today = 0
    /\ logs = <<>>
    /\ pending = None
    /\ latest = [op \in Ops |-> NoRecord]
    /\ cursor = 0
    /\ job = [j \in Jobs |-> Idle]
    /\ receipt = [j \in Jobs |-> 0]
    /\ faults = 0

-----------------------------------------------------------------------------
(* What a run computes.                                                    *)

\* getNewEvents keeps the first log of either kind in the block range.
FirstLog(op, from, to) ==
    LET ids == {i \in from..to : logs[i].op = op}
    IN  IF ids = {} THEN 0 ELSE Min(ids)

\* isNewEvent compares it with the latest record only.
NewLog(op, from, to) ==
    LET log == FirstLog(op, from, to)
    IN  IF log = latest[op].log THEN 0 ELSE log

\* Mutant: a day is over before its midnight.
ShouldExecute_DayEarly(op) ==
    IF latest[op] = NoRecord THEN today >= AvailableFrom
    ELSE today >= latest[op].day + Interval[op] - 1

\* shouldExecuteAction, at the midnight of both dates.
ShouldExecute(op) ==
    IF latest[op] = NoRecord THEN today >= AvailableFrom
    ELSE today >= latest[op].day + Interval[op]

\* addEvent: createdAt is the day of the record, not of the log.
AddRecord(op, log) == latest' = [latest EXCEPT ![op] = [log |-> log, day |-> today]]

\* The mint comes before the transfer.
Current(j) == IF "mint" \in job[j].due THEN "mint" ELSE "transferToLiquidity"

NextPc(due) == IF due = {} THEN "closing" ELSE "submitting"

-----------------------------------------------------------------------------
(* The environment: days, Minter and the mempool.                          *)

Tick ==
    /\ today < MaxDay
    /\ today' = today + 1
    /\ UNCHANGED <<logs, pending, latest, cursor, job, receipt, faults>>

\* An administrator calls Minter from another account.
ManualCall(op) ==
    /\ Cardinality({i \in DOMAIN logs : ~logs[i].auto}) < MaxManual
    /\ logs' = Append(logs, [op |-> op, day |-> today, auto |-> FALSE])
    /\ UNCHANGED <<today, pending, latest, cursor, job, receipt, faults>>

Mine ==
    /\ pending # None
    /\ logs' = Append(logs, [op |-> pending.op, day |-> today, auto |-> TRUE])
    /\ receipt' = [j \in Jobs |-> IF j = pending.owner THEN Len(logs) + 1 ELSE receipt[j]]
    /\ pending' = None
    /\ UNCHANGED <<today, latest, cursor, job, faults>>

-----------------------------------------------------------------------------
(* A run of the job.                                                       *)

\* The run waits for its transaction no more; it stays in the mempool.
Forget(j) ==
    /\ receipt' = [receipt EXCEPT ![j] = 0]
    /\ pending' = IF pending # None /\ pending.owner = j
                    THEN [pending EXCEPT !.owner = None] ELSE pending

\* performJob: the head is awaited first, then the cursor.
ReadHead(j) ==
    /\ job[j].pc = "idle"
    /\ \E b \in 0..Len(logs) :
         /\ Len(logs) - b <= RpcLag
         /\ job' = [job EXCEPT ![j] = [Idle EXCEPT !.pc = "started", !.cur = b]]
    /\ UNCHANGED <<today, logs, pending, latest, cursor, receipt, faults>>

\* processMinter: the block range may be empty when it holds no log.
SkipInvalidRange(j) ==
    /\ job[j].pc = "started"
    /\ cursor >= job[j].cur
    /\ job' = [job EXCEPT ![j] = Idle]
    /\ UNCHANGED <<today, logs, pending, latest, cursor, receipt, faults>>

\* processEvents up to isNewEvent.  Logs up to `cur` no longer change.
FetchNewEvents(j) ==
    /\ job[j].pc = "started"
    /\ cursor <= job[j].cur
    /\ job' = [job EXCEPT ![j].pc = "recording",
                          ![j].found = [op \in Ops |-> NewLog(op, cursor + 1, job[j].cur)]]
    /\ UNCHANGED <<today, logs, pending, latest, cursor, receipt, faults>>

\* saveNewEvents adds both records at once, in either order.
SaveNewEvent(j, op) ==
    /\ job[j].pc = "recording"
    /\ job[j].found[op] # 0
    /\ AddRecord(op, job[j].found[op])
    /\ job' = [job EXCEPT ![j].found[op] = 0]
    /\ UNCHANGED <<today, logs, pending, cursor, receipt, faults>>

\* Mutant: no transfer unless a mint is due.
Decide_MintFirst(j) ==
    LET due == {op \in Ops : ShouldExecute("mint") /\ ShouldExecute(op)}
    IN  /\ job[j].pc = "recording"
        /\ job[j].found = NothingFound
        /\ job' = [job EXCEPT ![j].pc = NextPc(due), ![j].due = due]
        /\ UNCHANGED <<today, logs, pending, latest, cursor, receipt, faults>>

\* executeAutomaticOperations: both dates are read before the mint.
Decide(j) ==
    LET due == {op \in Ops : ShouldExecute(op)}
    IN  /\ job[j].pc = "recording"
        /\ job[j].found = NothingFound
        /\ job' = [job EXCEPT ![j].pc = NextPc(due), ![j].due = due]
        /\ UNCHANGED <<today, logs, pending, latest, cursor, receipt, faults>>

\* submitMintWithRetry: the transaction takes the wallet's latest nonce and
\* replaces the one in the mempool, whatever that one calls.
Submit(j) ==
    /\ job[j].pc = "submitting"
    /\ pending' = [op |-> Current(j), owner |-> j]
    /\ job' = [job EXCEPT ![j].pc = "waiting"]
    /\ UNCHANGED <<today, logs, latest, cursor, receipt, faults>>

\* Mutant: one attempt too many.
Retry_OneMore(j) ==
    job' = [job EXCEPT ![j] = IF @.attempt = Attempts[Current(j)] THEN Idle
                              ELSE [@ EXCEPT !.pc = "submitting", !.attempt = @ + 1]]

\* The catch block of mint and transferToLiquidity.
Retry(j) ==
    LET next == job[j].attempt + 1
    IN  job' = [job EXCEPT ![j] =
                  IF next = Attempts[Current(j)] THEN Idle
                  ELSE [@ EXCEPT !.pc = "submitting", !.attempt = next]]

\* "replacement fee too low": the mempool keeps the transaction it has.
SubmitUnderpriced(j) ==
    /\ job[j].pc = "submitting"
    /\ pending # None
    /\ Retry(j)
    /\ UNCHANGED <<today, logs, pending, latest, cursor, receipt, faults>>

\* A request of the attempt, or the wait for the receipt, times out.
Timeout(j) ==
    /\ job[j].pc \in {"submitting", "waiting"}
    /\ faults < MaxFaults
    /\ faults' = faults + 1
    /\ Retry(j)
    /\ Forget(j)
    /\ UNCHANGED <<today, logs, latest, cursor>>

\* The confirmed call is recorded, and the other one is next.
Record(j) ==
    LET op == Current(j)
        rest == job[j].due \ {op}
    IN  /\ job[j].pc = "waiting"
        /\ receipt[j] # 0
        /\ AddRecord(op, receipt[j])
        /\ job' = [job EXCEPT ![j].pc = NextPc(rest), ![j].due = rest, ![j].attempt = 0]
        /\ receipt' = [receipt EXCEPT ![j] = 0]
        /\ UNCHANGED <<today, logs, pending, cursor, faults>>

\* updateEventState: the head of the run, from before its own calls.
Close(j) ==
    /\ job[j].pc = "closing"
    /\ cursor' = job[j].cur
    /\ job' = [job EXCEPT ![j] = Idle]
    /\ UNCHANGED <<today, logs, pending, latest, receipt, faults>>

\* Any other error, or the container is killed.
Fail(j) ==
    /\ job[j].pc # "idle"
    /\ faults < MaxFaults
    /\ faults' = faults + 1
    /\ job' = [job EXCEPT ![j] = Idle]
    /\ Forget(j)
    /\ UNCHANGED <<today, logs, latest, cursor>>

Step(j) ==
    \/ SkipInvalidRange(j)
    \/ FetchNewEvents(j) \/ \E op \in Ops : SaveNewEvent(j, op)
    \/ Decide(j) \/ Submit(j) \/ Record(j) \/ Close(j)

Next ==
    \/ Tick \/ Mine \/ \E op \in Ops : ManualCall(op)
    \/ \E j \in Jobs : \/ ReadHead(j) \/ Step(j)
                       \/ SubmitUnderpriced(j) \/ Timeout(j) \/ Fail(j)

Spec == Init /\ [][Next]_vars

-----------------------------------------------------------------------------
(* Properties.                                                             *)

PCs == {"idle", "started", "recording", "submitting", "waiting", "closing"}
Runs == [pc : PCs, cur : Nat, found : [Ops -> Nat], due : SUBSET Ops, attempt : 0..MaxRetries - 1]

\* Type invariant of the state above; positions point into `logs`.
TypeOK ==
    /\ today \in 0..MaxDay
    /\ logs \in Seq([op : Ops, day : 0..today, auto : BOOLEAN])
    /\ pending \in Txs \cup {None}
    /\ latest \in [Ops -> [log : 0..Len(logs), day : 0..today]]
    /\ cursor \in 0..Len(logs)
    /\ job \in [Jobs -> Runs]
    /\ receipt \in [Jobs -> 0..Len(logs)]
    /\ faults \in 0..MaxFaults

\* Calls of the job that come before the interval since an earlier call of
\* the job is over.
Premature ==
    {k \in DOMAIN logs :
       /\ logs[k].auto
       /\ \E i \in 1..k - 1 : /\ logs[i].auto
                              /\ logs[i].op = logs[k].op
                              /\ logs[k].day < logs[i].day + Interval[logs[k].op]}

\* Runs one after the other keep the intervals, and each fault (a killed
\* run, a transaction mined after its wait, a request that times out) costs
\* at most one call too many, whatever an administrator calls in between.
PrematureBounded == Cardinality(Premature) <= faults

\* In the end no call is due any more: neither a fault, nor a log recorded
\* late or twice, nor one call waiting behind the other stops the schedule.
CaughtUp == <>[](\A op \in Ops : ~ShouldExecute(op))

\* The scheduler keeps starting runs, the node is not behind for ever and
\* its blocks go on, a run that does not fail goes on, and a transaction in
\* the mempool is mined.
ReadLatestHead(j) == ReadHead(j) /\ job'[j].cur = Len(logs)

FairSpec ==
    /\ Spec
    /\ WF_vars(Mine)
    /\ \A j \in Jobs : /\ SF_vars(ReadLatestHead(j))
                       /\ SF_vars(FetchNewEvents(j))
                       /\ WF_vars(Step(j))
=============================================================================
