--------------------------- MODULE DepositAnalyzer ---------------------------
(***************************************************************************)
(* The deposit-analyzer job (packages/deposit-analyzer).  Users deposit    *)
(* into the Liquidity contract on L1; each run of the job reads the        *)
(* Deposited logs after the block number it saved last in Firestore (the   *)
(* cursor), cuts the deposit ids into batches, and for every batch sends   *)
(* relayDeposits(upToDepositId, gasLimit), waits for its receipt and saves *)
(* the block number of the batch as the new cursor.                        *)
(*                                                                         *)
(* The chain is external: deposit ids count up from 1, a block holds any   *)
(* number of deposits, and relayDeposits(u) relays every deposit up to u.  *)
(* It reverts on an id that is relayed already or does not exist yet (the  *)
(* errors OutOfRange and AlreadyRelayed of Liquidity.json).  All runs of  *)
(* the job use one wallet and send at its latest nonce, so its mempool     *)
(* holds one transaction at most: a later one replaces it.                 *)
(*                                                                         *)
(* A run keeps nothing but local variables.  Whatever makes it throw, a    *)
(* failed RPC or Firestore call, a lost nonce race, a killed container,    *)
(* ends it where it stands (Fail), and the scheduler starts another one.   *)
(* Runs may overlap: Jobs is the set of executions that can be in flight.  *)
(***************************************************************************)
EXTENDS Integers, FiniteSetsExt

CONSTANTS
    Jobs,           \* executions of the job that can be in flight together
    BatchSize,      \* MAX_DEPOSIT_BATCH_SIZE
    MaxAttempts,    \* TRANSACTION_MAX_RETRIES
    DeployedBlock,  \* LIQUIDITY_CONTRACT_DEPLOYED_BLOCK
    RpcLag,         \* blocks by which the node that answers may be behind
    MaxPerBlock,    \* deposits one block can hold
    MaxDeposits,    \* bound: deposits ever made
    MaxEmptyBlocks, \* bound: no empty block is mined from this height on
    MaxFaults,      \* bound: faults, of a run or of a request
    None            \* no transaction in the mempool; no owner

ASSUME BoundsAssumption ==
    /\ BatchSize \in Nat \ {0}
    /\ MaxAttempts \in Nat \ {0}
    /\ DeployedBlock \in Nat \ {0}
    /\ RpcLag \in Nat
    /\ MaxPerBlock \in Nat \ {0}
    /\ MaxDeposits \in Nat
    /\ MaxEmptyBlocks \in Nat
    /\ MaxFaults \in Nat

RelayTx == [upTo : Nat, num : Int, owner : Jobs \cup {None}]

ASSUME NoneAssumption == None \notin Jobs /\ None \notin RelayTx

VARIABLES
    \* Liquidity on L1
    head,           \* the latest block
    lastDepositId,  \* deposits made so far
    depositBlock,   \* the block that holds the Deposited log of an id
    lastRelayed,    \* getLastRelayedDepositId()
    relayEvents,    \* the DepositsRelayed logs
    pending,        \* the wallet's transaction in the mempool, or None
    \* Firestore
    cursor,         \* events/deposited.lastBlockNumber, 0 before the first save
    \* the runs of the job
    job,            \* the local variables of each run
    receipt,        \* whether the transaction a run waits for is mined
    faults

chainVars == <<head, lastDepositId, depositBlock, lastRelayed, relayEvents>>
vars == <<chainVars, pending, cursor, job, receipt, faults>>

Idle == [pc |-> "idle", cur |-> 0, next |-> 0, max |-> 0, attempt |-> 0]

Init ==
    /\ head = DeployedBlock
    /\ lastDepositId = 0
    /\ depositBlock = [d \in 1..0 |-> 0]
    /\ lastRelayed = 0
    /\ relayEvents = {}
    /\ pending = None
    /\ cursor = 0
    /\ job = [j \in Jobs |-> Idle]
    /\ receipt = [j \in Jobs |-> FALSE]
    /\ faults = 0

-----------------------------------------------------------------------------
(* What a run computes from the logs.                                      *)

\* Mutant: the block after the cursor is taken for processed.
StartBlock_OffByOne(c) == IF c = 0 THEN DeployedBlock ELSE c + 2

\* getStartBlockNumber: a cursor of 0 is falsy, like a missing document.
StartBlock(c) == IF c = 0 THEN DeployedBlock ELSE c + 1

MaxDepositId(ids) == IF ids = {} THEN 0 ELSE Max(ids)

DepositIdsIn(from, to) ==
    {d \in 1..lastDepositId : from <= depositBlock[d] /\ depositBlock[d] <= to}

RelayedIdsIn(from, to) ==
    {e.upTo : e \in {r \in relayEvents : from <= r.block /\ r.block <= to}}

\* readContract("getLastRelayedDepositId", blockNumber: b)
LastRelayedAt(b) == MaxDepositId(RelayedIdsIn(0, b))

\* getDepositedEvent: only a run without a cursor drops relayed deposits.
DepositedEvents(c, cur) ==
    LET ids == DepositIdsIn(StartBlock(c), cur)
    IN  IF c = 0 THEN {d \in ids : d > LastRelayedAt(cur)} ELSE ids

\* splitDepositSummary walks the ids from the smallest to the largest; the
\* batch that starts at id `next` is the last one when it reaches `max`.
IsLastBatch(next, max) == next + BatchSize > max
BatchUpTo(next, max) == IF IsLastBatch(next, max) THEN max ELSE next + BatchSize - 1
NumDepositsToRelay(next, max) == BatchUpTo(next, max) - next + 1

\* Mutant: every batch leaves the head of the run.
BatchBlock_Head(next, max, cur) == cur

\* The cursor a batch leaves: the head of the run for the last batch, the
\* block of its last deposit for the others.
BatchBlock(next, max, cur) ==
    IF IsLastBatch(next, max) THEN cur ELSE depositBlock[BatchUpTo(next, max)]

-----------------------------------------------------------------------------
(* The chain: Liquidity and the mempool.                                   *)

\* relayDeposits(u) does not revert.
Relayable(u) == lastRelayed < u /\ u <= lastDepositId

\* A block with n deposits and, if `mined`, the wallet's transaction.
MineBlock(n, mined) ==
    /\ mined => pending # None
    /\ lastDepositId + n <= MaxDeposits
    /\ n > 0 \/ mined \/ head < MaxEmptyBlocks
    /\ head' = head + 1
    /\ lastDepositId' = lastDepositId + n
    /\ depositBlock' = [d \in 1..(lastDepositId + n) |->
                          IF d <= lastDepositId THEN depositBlock[d] ELSE head + 1]
    /\ IF mined /\ Relayable(pending.upTo)
         THEN /\ lastRelayed' = pending.upTo
              /\ relayEvents' = relayEvents \cup
                                  {[block |-> head + 1, upTo |-> pending.upTo]}
              /\ receipt' = [j \in Jobs |-> receipt[j] \/ j = pending.owner]
         ELSE UNCHANGED <<lastRelayed, relayEvents, receipt>>
    /\ pending' = IF mined THEN None ELSE pending
    /\ UNCHANGED <<cursor, job, faults>>

MineDeposits == \E n \in 0..MaxPerBlock : MineBlock(n, FALSE)
MineRelay == \E n \in 0..MaxPerBlock : MineBlock(n, TRUE)

-----------------------------------------------------------------------------
(* A run of the job.                                                       *)

\* The run ends; nobody waits for its transaction any more, which stays in
\* the mempool.
Forget(j) ==
    /\ receipt' = [receipt EXCEPT ![j] = FALSE]
    /\ pending' = IF pending # None /\ pending.owner = j
                    THEN [pending EXCEPT !.owner = None] ELSE pending

\* performJob: the head is awaited first, then the cursor.
ReadHead(j) ==
    /\ job[j].pc = "idle"
    /\ \E b \in DeployedBlock..head :
         /\ head - b <= RpcLag
         /\ job' = [job EXCEPT ![j] = [Idle EXCEPT !.pc = "started", !.cur = b]]
    /\ UNCHANGED <<chainVars, pending, cursor, receipt, faults>>

\* processAnalyzer: an empty block range ends the run.
SkipInvalidRange(j) ==
    /\ job[j].pc = "started"
    /\ StartBlock(cursor) > job[j].cur
    /\ job' = [job EXCEPT ![j] = Idle]
    /\ UNCHANGED <<chainVars, pending, cursor, receipt, faults>>

\* processAnalyzer, from reading the cursor to splitDepositSummary.  Logs up
\* to `cur` no longer change, so fetching them is one step.
Analyze(j) ==
    /\ job[j].pc = "started"
    /\ StartBlock(cursor) <= job[j].cur
    /\ LET cur == job[j].cur
           ids == DepositedEvents(cursor, cur)
           relayed == MaxDepositId(RelayedIdsIn(StartBlock(cursor), cur))
       IN  job' = [job EXCEPT ![j] =
             IF ids = {} THEN [@ EXCEPT !.pc = "closing"]
             ELSE IF relayed >= Max(ids) THEN Idle
             ELSE [@ EXCEPT !.pc = "submitting", !.next = Min(ids), !.max = Max(ids)]]
    /\ UNCHANGED <<chainVars, pending, cursor, receipt, faults>>

\* No new deposits: the cursor moves to the head of the run.
SaveEmptyRange(j) ==
    /\ job[j].pc = "closing"
    /\ cursor' = job[j].cur
    /\ job' = [job EXCEPT ![j] = Idle]
    /\ UNCHANGED <<chainVars, pending, receipt, faults>>

\* Mutant: a transaction with a fixed gas limit is not estimated.
Submit_NoEstimate(j) ==
    LET u == BatchUpTo(job[j].next, job[j].max)
    IN  /\ job[j].pc = "submitting"
        /\ pending' = [upTo |-> u, owner |-> j,
                       num |-> NumDepositsToRelay(job[j].next, job[j].max)]
        /\ job' = [job EXCEPT ![j].pc = "waiting"]
        /\ UNCHANGED <<chainVars, cursor, receipt, faults>>

\* submitRelayDepositsWithRetry: gas estimation passes and the transaction
\* takes the wallet's latest nonce, replacing the one in the mempool.
Submit(j) ==
    LET u == BatchUpTo(job[j].next, job[j].max)
    IN  /\ job[j].pc = "submitting"
        /\ Relayable(u)
        /\ pending' = [upTo |-> u, owner |-> j,
                       num |-> NumDepositsToRelay(job[j].next, job[j].max)]
        /\ job' = [job EXCEPT ![j].pc = "waiting"]
        /\ UNCHANGED <<chainVars, cursor, receipt, faults>>

\* Mutant: the last attempt is followed by one more.
Retry_OneMore(j) ==
    LET next == job[j].attempt + 1
    IN  job' = [job EXCEPT ![j] =
                  IF next > MaxAttempts THEN Idle
                  ELSE [@ EXCEPT !.pc = "submitting", !.attempt = next]]

\* The catch block of submitRelayDeposits for an error worth a retry.
Retry(j) ==
    LET next == job[j].attempt + 1
    IN  job' = [job EXCEPT ![j] =
                  IF next = MaxAttempts THEN Idle
                  ELSE [@ EXCEPT !.pc = "submitting", !.attempt = next]]

\* Gas estimation reverts.  The error ends the run, unless the node left its
\* reason out ("missing revert data"): that is tried again.
SubmitReverts(j) ==
    /\ job[j].pc = "submitting"
    /\ ~Relayable(BatchUpTo(job[j].next, job[j].max))
    /\ Retry(j) \/ job' = [job EXCEPT ![j] = Idle]
    /\ UNCHANGED <<chainVars, pending, cursor, receipt, faults>>

\* "replacement fee too low": the mempool keeps the transaction it has.
SubmitUnderpriced(j) ==
    /\ job[j].pc = "submitting"
    /\ pending # None
    /\ Retry(j)
    /\ UNCHANGED <<chainVars, pending, cursor, receipt, faults>>

\* A request of the attempt times out.  One that was sent all the same is a
\* Submit with a WaitTimeout after it.
RequestTimeout(j) ==
    /\ job[j].pc = "submitting"
    /\ faults < MaxFaults
    /\ faults' = faults + 1
    /\ Retry(j)
    /\ UNCHANGED <<chainVars, pending, cursor, receipt>>

\* The receipt did not arrive in 30 s, though it may be mined by now.
WaitTimeout(j) ==
    /\ job[j].pc = "waiting"
    /\ Retry(j)
    /\ Forget(j)
    /\ UNCHANGED <<chainVars, cursor, faults>>

Confirm(j) ==
    /\ job[j].pc = "waiting"
    /\ receipt[j]
    /\ job' = [job EXCEPT ![j].pc = "saving"]
    /\ receipt' = [receipt EXCEPT ![j] = FALSE]
    /\ UNCHANGED <<chainVars, pending, cursor, faults>>

\* updateEventState after a batch, and on to the next batch.
SaveBatch(j) ==
    LET run == job[j]
        next == BatchUpTo(run.next, run.max) + 1
    IN  /\ run.pc = "saving"
        /\ cursor' = BatchBlock(run.next, run.max, run.cur)
        /\ job' = [job EXCEPT ![j] =
                     IF IsLastBatch(run.next, run.max) THEN Idle
                     ELSE [run EXCEPT !.pc = "submitting", !.next = next, !.attempt = 0]]
        /\ UNCHANGED <<chainVars, pending, receipt, faults>>

\* Any other error, or the container is killed.
Fail(j) ==
    /\ job[j].pc # "idle"
    /\ faults < MaxFaults
    /\ faults' = faults + 1
    /\ job' = [job EXCEPT ![j] = Idle]
    /\ Forget(j)
    /\ UNCHANGED <<chainVars, cursor>>

Step(j) ==
    \/ SkipInvalidRange(j) \/ Analyze(j) \/ SaveEmptyRange(j)
    \/ Submit(j) \/ SubmitReverts(j) \/ Confirm(j) \/ SaveBatch(j)

Next ==
    \/ MineDeposits \/ MineRelay
    \/ \E j \in Jobs : \/ ReadHead(j) \/ Step(j) \/ Fail(j)
                       \/ SubmitUnderpriced(j) \/ RequestTimeout(j) \/ WaitTimeout(j)

Spec == Init /\ [][Next]_vars

-----------------------------------------------------------------------------
(* Properties.                                                             *)

PCs == {"idle", "started", "closing", "submitting", "waiting", "saving"}
Runs == [pc : PCs, cur : Nat, next : Nat, max : Nat, attempt : 0..MaxAttempts - 1]
RelayEvents == [block : Nat, upTo : Nat]

\* Type invariant of the state above.
TypeOK ==
    /\ head \in Nat
    /\ lastDepositId \in Nat
    /\ depositBlock \in [1..lastDepositId -> Nat]
    /\ lastRelayed \in Nat
    /\ relayEvents \subseteq RelayEvents
    /\ pending \in RelayTx \cup {None}
    /\ cursor \in Nat
    /\ job \in [Jobs -> Runs]
    /\ receipt \in [Jobs -> BOOLEAN]
    /\ faults \in 0..MaxFaults

\* Deposits the contract still holds back although no later run that starts
\* after cursor c will look at their block again.
LeftBehind(c) == {d \in lastRelayed + 1..lastDepositId : depositBlock[d] <= c}

\* The cursor passes a deposit that is not relayed only if the same block
\* holds the last relayed deposit: a batch ended in the middle of the block
\* and the run stopped before its next batch.  No block is skipped whole,
\* whatever runs overlap and wherever they stop.
NoBlockSkipped ==
    \A d \in LeftBehind(cursor) :
        lastRelayed > 0 /\ depositBlock[d] = depositBlock[lastRelayed]

\* A transaction the job has broadcast does not revert when it is mined: no
\* other run, retry or crash makes relayDeposits(upToDepositId) stale while
\* it waits in the mempool.
BroadcastRelayable == pending # None => Relayable(pending.upTo)

\* The gas limit given to relayDeposits covers the deposits it relays but for
\* those left behind in one block: numDepositsToRelay is short of them by
\* less than the deposits of a block.
GasShortfallBounded ==
    [][lastRelayed' # lastRelayed =>
         lastRelayed' - lastRelayed < pending.num + MaxPerBlock]_vars

\* No deposit is left behind while no run is under way.  Holds on chains whose
\* blocks have one deposit at most; else a batch may end inside a block, and a
\* run that stops there leaves the rest of the block behind.
NoDepositLeftBehind ==
    (\A j \in Jobs : job[j].pc = "idle") => LeftBehind(cursor) = {}

\* Every deposit is relayed in the end.
AllRelayed ==
    \A d \in 1..MaxDeposits : lastDepositId >= d ~> lastRelayed >= d

\* The scheduler keeps starting runs, the node that answers is not behind
\* for ever, a run that does not fail goes on, and a transaction in the
\* mempool is mined.
ReadLatestHead(j) == ReadHead(j) /\ job'[j].cur = head

FairSpec ==
    /\ Spec
    /\ WF_vars(MineRelay)
    /\ \A j \in Jobs : SF_vars(ReadLatestHead(j)) /\ WF_vars(Step(j))
=============================================================================
