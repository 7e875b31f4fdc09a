# A TLA+ verification of intmax2-function

intmax2-function is the set of off-chain services of the INTMAX2 rollup: 19
packages beside a library, `packages/shared`.  Four serve HTTP; the others are
jobs a scheduler starts again and again, which read a chain or an API, send
transactions, and keep what they must remember in Firestore.  This directory
holds TLA+ modules of these services, TLC configurations that check them, and
proofs for TLAPS.

## 1. The system

### Components

| package | state it keeps | what it does |
|---|---|---|
| `deposit-analyzer` | cursor `events/deposited` | reads `Deposited` logs after the cursor, cuts their ids into batches, sends `relayDeposits(upToDepositId, gasLimit)` for each and saves a cursor after each |
| `mint-executor` | `minterEvents`, cursor `events/minter` | records the first new log of each kind, calls `mint` every 4 weeks and `transferToLiquidity` every week |
| `bridge-event-watcher` | cursor `events/bridgeRequested-<chain>`; writes `bridgeTransactions` | one QUEUED document per `BridgeRequested` log |
| `bridge-monitor` | `bridgeTransactions` | polls the LayerZero scan API for each tracked document; clears, retries or alerts |
| `indexer-event-watcher` | `indexers/builders/addresses`, cursor | upserts a builder for each heartbeat log |
| `indexer-monitor` | the same documents | health checks of builders seen in 24 hours; sets `active` of all |
| `indexer-cache-validator` | the same documents, Redis cache | checks the cached builder list again; corrects documents and cache |
| `indexer` | Redis cache | HTTP API that lists active builders |
| `token-map-register` | `tokenMaps`, cursor with the last deposit id | token info of newly relayed deposits |
| `token-metadata-sync` | a file in cloud storage | CoinGecko token list |
| `token` | list of prices in memory, timers | HTTP API of prices and token maps |
| `mock-l1-to-l2-relayer`, `mock-l2-to-l1-relayer` | a cursor each | test networks: replay `SentMessage` logs on the other chain; cursor after the last message |
| `messenger-relayer` | none | claims what the Scroll API lists as claimable |
| `tx-map`, `tx-map-cleaner` | `txMaps` with `expiresAt` | HTTP save and get; the cleaner deletes expired documents |
| `predicate` | none | HTTP proxy with retries |
| `block-sync-monitor`, `wallet-observer` | none | compare block numbers, read balances, alert on Discord |
| `shared` | none of its own | Firestore classes, block ranges and logs, wallets, nonces, fees, sending and waiting, cache, alerts, shutdown |

### How they interact

Jobs do not call each other.  They meet in three places: Firestore documents
(the watcher and the monitor of the bridge; four packages in the builder
registry; the cleaner and the API of `txMaps`), the chain (`token-map-register`
reads what `deposit-analyzer` caused), and the wallets: `tokenManager` sends
both calls of `mint-executor`, and two runs of one job share its wallet.
Nothing takes a lock; only the two updates of `active` are Firestore
transactions.

### What is hard

* **A run may stop anywhere.**  An error that is not caught ends the process
  (`index.ts` of each job), and its container may be killed.  What it had saved
  by then is all the next run knows.
* **Runs may overlap.**  Nothing in the code stops the scheduler from starting a
  run before the last one is over.
* **A transaction outlives its wait.**  After 30 seconds a run gives up waiting,
  yet the transaction stays in the mempool, to be replaced or mined.
* **Answers lag.**  RPC nodes may be behind each other, the LayerZero scan API is
  behind the chain.
* **Others act too.**  Anybody may deliver a bridge message; an administrator may
  call Minter.

`PROJECT.json` lists each hazard at its line with the properties that watch it.
What makes each modelled component correct:

* deposit-analyzer: no deposit falls behind the cursor; what it broadcasts does
  not revert; the gas limit fits; every deposit is relayed in the end.
* mint-executor: no call before its interval is over; no due call is forgotten.
* bridge: a document leaves the tracked states only if its message is settled;
  only failed messages are cleared; settled documents stay so; every message
  settles, unless a 404 gives it up or polls renew its `verifiedAt` for ever.
* builder registry: only builders that passed a check are active or listed; one
  that goes down leaves the documents and the cached list, one that is up comes
  back; no heartbeat is lost.
* token-map-register: no token is missed by either part of the cursor, however
  it moves; every relayed token is registered in the end, unless something a run
  cannot get past is in its way.
* relayers: no message falls behind the cursor; deposits and withdrawals arrive
  in order and once; every message comes through but for refused ones and, without
  decoding, those whose request failed.
* reading of logs: each log once and in order, whichever requests fail.
* sending: one transaction of a call waits to be mined at a time; a retry is
  taken as a replacement.
* tx-map: a document goes early only if it was renewed under the cleaner; what
  has expired is served to nobody in the end.
* token feed: decimals are true unless a call failed; the prices in memory come
  to be those of the last file.
* token lists: a walk through the pages sees each token once, unless a new file
  leaves tokens out or puts them in another order.
* health check: the fit builders and no others, past failed requests.
* watching jobs: what stays wrong is reported.

## 2. Modules

    BridgeRelay      <-- MCBridgeRelay,      BridgeRelayProofs
    BuilderRegistry  <-- MCBuilderRegistry,  BuilderRegistryProofs
    MintExecutor     <-- MCMintExecutor,     MintExecutorProofs
    TokenMapRegister <-- MCTokenMapRegister, TokenMapRegisterProofs
    MessageRelay     <-- MCMessageRelay,     MessageRelayProofs
      implements OrderedDelivery
    DepositAnalyzer  <-- MCDepositAnalyzer
    DepositPipeline = DepositAnalyzer with an instance of TokenMapRegister,
      which it implements
                     <-- MCDepositPipeline,  DepositPipelineProofs
    Services        = instances of TxMap, BlockRanges, TxSubmission, TokenFeed,
                      TokenApi, HealthCheck, Alerts
                     <-- MCServices,         ServicesProofs
    TokenApi         <-- MCTokenApi

    Lists: filtered and sorted lists, for TokenFeed and TokenApi
    CollectionLemmas: numbers, induction and sequences, for the proofs

An MC module gives the constants their values for TLC, a Proofs module has the
theorems that TLAPS checks.

In each module the variables fall into what is external (the chain, the
mempool, LayerZero), what is in Firestore, and the local variables of each run,
a record with a `pc` that names the next step.  An action is the code between
two points where others can act: one request to the chain or Firestore that
changes something, or reads something that can change, with all the computation
after it.  Reads of logs below a block already known are no such points, since
these logs are final for the code.

### DepositAnalyzer

| in the module | in the code |
|---|---|
| `cursor` | `events/deposited.lastBlockNumber`; 0 stands for no document |
| `job[j]`: `cur`, `next`, `max`, `attempt` | `currentBlockNumber`; the smallest id of the next batch and the largest id, which determine `batches`; the loop variable of `submitRelayDeposits` |
| `depositBlock`, `relayEvents` | the `Deposited` and `DepositsRelayed` logs |
| `pending`, `receipt` | the wallet's transaction at its latest nonce; what `waitForTransaction` would return |
| `ReadHead`, `SkipInvalidRange`, `Analyze`, `SaveEmptyRange` | `performJob` and `processAnalyzer` down to its loop |
| `Submit`, `SubmitReverts`, `SubmitUnderpriced`, `RequestTimeout`, `WaitTimeout`, `Confirm`, `Retry` | `submitRelayDeposits`, its `WithRetry` half and the `ethers` helpers of `shared` |
| `SaveBatch` | `updateEventState` inside the loop |
| `Fail` | any other error, or a kill |

A batch is not stored: `splitDepositSummary` makes batches of consecutive ids
from the smallest to the largest, so `BatchUpTo`, `NumDepositsToRelay` and
`BatchBlock` give the batch that starts at `next`.

### MintExecutor

A block of L1 is named by the number of Minter logs up to it.  `latest` is what
`getLatestEventByType` returns; older records are never read.  Days stand for
the midnights that `setHours` rounds to.  A revert of a call (the contract's own
conditions are not in the repository) ends the run like any other error, `Fail`.

### BridgeRelay

The watcher and the monitor in one module, since they share
`bridgeTransactions`.  `payload` is the state of a message at the endpoint on
L1, `api` what the scan API shows; a cleared message is shown as delivered, for
the endpoint emits the same event.  `snapshot` is what is left of the list the
monitor read at its start.  INFLIGHT also stands for CONFIRMING and BLOCKED.
Alerts are left out, and with them `createdAt`, which only decides about alerts.
`Throw` is the catch block of `processBridgeTransaction`, with its test for
"404" in the text of the error.  Whether a VERIFIED message is overdue is decided
once, when its status is handled (`CheckStatus`); what `Update` writes of it,
`verifiedAt`, is part of the run until then.

### BuilderRegistry

Four programs in one module, since they write the same documents and one cache
entry.

| in the module | in the code |
|---|---|
| `doc[b]`: `synced`, `active` | the document of a builder under `indexers/builders/addresses`: `lastSyncedTime`, `active` |
| `cursor`, `beats` | `events/blockBuilderHeartBeat.lastBlockNumber`; the heartbeat logs, a block being named by the number of logs up to it |
| `cache` | the builders in the cached response of the list |
| `watcher`, `Watch`, `Upsert`, `SaveCursor` | `performJob` of indexer-event-watcher |
| `monitor`, `FetchRecent`, `MonitorCheck`, `Sync` | `performJob` of indexer-monitor with `syncIndexerActiveStates` |
| `validator`, `ReadCache` ... `SetCache` | `performJob` of indexer-cache-validator with `updateIndexerStates` |
| `request[r]`, `Miss`, `ListBuilders`, `Store` | a request for the list that misses the cache; `Selections` is `getBuildersByMode` |
| `Batches`, `Check`, `Drop` | `processMonitor`, shared by monitor and validator |

Whether a builder passes a health check (`healthy`) changes at any moment.
`passed` is a history variable that no step reads.  The cache entry may expire at
any moment, so its remaining lifetime, which `SetCache` keeps, is not counted.
What a random choice or a shuffle may return is a set of selections.

### TokenMapRegister

| in the module | in the code |
|---|---|
| `mapCursor`: `block`, `upTo` | `events/depositsRelayedTokenMaps`: `lastBlockNumber`, `lastUpToDepositId` |
| `tokenMaps` | the documents of `tokenMaps`, by token index |
| `ReadHead`, `SkipRange`, `Collect` | `performJob` down to `fetchUnprocessedDepositTokenEntries` |
| `Searchable` | the search of `calculateDepositStartNumber` for the block of the first new deposit |
| `FilterNew`, `StoreMaps` | `filterNewERC20Tokens`, `fetchTokenMetadata`, `saveTokenMapsBatch` |
| `SaveHead`, `SaveCursor` | `updateEventData` without and with new deposits |

`Chain` is what the job assumes of Liquidity: ids count up and relays reach
further and further.  A node that is behind makes a run save a block before the
cursor, beside an id that stays.

A run throws before it saves anything in three cases that no later run is sure to
get past: the search does not reach back to the first new deposit (`Searchable`),
the new deposits bring more token indexes than an `in` filter holds (`InLimit`),
or the contract of a new token never answers `decimals()` or `symbol()`
(`NoMetadata`).  `Obstructed` says of a state that a run which starts there meets
one of them.

### DepositPipeline

The analyzer and the register share the chain only.  `DepositPipeline` lets
both take steps on it: blocks and relays come from `DepositAnalyzer`, and
`Chain` of TokenMapRegister is no longer assumed.  `ImplementsRegister` is the
refinement `Map!Spec`, with the variables of the chain mapped to those of the
same name: what the analyzer makes Liquidity do is a behaviour of `Chain`.  It is
checked on an instance and proved in general.

### MessageRelay

Three programs with one loop.  `kind` is the program: "decoded" and "undecoded"
are mock-l1-to-l2-relayer with and without
`MOCK_L1_SENDER_EVENT_DECODE_ENABLED`, "l2" is mock-l2-to-l1-relayer,
"messenger" is messenger-relayer.

| in the module | in the code |
|---|---|
| `cursor` | the cursor document of the mock relayers, in logs |
| `job[j]`: `todo`, `attempt`, `page`, `type` | the calls or pages of `performJob`, the loop variable of the submission, the messenger type of the command line |
| `executed`, `indexed` | the calls the target contract executed; how many the Scroll API knows of |
| `dropped` | history: the messages the undecoded variant passed over after a failed request (`PassesOver`) |
| `StartL1ToL2`, `StartL2ToL1`, `StartPaging`, `FetchPage` | `performJob` of the three jobs down to the calls |
| `SubmitToL2`, `SubmitToL1`, `SubmitClaim`, `AlreadyExecuted`, `EstimateReverts`, `Refuse...` | the three submissions and their catch blocks |
| `SaveCursor` | the update after the last call |

messenger-relayer has no gas estimate: it fixes the gas limit, so a refused
claim is mined and fails, where the mock relayers do not send at all.  The two
messenger types are one program with one wallet.

`OrderedDelivery` is what the relay of deposits and of withdrawals promises, with
nothing of how it is done: items are posted, and those that arrive on the other
side are the first of them, in order and each once.  The mapping takes `posted`
for the last item of the messages sent and `arrived` for the items the executed
calls carry, one call after the other.  `ImplementsDelivery` says that every step
of MessageRelay is a step of OrderedDelivery or none: what a run cuts, skips, sends
again or replaces shows nothing, and one mined call shows as one `Arrive`.  It is
checked on an instance and proved in general.

### Services

Seven small modules that share no state with one another or with the jobs.  What
one does no other can see, so a behaviour of all of them is a behaviour of each
with stuttering; `Services` has an instance of each and a variable `part` that
says which one moves, and the others stay at their first state.

| module | code | an action is |
|---|---|---|
| `TxMap` | `db/txMap.ts`, `packages/tx-map`, `packages/tx-map-cleaner` | a save, a unit of time, a step of a read through the cache, the cleaner's list or one batch of its deletes |
| `BlockRanges` | `blockchain/utils.ts` | one batch of parallel requests, or the failure of one and the start anew with half the range |
| `TxSubmission` | `blockchain/nonce.ts`, `calculate.ts`, `ethers.ts` and the submission loop all jobs repeat | the question for nonce and fees, the send, the wait, and what the network does |
| `TokenFeed` | `packages/token-metadata-sync`, `lib/tokenPrice.ts` of `packages/token` | one request of the sync or the upload; one await of a fetch, a timer, the shutdown |
| `TokenApi` | the two lists of `packages/token` with the response cache | a look into the cache, the making and the storing of a page |
| `HealthCheck` | `packages/shared/src/monitor` | one request for fees, or the multicall, with their retries |
| `Alerts` | `packages/wallet-observer`, `packages/block-sync-monitor`, `lib/discord.ts` | one read, the comparison, the report |

`TxMap` has no clock: a document and a cache entry hold the time they have left.
`TxSubmission` has what the modules of the jobs leave out: several nonces, a node
that is behind, fees in wei with the rounding of the code and the ten percent a
replacement must add.  `HealthCheck` is what `Check` of BuilderRegistry takes for
one step.  `TokenApi` lists documents by name and prices in the order of the file.
`NewFile` is the next file a process reads: the coins of CoinGecko's list at that
time, batch after batch, in each batch those first whose decimals the sync does not
know (`WrittenBefore`, `market.service.ts:45-49`), so that a coin that was new
moves to its place in a later file.  `failedCalls`, `unread`, `removed`, `moved`,
`told`, `lagTold` and `lagLost` are history variables that no step of the code
reads.

## 3. Runs

A deadlock is looked for in the runs of DepositAnalyzer, MintExecutor and
BuilderRegistry: a run of a job can always be started, and a builder can always
go up or down.  The other configurations turn the check off, since their bounds
can be used up for good: the clock and the requests of BridgeRelay, the chain of
TokenMapRegister and DepositPipeline, the messages of MessageRelay, and the calls
that BlockRanges, HealthCheck and TxSubmission make and return from.

| run | shows | bounds |
|---|---|---|
| `deposit_analyzer` | `TypeOK`, `NoBlockSkipped`, `BroadcastRelayable`, `GasShortfallBounded` | 2 overlapping runs, batches of 2, 2 attempts, a node 1 block behind, 3 deposits, 2 per block, 1 fault; runs interchangeable (symmetry) |
| `deposit_stuck` | **violates** `AllRelayed` | batches of 1, no block with two deposits, no lag, 1 fault |
| `mint_executor` | `TypeOK`, `PrematureBounded`, `CaughtUp` | mint every 2 days, transfer daily, 3 days, 1 manual call, 1 fault |
| `bridge_overlap` | `TypeOK`, `UntrackedSettled`, `ClearedOnlyIfFailed`, `EveryMessageSettles` | 2 overlapping monitors, 1 message, a clock of 1 tick after which a document is overdue, 2 attempts, 1 fault |
| `bridge_delivery` | `FinalUnlessRewatched`, `EveryMessageSettles` | 1 monitor, 2 messages in batches of 1, a clock that stands still, 1 attempt, 1 fault |
| `registry` | `TypeOK`, `ListedPassed`, `DownRetired`, `UpActivated` | 2 builders, one on the allowlist, GUARANTEED_ALLOWLIST, 1 request, no faults, a clock that stands still |
| `registry_silence` | `HeartbeatsKept`, `SilentRetiredUnlessListed` | 1 builder, ALLOWLIST_PRIORITY, a clock that passes a day, 2 faults |
| `token_map` | `TypeOK`, `NoTokenMissed`, `IdsRegistered`, `AllRegistered` | 2 overlapping runs, a node 1 block behind, 3 deposits, 2 per block, 4 blocks, a filter of 1 value, a search of 2 ranges of 1 block, one of two tokens without metadata, 1 fault |
| `deposit_pipeline` | `ImplementsRegister`, and `DepositsRegistered` while a run needs one batch only | 1 analyzer with batches of 2 and 2 attempts, 1 register with a filter of 1 value and a search of 2 ranges of 1 block, a node 1 block behind, 2 deposits, 1 per block, 1 fault of each job |
| `relays` | `TypeOK`, `CursorBehindExecuted`, `ImplementsDelivery`, `EveryMessageRelayed` | the 4 variants, 2 overlapping runs, messages of 3 and 2 items, batches of 2, pages of 1, 2 attempts, a node 1 log behind, 1 fault, no refused message or the first one, one messenger type or two |
| `shared_key` | **violates** `WalkComplete` | two tokens, pages of one, one client, filters by the first token and by both |
| `services` | `EventsExact`, `OneEffectPending`, `ReplacementAccepted`, `DecimalsTrueUnlessFailed`, `WalkComplete`, `FitExactly`, `LostOnlyIfRenewed`, `ExpiredVanishes`, `PricesSettle`, `AlertsRaised`, and `TypeOK` of all parts | see below |

Why the bounds suffice: three deposits with two in a block and batches of two
are the least that gives a run two batches, a batch that ends inside a block
and a block after it.  Two runs are the least that overlap; the proofs cover
any number.  Three days give the slower call two dates and the faster one
three.  Two messages give the monitor a head of the queue and a message behind
it, and the watcher two batches.  One fault is enough for every failure found;
`PrematureBounded` counts against the faults, so that more faults weaken it in
step.  Two builders are the least that make a list which is filtered and not
emptied; two heartbeats of one builder are the least of which the older could be
kept, and a clock that moves one day is the least that makes a builder silent.

The clock of `bridge_overlap` counts in spans of more than 24 hours: `Patience` is
0, so that a document whose `verifiedAt` is one tick old is overdue.  A message
can be renewed, be overdue and retried, and be retried again at the second attempt
while the other monitor holds an older list.  In `bridge_delivery`, where the
question is what one message does to another, none gets overdue.

In `token_map` four blocks hold two relays with deposits on both sides and a run
between them whose head is behind.  All three obstructions are met at these
bounds: a token without metadata and a search that ends too early in
`token_map`, a filter of one value for two tokens and the search in
`deposit_pipeline`.  When one of them is left out of `Obstructed`, TLC refutes
`AllRegistered` or `DepositsRegistered`.  So too for a document given up or
renewed in `EveryMessageSettles`, for `dropped` in `Blocked`, and for `removed`
and `moved` in `Steady`: each exception is one the run needs.  In `relays` a
message of three items has a full and a short batch, and is before another one.
In `deposit_pipeline` the second deposit is relayed when the register may have
passed the first.

The bounds of `services`, part by part:

* TxMap: two digests, one of which the cleaner lists while the other is renewed;
  lifetimes of one unit; three saves, so that a digest is saved, renewed and
  renewed under the cleaner; deletes of one document, so that two make two
  batches; one reader, one cleaner, one fault.
* BlockRanges: every interval of blocks 0..5, also empty ones, with ranges of 1
  to 7 blocks, two requests at a time and two retries: at the last retry a range
  of 3 has become one of a single block.
* TxSubmission: both kinds of fees, estimates that rise, fall and are zero in
  part, five attempts as in the code, a node one transaction behind, two calls
  and two timeouts.
* TokenFeed: a coin of 6 decimals, one of 0 and Ethereum, batches of two, one
  sync and two fetches in flight, two uploads, one fault, one restart.
* TokenApi: two tokens, pages of one, lists filtered or not, a client that walks
  again and again with the pages of its earlier walks still in the cache.  Two
  tokens in a batch of two are enough for a file in another order: the second is
  new and written first, and is behind the other one in the next file.
* HealthCheck: two builders, one on the allowlist, seven profiles that each fail
  one condition or none, three tries as in the code, three faults.
* Alerts: two wallets, one spent at a time, a rollup one block ahead of the
  prover, one fault.

### What the violated runs show

The repository states that its jobs can be retried and deliver reliably
(`docs/SYSTEM_DESIGN.md:247`, `:648`).  `deposit_stuck` finds where a retry is not
the same as going on: a run stops between relaying its first batch and saving
its cursor.  Each later run fetches the same deposits, cuts the same first batch,
and stops at the revert of a batch that is relayed already.  A batch that was
full is never cut differently, so the deposits after it wait for ever.  With one
batch per run later deposits widen it: in `deposit_pipeline`, whose batches hold
all its deposits, the same fault only delays what the register then registers.

A list may be filtered by several tokens: "`tokenIndexes` (optional): Filter by
token indexes (can be multiple)" (`docs/API.md:306`).  `getCacheKey` takes the
values from `c.req.query()`, which has the first one only
(`cache.middleware.ts:61`).  In `shared_key` one client walks the list filtered by
token 1 and then the one filtered by tokens 1 and 2: the second walk is answered
with the page of the first, which has no cursor, so it ends without token 2.
Of filters that begin with different tokens `WalkIsComplete` is proved: their walks
lose a token only to a new file, as the next section says.

### What the code does not promise

Some properties hold only in the weaker form that the runs check:

* The cursor of a batch is the block of its last deposit.  If the run stops
  there, the rest of that block stays behind the cursor until some later deposit
  is relayed (`NoBlockSkipped`; on a chain with one deposit per block nothing is
  left behind, which is proved).
* The retry after a wait that timed out reads the nonce anew, and mints again if
  the first mint was mined just then; not more than once per fault
  (`PrematureBounded`).
* Documents are written with `merge: false`, so a second run of the watcher over
  the same blocks makes settled documents QUEUED again; nothing else does
  (`FinalUnlessRewatched`).
* The validator sets a cached builder active when it passes its check, without
  looking at its last heartbeat, so a silent builder may go on being listed while
  it is in the cached list (`SilentRetiredUnlessListed`).
* A document renewed while the cleaner has it on its list is deleted
  (`LostOnlyIfRenewed`).
* Fees of a retry follow the estimate: once it falls, a replacement may be
  refused (`ReplacementAccepted`).
* A default taken after one failed `decimals()` call is never asked for again,
  and a coin of 0 decimals is given the default (`DecimalsTrueUnlessFailed`).
* Without decoding, the mock relayer passes over a call on any error but a
  timeout, an error of a request among them, and never comes back to it
  (`CursorBehindExecuted` and `EveryMessageRelayed` except the messages that met
  one, `dropped`, and no others).
* A message the target refuses holds up those after it, and on the wallet of the
  two messengers its claim may replace every other one (`Blocked`).
* Each poll of a VERIFIED message moves its `verifiedAt` to the present
  (`process.service.ts:92-94`), so the retry after 24 hours comes only when the
  polls are further apart, and a message whose executor does not come may wait for
  ever (`Renewed` in `EveryMessageSettles`).
* An error with "404" in its text makes a document NOT_FOUND for good, though its
  message may be on its way (`MeetsNotFound` and `GivenUp`); `UntrackedSettled`
  says nothing of such documents.
* A token whose contract never answers `decimals()` or `symbol()`
  (`map.service.ts:89-94`), more tokens than one filter holds
  (`map.service.ts:48`) or a first deposit that the search does not reach
  (`event.service.ts:145-173`) make every later run of token-map-register throw
  before it saves its cursor; no later token is registered then (`Obstructed` in
  `AllRegistered` and `DepositsRegistered`).
* The order of the price file changes: a coin without known decimals comes
  before the others of its batch, and in its own place in the next file
  (`market.service.ts:45-49`).  A client that has page `X` of `X, A, B` and asks
  for the page after `X` of `A, B, X` misses two coins with nothing removed, and
  may see `X` twice in other walks (`moved` in `WalkComplete`; a filter has its
  own order, so such walks are not affected).  A cursor that a new file has left
  out starts the walk from the front (`removed`).
* A lag report before the Discord client is ready is lost (`AlertsRaised`).

### Fairness

Liveness is checked under `FairSpec`.  It assumes what the deployment gives and
the code relies on: a scheduler starts runs again and again, a run takes its
next step unless it fails, a transaction in the mempool is mined some day, and
the node that answers is not behind for ever (strong fairness: of infinitely
many starts some see the latest head).  Strong fairness of `FetchNewEvents` says
that blocks without Minter logs go on, so that the block range of a run is not
empty for ever.  Of LayerZero it assumes that a message is shown and verified
and a delivery shown; that an executor comes, or is reported to have failed, is
not assumed.  In the registry the three jobs are fair, for a scheduler or a
timer starts them again and again, and so is the expiry of the cache entry.  Of
the other modules: the scheduler keeps starting registers and relayers, of both
messenger types, and of infinitely many starts some see the latest head
(`ReadLatestHead`); transactions are mined and the Scroll API learns of claims.
`DocumentsFairness`: time passes, requests under way are answered, the cleaner
is started and goes on.  `FeedFairness`: a process starts, its requests are
answered, its timers fire, one that shuts down exits; the interval is strongly
fair, as its turn comes although the slot for a fetch is often taken.
`AlertsFairness`: the two jobs are started and go on, and a client that logs in
is ready in the end.

Never fair: the clock and the executor of LayerZero, faults, timeouts, refused
replacements, deposits, messages, manual calls, claims by others, heartbeats,
builders going up or down, API requests, saves, uploads.

## 4. Proofs

All theorems are safety properties, for any values of the constants that satisfy
the named assumptions of the modules.  TLC evaluates these assumptions on every
run.  Two theorems are about a single run of a job at a time, one about the
rates a deployment may choose and one about the filters of the clients; they
state it as a hypothesis of their own.

### Deposits: DepositPipelineProofs

Of the analyzer alone, for any set of runs, batch size, number of attempts, lag
of the node, number of deposits per block and every bound:

| theorem | states |
|---|---|
| `Invariance` | `Spec => []IndInv` |
| `TypeCorrect` | `Spec => []TypeOK` |
| `NoBlockIsSkipped` | `Spec => []NoBlockSkipped` |
| `BroadcastStaysRelayable` | `Spec => []BroadcastRelayable` |
| `GasShortfallIsBounded` | `Spec => GasShortfallBounded` |
| `NothingLeftBehindOnSparseChains` | `MaxPerBlock = 1 => (Spec => []NoDepositLeftBehind)` |

The proofs assume the two named assumptions of the module (the constants are
natural numbers, positive where the code needs it; `None` is no run and no
transaction), which TLC evaluates on every run.

**The argument.**  None of the properties is inductive: whether a cursor is safe
depends on the runs that are still to write one.  The core of `IndInv` is
`SafeAt(c)`: every deposit at or before block `c` is relayed, unless it shares
its block with the last relayed deposit.  Mining keeps `SafeAt`, for new
deposits lie above every block read so far and relaying only helps.
`IndInv` adds to it

* `ChainInv`: ids are numbered in the order of blocks, a block holds at most
  `MaxPerBlock` of them, the contract has relayed a prefix, and neither a block
  number in use nor the cursor is above the head;
* `RunInv`: the block a run has read as the head exists; if the run is closing
  an empty range, that block is safe; the batches of a run cover every deposit up
  to that block, and what is held back below its next batch belongs to one block
  (`CoveredFrom`); a run about to save a batch has seen it relayed;
* `ReceiptInv`: a receipt means that the batch the run waits for is relayed;
* `PendingInv`: the pending transaction is relayable, counts its deposits from an
  id with `CoveredFrom`, and is the batch of the run that waits for it.

`BroadcastStaysRelayable` is where the single nonce matters: only the pending
transaction itself can raise `lastRelayed`.  The proof has one lemma per kind
of step: steps that change a run's record only, steps that forget the
transaction, fetching, sending, confirming, saving, and mining, the last split
into its effect, `SafeAt` and `ChainInv`.

Of the composition with the register, for any number of runs of both jobs:

| theorem | states |
|---|---|
| `ImplementsAnalyzer` | `PipelineSpec => Spec` |
| `PipelineImplementsRegister` | `PipelineSpec => ImplementsRegister` |

with `HeightAssumption`, by which the bound `MaxBlock` of the register is out of
reach.  The first theorem brings the analyzer's `IndInv` into the composition.
From it `MinedBlockIsChain` shows that a mined transaction relays further than
every relay before it, and deposits that exist; and since a pending transaction
never reverts, each block beyond the empty ones has a deposit or a relay of its
own (`HeightInv`), so the chain stays below the bound.

### LayerZero: BridgeRelayProofs

For any set of overlapping monitors, any number of
messages, batch size, patience, number of attempts and every bound:

| theorem | states |
|---|---|
| `Invariance` | `Spec => []IndInv` |
| `TypeCorrect` | `Spec => []TypeOK` |
| `UntrackedIsSettled` | `Spec => []UntrackedSettled` |
| `OnlyFailedIsCleared` | `Spec => ClearedOnlyIfFailed` |
| `FinalIsFinal` | `Monitors = {r} => (Spec => FinalUnlessRewatched)` |

**The argument.**  A monitor acts on a status it read some steps ago, through a
transaction that others can race, so its `IndInv` says what outlives the wait.
`LzInv`: the endpoint holds a payload from the moment a message is VERIFIED, and
the scan API shows no delivery that did not happen.  `RunInv`: a run that is
about to write a status, or has a successful receipt, writes one its message is
ready for (`Resolved`); a run that is about to clear a message has seen it
FAILED, and a message that was FAILED stays so until it is shown settled
(`Failed`).  `PendingInv`: the transaction in the mempool clears failed messages
only, and is the one its owner waits for, if any.  These facts are stable under
the steps of everybody else because payloads that are settled stay as they are
and documents are never deleted (`Forward`, `DocsStay`, lemma `RunInvForward`).
`EnvironmentInd` uses that for LayerZero, the clock and the watcher, and
`RunStepInd` for the steps of a run, so each action is left with what it changes
itself.  A message is cleared only by a mined transaction that finds the payload
stored; then the message is not settled, so `Failed` means that the scan API
still shows FAILED.

`FinalIsFinal` needs two more facts.  `FreshInv`: as long as no run of the watcher
has failed, a message has its document only behind the cursor or where the
present run has saved it, so its next batch is of messages that have none.
`TrackedInv`: what is left of a monitor's snapshot is tracked to this day.  The
second holds of one monitor only: a second one can settle a document that the
first has still in its snapshot, and then the first writes it again.

### Builders: BuilderRegistryProofs

For any builders and allowlist, each selection
mode, any number of API requests, batch size of health checks and every bound:

| theorem | states |
|---|---|
| `Invariance` | `Spec => []IndInv` |
| `TypeCorrect` | `Spec => []TypeOK` |
| `ListedHavePassed` | `Spec => []ListedPassed` |
| `HeartbeatsAreKept` | `Spec => []HeartbeatsKept` |

**The argument.**  `PassedInv` follows a builder through the hands it passes:
what the monitor and the validator hold as passing, what a request holds as its
selection and what is cached or active are all within `passed`.  Lemma
`SelectionIsActive` says that no mode selects a builder that is not active.
`HeartbeatInv` is about the window between the upsert and the cursor:
`KeptUpTo(n)` says that the documents have the first `n` heartbeats; it holds of
the cursor always, and of the block the watcher has read once it is about to
save it.  An upsert may set an older time only if heartbeats were out of order,
which `BeatsInv` excludes, and all other steps leave the times of documents as
they are (`HeartbeatForward`).

### Tokens: TokenMapRegisterProofs

For any number of overlapping runs, any deposits
and token indexes, any lag of the node and every bound:

| theorem | states |
|---|---|
| `Invariance` | `Spec => []IndInv` |
| `TypeCorrect` | `Spec => []TypeOK` |
| `NoTokenIsMissed` | `Spec => []NoTokenMissed` |
| `IdsAreRegistered` | `Spec => []IdsRegistered` |

**The argument.**  The cursor has two parts, and a run without new deposits writes
one of them beside what another run wrote into the other, so neither part can
be told from the other.  `IndInv` asks each of them for its own promise:
`NoTokenMissed` of the block, `IdsRegistered` of the id.  `RunInv` says what a
run that has read the logs up to `cur` may rely on until it writes: `SafeAt(cur,
maps)`, where `maps` are the documents and what it has still to store, and the
same for its id.  `NothingNewIsSafe` is where the two parts meet: a relay in the
range is registered because its id is below that of the cursor, one before the
range because of the block.  `NewTokensSuffice` adds the tokens of the new ids.  A
run whose tokens lack metadata stores none of them and saves nothing.
Blocks keep all this since a new relay lies above every block that was read
(`ChainInd`), and other runs since documents are only added (`RunInvGrows`).

### Minting: MintExecutorProofs

For any number of weeks, attempts, logs and every bound:

| theorem | states |
|---|---|
| `TypeCorrect` | `Spec => []TypeOK`, with any number of runs |
| `PrematureIsBounded` | `Jobs = {r} => (Spec => []PrematureBounded)` |

The hypothesis is what the property is about: runs that follow one another, as a
job with one instance has them.  Runs that overlap mint twice without any fault.

**The argument.**  `PrematureBounded` compares a count with a count, and a fault
does not make a call premature at once: it leaves a transaction nobody waits
for, which may be mined later and is then on no record, so that the run after
finds the call due.  `Budget` charges each fault with the calls too many it has
still to cause: an operation is `Charged` while the latest record does not show
its last call (`Exposed`) and no run is about to write it, or while a `Stray`
transaction may bring this about; a stray transaction that is itself too early
costs one more (`Early`).  The calls made too early and these charges together
are at most the faults.  A premature call uses a charge up, because a call that
is due is on time or its operation exposed (`DueIsOnTimeOrExposed`); time that
passes only lets charges expire; and one wallet has one transaction pending, so a
timeout adds one charge and no more.

### Messages: MessageRelayProofs

For any messages, also such without items, batch size, page size, number of
attempts, sets of refused messages, lag of the node, number of overlapping runs
and every bound:

| theorem | states |
|---|---|
| `Invariance` | `Spec => []IndInv` |
| `TypeCorrect` | `Spec => []TypeOK` |
| `CursorIsBehind` | `Spec => []CursorBehindExecuted` |
| `RelayImplementsDelivery` | `Spec => ImplementsDelivery` |

**The argument.**  The calls of all messages have one order (`Precedes`), and a
call is `Passed` when it is executed, or when its message is one that the
undecoded variant passes over, refused or `dropped`.  Passed calls stay passed
(`Grows`, `GrowsAlong`), so each fact that says "everything before is passed"
survives the steps of others.  `TodoInv`: the calls of a run are in order, and
every call up to its head is passed or among them.  `PendingInv` and
`ExecutedInv`: what comes before the transaction in the mempool, or before an
executed call, is passed.  A run drops the first of its calls only when it is
passed, and at its end nothing is left, which is `CursorInv` for the block it
saves.

For the refinement, `BatchBounds` says which items a call carries, `CallsApart`
and `CallOfItem` that the calls divide all items between them in their order.
`ItemsInv` then says that what the executed calls carried, put together, are the
numbers up to the last item of the furthest call: the next call to be executed has
everything before it executed, so it begins where the last one ended
(`NextCallBegins`).  `SentInv` (no run, transaction or executed call knows of a
message not yet sent) bounds that by what was posted.  `DeliveryStep` maps sending
a message to `Post`, mining a call to `Arrive` and all else to no step.  How many
items a call has goes through division and through `LastItem`, a recursive
function; that it sums up the items is shown by induction in `LastItemProperties`.

### Shared services: ServicesProofs

Of the parts of `Services`, each for any value of its constants:

| theorem | states |
|---|---|
| `TypesHold` | `Spec => []TypeOK` |
| `FitIsExact` | `Spec => []FitExactly` |
| `LostIfRenewed` | `Spec => LostOnlyIfRenewed` |
| `OneEffect` | `Spec => []OneEffectPending` |
| `RetriesReplace` | `Spec => []ReplacementAccepted`, from two inequalities |
| `LogsAreExact` | `Spec => []EventsExact` |
| `DecimalsAreTrue` | `Spec => []DecimalsTrueUnlessFailed` |
| `WalkIsComplete` | `FiltersDiffer => (Spec => []WalkComplete)` |

**The arguments.**

* `HealthInv` counts attempts against faults: a request at its n-th attempt for a
  builder that is up has n - 1 faults behind it, and an error of one that is
  sound at least as many as there are tries.
* `DocumentsInv`: each entry a cleaner has listed is of an older version than a
  document that has time left, so deleting a live document deletes a renewed one.
* `PendingInv` of `SubmissionInv`: everything in the mempool has the one nonce that
  is free, and is one transaction.  A node that is behind gives a nonce that is
  used up, and what is sent with it is refused; what is sent with the latest
  nonce replaces what was there.
* `FeesInv`: while no estimate of the call fell, its fees are those of the latest
  estimate times the multiplier of the attempt, and what is pending pays at most
  that estimate times the multiplier of the attempt before.  Rounding may take one
  unit, so the ten percent between two attempts need
  `EnoughToRaise * IncrementRate >= 10` (in tenths), and
  `GasMultiplier(MaxAttempts - 2) <= 10 * IncrementRate`, since the step is a sum
  and its share shrinks with every attempt.  The defaults of the code, 0.3
  (`shared/src/config/index.ts:55`) and five attempts, satisfy both; with nine
  attempts the last one would no longer add ten percent to the one before.
* `RangesInv`: after k ranges of a pass the events are those of the blocks from
  the first up to the end of the k-th range (`Fetched`).  `RangesCut` says that
  `BlockRangesOf` cuts an interval, also an empty one, into ranges without gap
  or overlap, and `FlattenConsecutive` that consecutive pieces make a
  consecutive whole.
* `SyncInv`: what a sync has read from the file, and what it has found out and will
  upload, is `Truthful`: the decimals of a coin are unknown or its contract's, but
  for coins of which a call failed or whose contract gives 0.  The file is written
  whole, so however syncs overlap it holds what one of them had found out.  The
  step that could spoil this is the batch, which lays the answers of a multicall
  beside the coins by counting: `ContractDecimals` leaves out Ethereum on both
  sides, and that the n-th answer is then that of the n-th contract is a fact about
  filtered prefixes (`CollectionLemmas`).
* `ApiInv` is about order.  The tokens that a query wants have a strict order
  (`OrderOf`): by name, by place in the filter, or by place in the file.  The
  last one grows while files only add tokens (`OrderGrows`, `Extends`).  Pages
  as well as what a client has seen keep to it.  `PageGood` says of a page that
  of the list it was made from it has all wanted tokens between its query's
  cursor and its own (`from`); a page stays good while it is cached, whatever is
  added to the list.  `Progress` says that a client has seen everything up to
  its cursor that was in the list of each of its pages (`since`).  A page of any
  age then goes on where the client is, for both are about the order and not
  about positions in a list.  While the documents of `tokenMaps` are read in
  turns, `DocsGood` says the same of the turns.  `FiltersDiffer` (no filter
  names a token twice, and no two filters begin with the same one) makes a cache
  key belong to one filter, so that the page found under it is a page of the
  query.  Once a file left a token out, or put tokens in another order in the
  case of walks without filter, nothing is claimed, as in the property
  (`Steady`).
* `TypesHold` takes the invariants above for the types of lists, fees and pages;
  what they leave out, such as the ends of an interval, the profiles of builders
  and what the watching jobs have read, has invariants of its own
  (`RangesBounds`, `HealthBounds`, `AlertsInv`); the types of TxMap are inductive
  as they are.

`PartSteps` says that a step of `Services` is a step of one part and none of the
others, so each invariant is a matter of its own part.

### Common lemmas: CollectionLemmas

`Min` and `Max` of sets of numbers; `SetInduction`, induction written with a set
in place of a predicate; `UnfoldingExists`, that a function given by its value at
0 and a step exists, by which recursive functions such as `FlattenSeq` and
`LastItem` get the equations they are defined by; from it type, elements, order
and growth of the concatenation of a sequence of sequences.  `Lists` writes
filters and sorted lists by `FlattenSeq` and a choice, which these lemmas can
expand, where `SelectSeq` and `SortSeq` could not be; from them the elements, the
order and the prefixes of a filtered list, and that a finite set of numbers has
one ascending list.

### Only model-checked

* Liveness (`CaughtUp`, `EveryMessageSettles`, `DownRetired`,
  `UpActivated`, `SilentRetiredUnlessListed`, `AllRegistered`,
  `DepositsRegistered`, `EveryMessageRelayed`, `ExpiredVanishes`, `PricesSettle`,
  `AlertsRaised`): it needs fairness and `ENABLED`, out of the prover's reach.
* Nothing else: every safety property that a passing run checks is the statement
  of a theorem.

## 5. Limits of the models

* The latest nonce and the gas estimate are those of the latest block, so a
  wallet has one transaction in the mempool at most.  Answers of different nodes
  behind one URL are not mixed within one attempt.
* In the modules of the jobs fees are not computed: a replacement is taken or
  refused ("replacement fee too low"), as the mempool likes.  TxSubmission has
  the fees, for one run of a job.
* Reorganisations do not happen: one confirmation counts as final, for the code
  reads back nothing it has passed.
* Requests that only read either answer or fail; failing is `Fail` or a timeout.
* In the registry one run of each job is under way at a time, as its scheduler
  starts them; overlapping watchers could write an older time over a newer one.  A
  fault of `fetchEthBalances` drops a batch of health checks whole, as the code
  does, and a batch is checked in one step.
* `BLOCK_BUILDER_MIN_ALLOWLIST_COUNT` is taken to be at most
  `BLOCK_BUILDER_INDEXER_COUNT` (`BoundsAssumption`); the code does not check it.
* A query for logs is answered for all blocks up to the head a run has read.
  `getEventLogsWithRetry` and `calculateOptimalFromBlockNumber` are called by no
  job.
* MessageRelay: the messages messenger-relayer sees fit one batch; any error of
  an undecoded call is passed over but a timeout; `recover.service.ts` is called
  by nothing.
* TokenFeed: prices, which each upload brings anew, and the images are left out.
* TokenApi: clients whose filters share a first value are in `shared_key` only.
  There is one process with the file in its memory; several processes that have
  read different files and share the cache are not modelled.  CoinGecko's own list
  keeps its order, and coins come into it and go.
* TokenMapRegister: whether a contract answers `decimals()` and `symbol()` does not
  change; an answer that fails now and then is a fault.
* Alerts: wallet-observer watches the `withdrawal` wallet on L2 only, though
  messenger-relayer pays from it on L1, and not the wallet of bridge-monitor
  (`type.ts:4`); which wallets are watched is a constant of the module.
* `setHours` of mint-executor cuts dates at local midnight; a day more or less by
  daylight saving is not in MintExecutor.
* `MemoryCacheStore`, which nothing uses, the reconnection of Redis, rate limits
  and logs.
* Not modelled: `predicate`, a proxy of one request with at most two retries
  and no state of its own; the generated contract types under
  `packages/shared/src/typechainTypes`, which hold no behaviour and are the
  larger part of the lines that no definition maps; configuration and
  validation schemas.

## 6. Plan

The modules planned for this project are written, and every safety property
that a passing run checks is proved.  What would come next:

1. More abstract specifications in the manner of OrderedDelivery: a settled-once
   document for BridgeRelay, a set that only grows for TokenMapRegister.
2. The hours that `setHours` drops, with a clock finer than the interval, in
   MintExecutor.
