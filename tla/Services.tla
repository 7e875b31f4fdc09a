------------------------------ MODULE Services ------------------------------
(***************************************************************************)
(* The smaller parts of the repository, which share no state with one      *)
(* another or with the jobs: the short-lived documents (TxMap), the        *)
(* reading of logs (BlockRanges), the sending of a transaction with its    *)
(* fees (TxSubmission), the token prices (TokenFeed) and lists (TokenApi), *)
(* the check of block builders (HealthCheck) and the watching jobs         *)
(* (Alerts).                                                               *)
(*                                                                         *)
(* As nothing one of them does can be seen by another, a behaviour of all  *)
(* of them is a behaviour of each with stuttering, and each is checked     *)
(* with the others at rest: `part` is the one that moves.                  *)
(***************************************************************************)
EXTENDS Naturals

CONSTANTS
    Digests, Readers, Cleaners, MinExpiresIn, DefaultExpiresIn, CacheTtl, DeleteLimit,
    MaxSaves, MaxCleanerFaults,
    LastBlock, RangeSizes, ParallelRequests, MaxRetries,
    EIP1559Estimates, ScrollFees, ScrollMultiplier, IncrementRate, MaxAttempts, NonceLag,
    MaxCalls, MaxTimeouts,
    CoinList, Decimals, Ethereum, DefaultDecimals, Unknown, CoinsPerBatch, Syncs, Fetches,
    MaxUploads, MaxFeedFaults, MaxRestarts,
    ApiTokens, Clients, Filters, PerPages, DocLimit, NoPage,
    Candidates, Trusted, Profiles, RequiredVersion, AllowedTokens, MaxFee, MinBalance,
    Tries, MaxCheckFaults,
    Wallets, Required, Acceptable, MaxEther, MaxRollupBlock, MaxSpends, MaxAlertFaults

VARIABLES
    part,
    txMap, response, reader, cleaner, saves, cleanerFaults,
    blocks, blockRange, retries, requested, events, outcome,
    style, mempool, mined, sending, sends, calls, timeouts,
    file, sync, failedCalls, uploads,
    prices, initialized, retryTimer, interval, fetch, closing, restarts, feedFaults,
    endpoint, tokenList, removed, moved, pages, client,
    profile, check, reading, available, requestFaults, unread,
    balance, rollup, prover, observer, syncMonitor, ready, told, lagTold, lagLost,
    spends, alertFaults

docVars == <<txMap, response, reader, cleaner, saves, cleanerFaults>>
rangeVars == <<blocks, blockRange, retries, requested, events, outcome>>
sendVars == <<style, mempool, mined, sending, sends, calls, timeouts>>
feedVars == <<file, sync, failedCalls, uploads, prices, initialized, retryTimer, interval,
              fetch, closing, restarts, feedFaults>>
apiVars == <<endpoint, tokenList, removed, moved, pages, client>>
checkVars == <<profile, check, reading, available, requestFaults, unread>>
alertVars == <<balance, rollup, prover, observer, syncMonitor, ready, told, lagTold, lagLost,
               spends, alertFaults>>
vars == <<part, docVars, rangeVars, sendVars, feedVars, apiVars, checkVars, alertVars>>

Documents == INSTANCE TxMap
Ranges == INSTANCE BlockRanges
Submission == INSTANCE TxSubmission
Feed == INSTANCE TokenFeed
Api == INSTANCE TokenApi
Health == INSTANCE HealthCheck
Watching == INSTANCE Alerts

ASSUME ServicesAssumption ==
    /\ Documents!TxMapAssumption
    /\ Ranges!RangesAssumption
    /\ Submission!SubmissionAssumption
    /\ Feed!FeedAssumption
    /\ Api!TokenApiAssumption
    /\ Health!HealthAssumption
    /\ Watching!AlertsAssumption

Parts == {"documents", "ranges", "submission", "feed", "api", "health", "watching"}

\* What does not move starts in one state only.
Init ==
    /\ part \in Parts
    /\ Documents!Init
    /\ Ranges!Init
    /\ Submission!Init /\ (part # "submission" => style = "eip1559")
    /\ Feed!Init
    /\ Api!Init /\ (part # "api" => endpoint = "prices")
    /\ Health!Init
    /\ Watching!Init

\* The step of one part.
Moves(p) ==
    /\ part = p
    /\ UNCHANGED part
    /\ p # "documents" => UNCHANGED docVars
    /\ p # "ranges" => UNCHANGED rangeVars
    /\ p # "submission" => UNCHANGED sendVars
    /\ p # "feed" => UNCHANGED feedVars
    /\ p # "api" => UNCHANGED apiVars
    /\ p # "health" => UNCHANGED checkVars
    /\ p # "watching" => UNCHANGED alertVars

Next ==
    \/ Moves("documents") /\ Documents!Next
    \/ Moves("ranges") /\ Ranges!Next
    \/ Moves("submission") /\ Submission!Next
    \/ Moves("feed") /\ Feed!Next
    \/ Moves("api") /\ Api!Next
    \/ Moves("health") /\ Health!Next
    \/ Moves("watching") /\ Watching!Next

Spec == Init /\ [][Next]_vars

\* Time passes, a request under way is answered, and the cleaner is started
\* again and again.
DocumentsFairness ==
    /\ WF_docVars(part = "documents" /\ Documents!Tick)
    /\ \A r \in Readers : WF_docVars(part = "documents" /\ (Documents!GetTxMap(r) \/ Documents!Store(r)))
    /\ \A c \in Cleaners : WF_docVars(part = "documents" /\ (Documents!List(c) \/ Documents!DeleteBatch(c)))

\* A process starts, its timers fire, also when their turn is often that of
\* something else, its requests are answered, and one that shuts down exits.
FeedFairness ==
    /\ WF_feedVars(part = "feed" /\ Feed!Initialize)
    /\ SF_feedVars(part = "feed" /\ Feed!IntervalFetch)
    /\ WF_feedVars(part = "feed" /\ Feed!RetryFetch)
    /\ WF_feedVars(part = "feed" /\ Feed!Exit)
    /\ \A f \in Fetches : WF_feedVars(part = "feed" /\ Feed!PriceStep(f))

\* The jobs are started again and again and go on, and a client that logs in
\* is ready in the end.
AlertsFairness ==
    /\ WF_alertVars(part = "watching" /\ Watching!ObserverStep)
    /\ WF_alertVars(part = "watching" /\ Watching!SyncMonitorStep)
    /\ \A job \in Watching!Jobs : WF_alertVars(part = "watching" /\ Watching!LogIn(job))

FairSpec == Spec /\ DocumentsFairness /\ FeedFairness /\ AlertsFairness

-----------------------------------------------------------------------------
(* Properties: those of the parts.                                         *)

\* Type invariant of every part.
TypeOK ==
    /\ part \in Parts
    /\ Documents!TypeOK /\ Ranges!TypeOK /\ Submission!TypeOK /\ Feed!TypeOK
    /\ Api!TypeOK /\ Health!TypeOK /\ Watching!TypeOK

\* A stored document goes early only if it was renewed under the cleaner.
LostOnlyIfRenewed == Documents!LostOnlyIfRenewed

\* Expired data is served to nobody from some time on.
ExpiredVanishes == Documents!ExpiredVanishes

\* A call that reads logs returns each block's exactly once and in order.
EventsExact == Ranges!EventsExact

\* No two transactions of one call wait together to be mined.
OneEffectPending == Submission!OneEffectPending

\* A retry pays enough to replace what it repeats.
ReplacementAccepted == Submission!ReplacementAccepted

\* Decimals in the file are true but for coins whose contract call failed.
DecimalsTrueUnlessFailed == Feed!DecimalsTrueUnlessFailed

\* The prices in memory come to be those of the last file.
PricesSettle == Feed!PricesSettle

\* A walk through the pages has every token once.
WalkComplete == Api!WalkComplete

\* The health check finds the fit builders, past two failed requests.
FitExactly == Health!FitExactly

\* Low wallets and a lagging prover are reported.
AlertsRaised == Watching!AlertsRaised
=============================================================================
