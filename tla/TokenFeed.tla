------------------------------ MODULE TokenFeed ------------------------------
(***************************************************************************)
(* The token prices: packages/token-metadata-sync writes a file of coins   *)
(* with price and decimals to cloud storage, starting from the file it     *)
(* wrote last; the class TokenPrice of packages/token reads it into memory *)
(* at start, at an interval, after an empty answer and on demand.          *)
(*                                                                         *)
(* A file is named by the number of its upload; prices, which each upload  *)
(* brings anew, and images are left out.                                   *)
(***************************************************************************)
EXTENDS Lists

CONSTANTS
    CoinList,      \* coins CoinGecko may list, in its order
    Decimals,      \* what decimals() of a coin's contract returns
    Ethereum,      \* ETHEREUM_TOKEN, which has no contract
    DefaultDecimals, \* DEFAULT_DECIMALS
    Unknown,       \* no entry, or one without decimals
    CoinsPerBatch, \* MARKET_PRICE_PER_PAGE
    Syncs,         \* executions of the sync that can overlap
    Fetches,       \* reads of the file by one process that can overlap
    MaxUploads,    \* bound: runs of the sync that come to their upload
    MaxFeedFaults, \* bound: requests that fail
    MaxRestarts    \* bound: processes that are shut down

Coins == ToSet(CoinList)

FeedAssumption ==
    /\ CoinList \in Seq(Coins) /\ Ethereum \in Coins
    /\ CoinsPerBatch \in Nat \ {0}
    /\ DefaultDecimals \in Nat \ {0}
    /\ MaxUploads \in Nat
    /\ MaxFeedFaults \in Nat
    /\ MaxRestarts \in Nat

VARIABLES
    file,         \* tokenPrices in cloud storage: upload 0 stands for no file
    sync,         \* the local variables of each sync
    failedCalls,  \* history: coins whose decimals() call failed in some sync
    prices,       \* tokenPriceList, by its upload; 0 if it is empty
    initialized,
    retryTimer,   \* whether a retry is scheduled
    interval,     \* whether the scheduler runs
    fetch,        \* the calls of fetchAndCacheTokenList under way
    closing,      \* cleanup has been called
    uploads, feedFaults, restarts

syncVars == <<file, sync, failedCalls, uploads>>
priceVars == <<prices, initialized, retryTimer, interval, fetch, closing, restarts>>
vars == <<syncVars, priceVars, feedFaults>>

NoFile == [upload |-> 0, decimals |-> [c \in Coins |-> Unknown]]
NotSyncing == [pc |-> "idle", known |-> NoFile.decimals, todo |-> <<>>, results |-> NoFile.decimals]
NoFetch == [pc |-> "free", init |-> FALSE, upload |-> 0]

ProcessInit ==
    /\ prices = 0
    /\ initialized = FALSE
    /\ retryTimer = FALSE
    /\ interval = FALSE
    /\ fetch = [f \in Fetches |-> NoFetch]
    /\ closing = FALSE

Init ==
    /\ file = NoFile
    /\ sync = [s \in Syncs |-> NotSyncing]
    /\ failedCalls = {}
    /\ ProcessInit
    /\ uploads = 0 /\ feedFaults = 0 /\ restarts = 0

Fault == feedFaults < MaxFeedFaults /\ feedFaults' = feedFaults + 1

-----------------------------------------------------------------------------
(* token-metadata-sync.                                                    *)

\* getInitialTokenList: a download that fails is taken for an empty list.
ReadOwnFile(s) ==
    /\ sync[s].pc = "idle"
    /\ uploads < MaxUploads
    /\ \/ sync' = [sync EXCEPT ![s] = [NotSyncing EXCEPT !.pc = "listing", !.known = file.decimals]]
          /\ UNCHANGED feedFaults
       \/ sync' = [sync EXCEPT ![s] = [NotSyncing EXCEPT !.pc = "listing"]]
          /\ Fault
    /\ UNCHANGED <<file, failedCalls, uploads, priceVars>>

\* fetchCoinGeckoList, with Ethereum at the end, and mergeTokenLists, which
\* finds the known decimals of a coin.
FetchCoinGeckoList(s) ==
    /\ sync[s].pc = "listing"
    /\ \E listed \in SUBSET (Coins \ {Ethereum}) :
         sync' = [sync EXCEPT ![s].pc = "pricing",
                              ![s].todo = Append(Among(CoinList, listed), Ethereum)]
    /\ UNCHANGED <<file, failedCalls, uploads, priceVars, feedFaults>>

\* separateTokensByDecimals: 0 is taken for unknown.
WithoutDecimals(known, batch) == Among(batch, {c \in Coins : known[c] \in {Unknown, 0}})

\* Ethereum has no contract to be called.
ContractsOf(coins) == Among(coins, Coins \ {Ethereum})

\* Mutant: the coin without a contract takes an answer, too.
ContractDecimals_Misaligned(coins, answers) ==
    [i \in DOMAIN coins |->
        IF coins[i] = Ethereum THEN Decimals[Ethereum]
        ELSE answers[1 + ((i + Len(coins) - 2) % Len(answers))]]

\* fetchContractDecimals: the calls leave Ethereum out, and so does the index
\* that goes through their answers; a call that failed counts as the default.
ContractDecimals(coins, answers) ==
    LET calls(i) == Len(ContractsOf(SubSeq(coins, 1, i)))
    IN  [i \in DOMAIN coins |-> IF coins[i] = Ethereum THEN Decimals[Ethereum] ELSE answers[calls(i)]]

\* mergeMarketData: once more 0 counts as unknown.
MergedDecimals(d) == IF d = 0 THEN DefaultDecimals ELSE d

\* processMarketBatch with its multicall, of which single calls may fail.
ProcessMarketBatch(s) ==
    LET batch == SubSeq(sync[s].todo, 1, Min({CoinsPerBatch, Len(sync[s].todo)}))
        coins == WithoutDecimals(sync[s].known, batch)
        contracts == ContractsOf(coins)
    IN  /\ sync[s].pc = "pricing"
        /\ sync[s].todo # <<>>
        /\ \E failed \in SUBSET ToSet(contracts) :
             LET answers == [i \in DOMAIN contracts |->
                               IF contracts[i] \in failed THEN DefaultDecimals ELSE Decimals[contracts[i]]]
                 found == ContractDecimals(coins, answers)
             IN  /\ IF failed = {} THEN UNCHANGED feedFaults ELSE Fault
                 /\ failedCalls' = failedCalls \cup failed
                 /\ sync' = [sync EXCEPT
                      ![s].todo = SubSeq(@, Len(batch) + 1, Len(@)),
                      ![s].results = [c \in Coins |->
                          IF c \in ToSet(coins) THEN MergedDecimals(found[CHOOSE i \in DOMAIN coins : coins[i] = c])
                          ELSE IF c \in ToSet(batch) THEN sync[s].known[c]
                          ELSE @[c]]]
        /\ UNCHANGED <<file, uploads, priceVars>>

\* uploadResults; Ethereum keeps the list from being empty.
UploadResults(s) ==
    /\ sync[s].pc = "pricing"
    /\ sync[s].todo = <<>>
    /\ uploads < MaxUploads
    /\ uploads' = uploads + 1
    /\ file' = [upload |-> uploads + 1, decimals |-> sync[s].results]
    /\ sync' = [sync EXCEPT ![s] = NotSyncing]
    /\ UNCHANGED <<failedCalls, priceVars, feedFaults>>

\* The default image is missing, CoinGecko or the upload fails: no file.
SyncFails(s) ==
    /\ sync[s].pc # "idle"
    /\ Fault
    /\ sync' = [sync EXCEPT ![s] = NotSyncing]
    /\ UNCHANGED <<file, failedCalls, uploads, priceVars>>

-----------------------------------------------------------------------------
(* TokenPrice, in one event loop: fetchAndCacheTokenList awaits once.      *)

Ask(init) ==
    \E f \in Fetches :
        /\ fetch[f] = NoFetch
        /\ fetch' = [fetch EXCEPT ![f] = [pc |-> "asked", init |-> init, upload |-> 0]]

InFlight == \E f \in Fetches : fetch[f] # NoFetch

\* bootstrap calls initialize; only its own fetch is under way then.
Initialize ==
    /\ ~initialized
    /\ ~closing
    /\ ~InFlight
    /\ Ask(TRUE)
    /\ UNCHANGED <<syncVars, prices, initialized, retryTimer, interval, closing, restarts, feedFaults>>

\* startScheduler's callback
IntervalFetch ==
    /\ interval
    /\ Ask(FALSE)
    /\ UNCHANGED <<syncVars, prices, initialized, retryTimer, interval, closing, restarts, feedFaults>>

\* The callback of scheduleRetry's timer, which is over with it.
RetryFetch ==
    /\ retryTimer
    /\ retryTimer' = FALSE
    /\ Ask(FALSE)
    /\ UNCHANGED <<syncVars, prices, initialized, interval, closing, restarts, feedFaults>>

\* getTokenPriceList and getTokenPriceMap wait until `initialized`, and
\* fetch themselves what is empty.
RequestFetch ==
    /\ initialized
    /\ prices = 0
    /\ Ask(FALSE)
    /\ UNCHANGED <<syncVars, prices, initialized, retryTimer, interval, closing, restarts, feedFaults>>

\* downloadData and fetchTokenList, for which any error is an empty list.
Answer(f) ==
    /\ fetch[f].pc = "asked"
    /\ \/ fetch' = [fetch EXCEPT ![f].pc = "answered", ![f].upload = file.upload] /\ UNCHANGED feedFaults
       \/ fetch' = [fetch EXCEPT ![f].pc = "answered"] /\ Fault
    /\ UNCHANGED <<syncVars, prices, initialized, retryTimer, interval, closing, restarts>>

\* Mutant: the first list is kept.
Cache_First(upload) ==
    IF upload = 0 THEN retryTimer' = TRUE /\ UNCHANGED prices
    ELSE prices' = (IF prices = 0 THEN upload ELSE prices) /\ retryTimer' = FALSE

\* scheduleRetry sets the timer anew, clearRetryTimeout takes it away.
Cache(upload) ==
    IF upload = 0 THEN retryTimer' = TRUE /\ UNCHANGED prices
    ELSE prices' = upload /\ retryTimer' = FALSE

\* The rest of fetchAndCacheTokenList, and of initialize.
Handle(f) ==
    /\ fetch[f].pc = "answered"
    /\ Cache(fetch[f].upload)
    /\ fetch' = [fetch EXCEPT ![f] = NoFetch]
    /\ initialized' = (initialized \/ fetch[f].init)
    /\ interval' = (interval \/ fetch[f].init)
    /\ UNCHANGED <<syncVars, closing, restarts, feedFaults>>

\* shutdown calls cleanup, which leaves the retry and what is under way.
Cleanup ==
    /\ ~closing
    /\ restarts < MaxRestarts
    /\ closing' = TRUE
    /\ interval' = FALSE
    /\ prices' = 0
    /\ UNCHANGED <<syncVars, initialized, retryTimer, fetch, restarts, feedFaults>>

\* The process exits, at the latest after SHUTDOWN_TIMEOUT, and another one
\* starts with nothing in memory.
Exit ==
    /\ closing
    /\ restarts' = restarts + 1
    /\ prices' = 0 /\ initialized' = FALSE /\ retryTimer' = FALSE /\ interval' = FALSE
    /\ fetch' = [f \in Fetches |-> NoFetch]
    /\ closing' = FALSE
    /\ UNCHANGED <<syncVars, feedFaults>>

SyncStep(s) ==
    ReadOwnFile(s) \/ FetchCoinGeckoList(s) \/ ProcessMarketBatch(s) \/ UploadResults(s) \/ SyncFails(s)

PriceStep(f) == Answer(f) \/ Handle(f)

Next ==
    \/ \E s \in Syncs : SyncStep(s)
    \/ \E f \in Fetches : PriceStep(f)
    \/ Initialize \/ IntervalFetch \/ RetryFetch \/ RequestFetch \/ Cleanup \/ Exit

Spec == Init /\ [][Next]_vars

-----------------------------------------------------------------------------
(* Properties.                                                             *)

\* Type invariant of the state above.
TypeOK ==
    /\ file.upload \in 0..MaxUploads
    /\ prices \in 0..MaxUploads
    /\ failedCalls \subseteq Coins \ {Ethereum}
    /\ \A s \in Syncs : ToSet(sync[s].todo) \subseteq Coins
    /\ \A f \in Fetches : fetch[f].pc \in {"free", "asked", "answered"}
    /\ {initialized, retryTimer, interval, closing} \subseteq BOOLEAN

\* The file tells the decimals of each coin truly unless a call of its
\* contract failed once: a default is taken for known and never asked again.
\* A coin with 0 decimals is listed with the default, too.
DecimalsTrueUnlessFailed ==
    \A c \in Coins :
        file.decimals[c] \in {Unknown, Decimals[c]} \/ c \in failedCalls \/ Decimals[c] = 0

\* When no more files come, the prices in memory are those of the last one
\* for ever, though an older answer may overtake a newer one, an empty one
\* schedules a retry and a shutdown forgets everything.
PricesSettle == <>[](prices = file.upload)
=============================================================================
