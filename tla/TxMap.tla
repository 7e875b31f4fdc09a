-------------------------------- MODULE TxMap --------------------------------
(***************************************************************************)
(* The short-lived documents of packages/tx-map: a client saves data under *)
(* a digest for a while, others get it through a response cache, and the   *)
(* job of packages/tx-map-cleaner deletes what has expired.                *)
(*                                                                         *)
(* There is no absolute clock: a document and a cache entry hold the time  *)
(* they have left.  `version` counts the saves, and stands for the data.   *)
(***************************************************************************)
EXTENDS Integers, FiniteSetsExt

CONSTANTS
    Digests,          \* the keys clients save under
    Readers,          \* GET requests that can be in flight together
    Cleaners,         \* executions of the cleaner that can overlap
    MinExpiresIn,     \* MIN_EXPIRES_IN
    DefaultExpiresIn, \* DEFAULT_EXPIRES_IN, also the longest
    CacheTtl,         \* CACHE_TIMEOUTS.DETAIL
    DeleteLimit,      \* FIRESTORE_MAX_BATCH_SIZE
    MaxSaves,         \* bound: saves by clients
    MaxCleanerFaults  \* bound: cleaners that stop before their end

TxMapAssumption ==
    /\ Digests # {}
    /\ MinExpiresIn \in Nat \ {0}
    /\ DefaultExpiresIn \in Nat
    /\ CacheTtl \in Nat \ {0}
    /\ DeleteLimit \in Nat \ {0}
    /\ MaxSaves \in Nat
    /\ MaxCleanerFaults \in Nat

VARIABLES
    txMap,        \* the document of a digest
    response,     \* the cached response of a digest
    reader,       \* the requests
    cleaner,      \* what a cleaner listed and has not deleted yet
    saves,
    cleanerFaults

vars == <<txMap, response, reader, cleaner, saves, cleanerFaults>>

Nothing == [version |-> 0, left |-> 0]
Waiting == [pc |-> "idle", digest |-> CHOOSE d \in Digests : TRUE, version |-> 0]

Init ==
    /\ txMap = [d \in Digests |-> Nothing]
    /\ response = [d \in Digests |-> Nothing]
    /\ reader = [r \in Readers |-> Waiting]
    /\ cleaner = [c \in Cleaners |-> {}]
    /\ saves = 0
    /\ cleanerFaults = 0

Exists(d) == txMap[d].version > 0

\* saveTxMapValidation
AcceptedLifetimes == MinExpiresIn..DefaultExpiresIn

\* TxMap.saveTxMap: the merge overwrites data and expiresAt, the only fields.
SaveTxMap(d, data) == txMap' = [txMap EXCEPT ![d] = data]

\* saveTxMap of the service, which makes expiresAt of expiresIn.
Save(d) ==
    /\ saves < MaxSaves
    /\ saves' = saves + 1
    /\ \E time \in AcceptedLifetimes : SaveTxMap(d, [version |-> saves + 1, left |-> time])
    /\ UNCHANGED <<response, reader, cleaner, cleanerFaults>>

Elapse(entry) == IF entry.left <= 1 THEN [entry EXCEPT !.left = 0] ELSE [entry EXCEPT !.left = @ - 1]

\* A unit of time; Redis drops a key whose time is over.
Tick ==
    /\ \E d \in Digests : txMap[d].left > 0 \/ response[d].left > 0
    /\ txMap' = [d \in Digests |-> Elapse(txMap[d])]
    /\ response' = [d \in Digests |-> IF response[d].left <= 1 THEN Nothing ELSE Elapse(response[d])]
    /\ UNCHANGED <<reader, cleaner, saves, cleanerFaults>>

-----------------------------------------------------------------------------
(* A request.                                                              *)

\* cacheMiddleware: a hit is answered at once and changes nothing.
Miss(r, d) ==
    /\ reader[r].pc = "idle"
    /\ response[d] = Nothing
    /\ reader' = [reader EXCEPT ![r] = [pc |-> "missed", digest |-> d, version |-> 0]]
    /\ UNCHANGED <<txMap, response, cleaner, saves, cleanerFaults>>

\* getTxMap of the controller, the service and the collection, none of which
\* looks at expiresAt; without a document the answer is an error.
GetTxMap(r) ==
    LET d == reader[r].digest
    IN  /\ reader[r].pc = "missed"
        /\ reader' = [reader EXCEPT ![r] =
             IF Exists(d) THEN [@ EXCEPT !.pc = "found", !.version = txMap[d].version] ELSE Waiting]
        /\ UNCHANGED <<txMap, response, cleaner, saves, cleanerFaults>>

\* Only an answer with a document is cached.
Store(r) ==
    /\ reader[r].pc = "found"
    /\ response' = [response EXCEPT ![reader[r].digest] =
                      [version |-> reader[r].version, left |-> CacheTtl]]
    /\ reader' = [reader EXCEPT ![r] = Waiting]
    /\ UNCHANGED <<txMap, cleaner, saves, cleanerFaults>>

-----------------------------------------------------------------------------
(* A run of the cleaner.                                                   *)

\* Mutant: a document in its last unit of time is listed.
ExpiredTxMaps_Early == {d \in Digests : Exists(d) /\ txMap[d].left <= 1}

\* The query of deleteExpiredTxMaps.
ExpiredTxMaps == {d \in Digests : Exists(d) /\ txMap[d].left = 0}

List(c) ==
    /\ cleaner[c] = {}
    /\ cleaner' = [cleaner EXCEPT ![c] = {[digest |-> d, version |-> txMap[d].version] : d \in ExpiredTxMaps}]
    /\ UNCHANGED <<txMap, response, reader, saves, cleanerFaults>>

\* Mutant: the loop starts with the second batch.
DeleteBatch_FromSecond(c) ==
    /\ cleaner[c] # {}
    /\ \E batch \in kSubset(Min({DeleteLimit, Cardinality(cleaner[c])}), cleaner[c]) :
         /\ txMap' = [d \in Digests |-> IF d \in {e.digest : e \in cleaner[c] \ batch} THEN Nothing ELSE txMap[d]]
         /\ cleaner' = [cleaner EXCEPT ![c] = {}]
    /\ UNCHANGED <<response, reader, saves, cleanerFaults>>

\* One batch of the list, without a new look at the documents.
DeleteBatch(c) ==
    /\ cleaner[c] # {}
    /\ \E batch \in kSubset(Min({DeleteLimit, Cardinality(cleaner[c])}), cleaner[c]) :
         /\ txMap' = [d \in Digests |-> IF d \in {e.digest : e \in batch} THEN Nothing ELSE txMap[d]]
         /\ cleaner' = [cleaner EXCEPT ![c] = @ \ batch]
    /\ UNCHANGED <<response, reader, saves, cleanerFaults>>

\* A request fails or the container is killed: the other batches stay.
CleanerFails(c) ==
    /\ cleaner[c] # {}
    /\ cleanerFaults < MaxCleanerFaults
    /\ cleanerFaults' = cleanerFaults + 1
    /\ cleaner' = [cleaner EXCEPT ![c] = {}]
    /\ UNCHANGED <<txMap, response, reader, saves>>

Next ==
    \/ Tick
    \/ \E d \in Digests : Save(d)
    \/ \E r \in Readers : GetTxMap(r) \/ Store(r) \/ \E d \in Digests : Miss(r, d)
    \/ \E c \in Cleaners : List(c) \/ DeleteBatch(c) \/ CleanerFails(c)

Spec == Init /\ [][Next]_vars

-----------------------------------------------------------------------------
(* Properties.                                                             *)

Entries(n) == [version : 0..MaxSaves, left : 0..n]

\* Type invariant of the state above.
TypeOK ==
    /\ txMap \in [Digests -> Entries(DefaultExpiresIn)]
    /\ response \in [Digests -> Entries(CacheTtl)]
    /\ reader \in [Readers -> [pc : {"idle", "missed", "found"}, digest : Digests, version : 0..MaxSaves]]
    /\ cleaner \in [Cleaners -> SUBSET [digest : Digests, version : 1..MaxSaves]]
    /\ saves \in 0..MaxSaves
    /\ cleanerFaults \in 0..MaxCleanerFaults

\* A document goes before its time only if it was saved anew between the
\* list and the delete of some cleaner: then an earlier version of it, which
\* had expired, is on that list.
LostOnlyIfRenewed ==
    [][\A d \in Digests :
         txMap[d].left > 0 /\ txMap'[d] = Nothing =>
            \E c \in Cleaners : \E e \in cleaner[c] :
                e.digest = d /\ e.version < txMap[d].version]_vars

Served(d, v) ==
    \/ txMap[d].version = v
    \/ response[d].version = v
    \/ \E r \in Readers : reader[r].pc = "found" /\ reader[r].digest = d /\ reader[r].version = v

\* Data that has expired is served to nobody from some time on, though
\* neither the read nor the cache looks at expiresAt, a request may hold on
\* to it and a cleaner may stop between two batches.
ExpiredVanishes ==
    \A d \in Digests : \A v \in 1..MaxSaves :
        txMap[d] = [version |-> v, left |-> 0] ~> [](~Served(d, v))
=============================================================================
