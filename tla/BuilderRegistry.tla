--------------------------- MODULE BuilderRegistry ---------------------------
(***************************************************************************)
(* The registry of block builders.  Four programs share the documents of   *)
(* indexers/builders/addresses and one cache entry, without a lock:        *)
(* indexer-event-watcher copies the heartbeats of builders, indexer-monitor *)
(* checks the builders seen within a day and sets `active` of all,          *)
(* the indexer API caches a selection of the active ones, and              *)
(* indexer-cache-validator checks the builders of the cached list again.   *)
(*                                                                         *)
(* Whether a builder would pass a check (its answer, version, fees and     *)
(* balance) is external, and so are the expiry of the cache entry and the  *)
(* heartbeats.  A block number is the number of heartbeats up to it.       *)
(***************************************************************************)
EXTENDS Integers, Sequences, FiniteSets, FiniteSetsExt

CONSTANTS
    Builders,
    Requests,       \* API requests for the list that can be in flight together
    Mode,           \* BUILDER_SELECTION_MODE
    Allowlist,      \* BLOCK_BUILDER_ALLOWLIST
    ListSize,       \* BLOCK_BUILDER_INDEXER_COUNT
    MinAllowlist,   \* BLOCK_BUILDER_MIN_ALLOWLIST_COUNT
    CheckSize,      \* INDEXER_BATCH_SIZE
    Day,            \* 24 hours
    NumHeartbeats,  \* bound: heartbeats ever sent
    MaxTime,        \* bound: the clock stops
    MaxFaults,      \* bound: faults of all programs together
    None            \* no document; no cache entry

ASSUME BoundsAssumption ==
    /\ {ListSize, Day, MaxTime, CheckSize} \subseteq Nat \ {0}
    /\ MinAllowlist \in 0..ListSize
    /\ {NumHeartbeats, MaxFaults} \subseteq Nat
    /\ IsFiniteSet(Builders) /\ Allowlist \subseteq Builders
    /\ Mode \in {"ALLOWLIST_ONLY", "ALLOWLIST_PRIORITY", "GUARANTEED_ALLOWLIST", "RANDOM"}

Docs == [synced : Nat, active : BOOLEAN]

ASSUME NoneAssumption == None \notin Docs /\ \A L \in SUBSET Builders : L # None

VARIABLES
    now,
    beats,      \* the BlockBuilderHeartbeat logs, each a builder and a time
    healthy,    \* builders that would pass a check
    passed,     \* history: builders that passed one
    \* Firestore
    doc,        \* the document of a builder, or None
    cursor,     \* events/blockBuilderHeartBeat.lastBlockNumber
    \* Redis
    cache,      \* the builders listed in the cached response, or None
    \* the programs
    watcher, monitor, validator,
    request,    \* the API requests
    faults

worldVars == <<now, beats, healthy>>
vars == <<worldVars, passed, doc, cursor, cache, watcher, monitor, validator, request, faults>>

IdleWatcher == [pc |-> "idle", cur |-> 0]
IdleMonitor == [pc |-> "idle", left |-> {}, passing |-> {}]
IdleValidator == [pc |-> "idle", list |-> {}, left |-> {}, passing |-> {}]
IdleRequest == [pc |-> "idle", list |-> {}]

Init ==
    /\ now = 1
    /\ beats = <<>>
    /\ healthy = {}
    /\ passed = {}
    /\ doc = [b \in Builders |-> None]
    /\ cursor = 0
    /\ cache = None
    /\ watcher = IdleWatcher
    /\ monitor = IdleMonitor
    /\ validator = IdleValidator
    /\ request = [r \in Requests |-> IdleRequest]
    /\ faults = 0

Registered == {b \in Builders : doc[b] # None}
Active == {b \in Registered : doc[b].active}

\* Builders with a heartbeat within the last day.
Recent == {b \in Registered : doc[b].synced > now - Day}

-----------------------------------------------------------------------------
(* The world.                                                              *)

Tick ==
    /\ now < MaxTime
    /\ now' = now + 1
    /\ UNCHANGED <<beats, healthy, passed, doc, cursor, cache, watcher, monitor,
                   validator, request, faults>>

Heartbeat(b) ==
    /\ Len(beats) < NumHeartbeats
    /\ beats' = Append(beats, [builder |-> b, time |-> now])
    /\ UNCHANGED <<now, healthy, passed, doc, cursor, cache, watcher, monitor,
                   validator, request, faults>>

\* A builder goes up or down.
Toggle(b) ==
    /\ healthy' = IF b \in healthy THEN healthy \ {b} ELSE healthy \cup {b}
    /\ UNCHANGED <<now, beats, passed, doc, cursor, cache, watcher, monitor,
                   validator, request, faults>>

\* The lifetime of the cache entry is over.
Expire ==
    /\ cache # None
    /\ cache' = None
    /\ UNCHANGED <<worldVars, passed, doc, cursor, watcher, monitor, validator, request, faults>>

-----------------------------------------------------------------------------
(* indexer-event-watcher.                                                  *)

\* Mutant: the range ends one block late.
Watch_PastHead ==
    /\ watcher.pc = "idle"
    /\ cursor < Len(beats)
    /\ watcher' = [pc |-> "upserting", cur |-> Len(beats) + 1]
    /\ UNCHANGED <<worldVars, passed, doc, cursor, cache, monitor, validator, request, faults>>

\* performJob and getHeartBeatEvents: the logs between the cursor and the head.
Watch ==
    /\ watcher.pc = "idle"
    /\ cursor < Len(beats)
    /\ watcher' = [pc |-> "upserting", cur |-> Len(beats)]
    /\ UNCHANGED <<worldVars, passed, doc, cursor, cache, monitor, validator, request, faults>>

BeatsOf(b, first, last) == {i \in first..last : i <= Len(beats) /\ beats[i].builder = b}

\* Mutant: the first log of a builder is kept instead of the last.
LastBeat_First(b) == Min(BeatsOf(b, cursor + 1, watcher.cur))

\* processIndexer: the last log of a builder in the range.
LastBeat(b) == Max(BeatsOf(b, cursor + 1, watcher.cur))

\* upsertIndexersBatch, one commit; it merges, and leaves `active` alone.
Upsert ==
    /\ watcher.pc = "upserting"
    /\ doc' = [b \in Builders |->
                 IF BeatsOf(b, cursor + 1, watcher.cur) = {} THEN doc[b]
                 ELSE [synced |-> beats[LastBeat(b)].time, active |-> b \in Active]]
    /\ watcher' = [watcher EXCEPT !.pc = "saving"]
    /\ UNCHANGED <<worldVars, passed, cursor, cache, monitor, validator, request, faults>>

\* updateEventState
SaveCursor ==
    /\ watcher.pc = "saving"
    /\ cursor' = watcher.cur
    /\ watcher' = IdleWatcher
    /\ UNCHANGED <<worldVars, passed, doc, cache, monitor, validator, request, faults>>

Fault ==
    /\ faults < MaxFaults
    /\ faults' = faults + 1
    /\ UNCHANGED <<worldVars, passed, doc, cursor, cache>>

WatcherFails ==
    /\ watcher.pc # "idle"
    /\ watcher' = IdleWatcher
    /\ Fault
    /\ UNCHANGED <<monitor, validator, request>>

-----------------------------------------------------------------------------
(* processMonitor: the health checks of the monitor and the validator.     *)

\* The next batch of builders: checked together, in no order that matters.
Batches(left) == {B \in SUBSET left : Cardinality(B) = Min({CheckSize, Cardinality(left)})}

\* checkIndexerAvailability: a batch is checked.
Check(run, batch) ==
    [run EXCEPT !.left = @ \ batch, !.passing = @ \cup (batch \cap healthy)]

\* ... or fails as a whole, for one reading of balances that failed.
Drop(run, batch) == [run EXCEPT !.left = @ \ batch]

-----------------------------------------------------------------------------
(* indexer-monitor.                                                        *)

\* Mutant: the comparison with the time a day ago is the wrong way round.
FetchRecent_Old ==
    /\ monitor.pc = "idle"
    /\ monitor' = [pc |-> "checking", left |-> Registered \ Recent, passing |-> {}]
    /\ UNCHANGED <<worldVars, passed, doc, cursor, cache, watcher, validator, request, faults>>

\* fetchRecentSyncIndexerBuilders
FetchRecent ==
    /\ monitor.pc = "idle"
    /\ monitor' = [pc |-> "checking", left |-> Recent, passing |-> {}]
    /\ UNCHANGED <<worldVars, passed, doc, cursor, cache, watcher, validator, request, faults>>

MonitorCheck ==
    /\ monitor.pc = "checking" /\ monitor.left # {}
    /\ \E batch \in Batches(monitor.left) :
         /\ monitor' = Check(monitor, batch)
         /\ passed' = passed \cup (batch \cap healthy)
    /\ UNCHANGED <<worldVars, doc, cursor, cache, watcher, validator, request, faults>>

\* Mutant: builders that fail keep their state.
Sync_ActivatesOnly ==
    /\ monitor.pc = "checking" /\ monitor.left = {}
    /\ doc' = [b \in Builders |->
                 IF b \notin Registered THEN doc[b]
                 ELSE [doc[b] EXCEPT !.active = @ \/ b \in monitor.passing]]
    /\ monitor' = IdleMonitor
    /\ UNCHANGED <<worldVars, passed, cursor, cache, watcher, validator, request, faults>>

\* syncIndexerActiveStates: every document of the moment, also of builders
\* that were not there when the run read its list.
Sync ==
    /\ monitor.pc = "checking" /\ monitor.left = {}
    /\ doc' = [b \in Builders |->
                 IF b \notin Registered THEN doc[b]
                 ELSE [doc[b] EXCEPT !.active = b \in monitor.passing]]
    /\ monitor' = IdleMonitor
    /\ UNCHANGED <<worldVars, passed, cursor, cache, watcher, validator, request, faults>>

\* A batch is dropped, or the run ends.
MonitorFails ==
    /\ monitor.pc # "idle"
    /\ \/ monitor' = IdleMonitor
       \/ /\ monitor.left # {}
          /\ \E batch \in Batches(monitor.left) : monitor' = Drop(monitor, batch)
    /\ Fault
    /\ UNCHANGED <<watcher, validator, request>>

-----------------------------------------------------------------------------
(* indexer-cache-validator.                                                *)

ReadCache ==
    /\ validator.pc = "idle"
    /\ cache # None
    /\ validator' = [IdleValidator EXCEPT !.pc = "fetching", !.list = cache]
    /\ UNCHANGED <<worldVars, passed, doc, cursor, cache, watcher, monitor, request, faults>>

\* fetchIndexers takes an empty list of addresses for no filter at all.
FetchCached ==
    /\ validator.pc = "fetching"
    /\ validator' = [validator EXCEPT
                       !.pc = "checking",
                       !.left = IF validator.list = {} THEN Registered
                                ELSE Registered \cap validator.list]
    /\ UNCHANGED <<worldVars, passed, doc, cursor, cache, watcher, monitor, request, faults>>

ValidatorCheck ==
    /\ validator.pc = "checking" /\ validator.left # {}
    /\ \E batch \in Batches(validator.left) :
         /\ validator' = Check(validator, batch)
         /\ passed' = passed \cup (batch \cap healthy)
    /\ UNCHANGED <<worldVars, doc, cursor, cache, watcher, monitor, request, faults>>

\* What the validator does to the entry: deletes it, leaves it or filters it.
Correction ==
    IF validator.passing = {} THEN "deleting"
    ELSE IF Cardinality(validator.passing) = Cardinality(validator.list) THEN "idle"
    ELSE "filtering"

\* updateIndexerStates: of the listed builders, seen within a day or not.
UpdateStates ==
    /\ validator.pc = "checking" /\ validator.left = {}
    /\ doc' = [b \in Builders |->
                 IF b \notin validator.list THEN doc[b]
                 ELSE [synced |-> IF b \in Registered THEN doc[b].synced ELSE 0,
                       active |-> b \in validator.passing]]
    /\ validator' = IF Correction = "idle" THEN IdleValidator
                    ELSE [validator EXCEPT !.pc = Correction]
    /\ UNCHANGED <<worldVars, passed, cursor, cache, watcher, monitor, request, faults>>

DeleteCache ==
    /\ validator.pc = "deleting"
    /\ cache' = None
    /\ validator' = IdleValidator
    /\ UNCHANGED <<worldVars, passed, doc, cursor, watcher, monitor, request, faults>>

\* getTtl: an entry that is gone is not written again.
ReadTtl ==
    /\ validator.pc = "filtering"
    /\ validator' = IF cache = None THEN IdleValidator ELSE [validator EXCEPT !.pc = "setting"]
    /\ UNCHANGED <<worldVars, passed, doc, cursor, cache, watcher, monitor, request, faults>>

\* The entry becomes what was read and passed, whatever it is by now.
SetCache ==
    /\ validator.pc = "setting"
    /\ cache' = validator.list \cap validator.passing
    /\ validator' = IdleValidator
    /\ UNCHANGED <<worldVars, passed, doc, cursor, watcher, monitor, request, faults>>

ValidatorFails ==
    /\ validator.pc # "idle"
    /\ \/ validator' = IdleValidator
       \/ /\ validator.left # {}
          /\ \E batch \in Batches(validator.left) : validator' = Drop(validator, batch)
    /\ Fault
    /\ UNCHANGED <<watcher, monitor, request>>

-----------------------------------------------------------------------------
(* The indexer API: GET /builders behind cacheMiddleware.                  *)

\* Random selections of as many of the builders as there are places.
Pick(builders, places) ==
    {S \in SUBSET builders : Cardinality(S) = Min({places, Cardinality(builders)})}

\* getBuildersByMode
Selections(active) ==
    LET allowed == active \cap Allowlist
        others == active \ Allowlist
        \* ALLOWLIST_PRIORITY has nothing to select from when nobody is active.
        one(group, instead) == Pick(IF group = {} THEN instead ELSE group, 1) \ {{}}
    IN  CASE Mode = "ALLOWLIST_ONLY" -> Pick(allowed, ListSize)
          [] Mode = "ALLOWLIST_PRIORITY" -> one(allowed, others) \cup one(others, allowed)
          [] Mode = "GUARANTEED_ALLOWLIST" ->
               {S \in Pick(active, ListSize) :
                  Cardinality(S \cap allowed) >= Min({MinAllowlist, Cardinality(allowed)})}
          [] Mode = "RANDOM" -> Pick(active, ListSize)

\* Nothing is cached.
Miss(r) ==
    /\ request[r].pc = "idle"
    /\ cache = None
    /\ request' = [request EXCEPT ![r].pc = "listing"]
    /\ UNCHANGED <<worldVars, passed, doc, cursor, cache, watcher, monitor, validator, faults>>

\* Mutant: no filter on `active`.
ListBuilders_Inactive(r) ==
    /\ request[r].pc = "listing"
    /\ \/ \E S \in Selections(Registered) :
            request' = [request EXCEPT ![r] = [pc |-> "storing", list |-> S]]
       \/ Selections(Registered) = {} /\ request' = [request EXCEPT ![r] = IdleRequest]
    /\ UNCHANGED <<worldVars, passed, doc, cursor, cache, watcher, monitor, validator, faults>>

\* listBlockBuilderNodes; randomInt throws when it has nothing to choose from.
ListBuilders(r) ==
    /\ request[r].pc = "listing"
    /\ \/ \E S \in Selections(Active) :
            request' = [request EXCEPT ![r] = [pc |-> "storing", list |-> S]]
       \/ Selections(Active) = {} /\ request' = [request EXCEPT ![r] = IdleRequest]
    /\ UNCHANGED <<worldVars, passed, doc, cursor, cache, watcher, monitor, validator, faults>>

Store(r) ==
    /\ request[r].pc = "storing"
    /\ cache' = request[r].list
    /\ request' = [request EXCEPT ![r] = IdleRequest]
    /\ UNCHANGED <<worldVars, passed, doc, cursor, watcher, monitor, validator, faults>>

\* The request ends with an error and nothing cached.
RequestFails(r) ==
    /\ request[r].pc # "idle"
    /\ request' = [request EXCEPT ![r] = IdleRequest]
    /\ Fault
    /\ UNCHANGED <<watcher, monitor, validator>>

-----------------------------------------------------------------------------

WatcherStep == Watch \/ Upsert \/ SaveCursor
MonitorStep == FetchRecent \/ MonitorCheck \/ Sync
ValidatorStep ==
    \/ ReadCache \/ FetchCached \/ ValidatorCheck \/ UpdateStates
    \/ DeleteCache \/ ReadTtl \/ SetCache

Next ==
    \/ Tick \/ Expire
    \/ \E b \in Builders : Heartbeat(b) \/ Toggle(b)
    \/ WatcherStep \/ WatcherFails
    \/ MonitorStep \/ MonitorFails
    \/ ValidatorStep \/ ValidatorFails
    \/ \E r \in Requests : Miss(r) \/ ListBuilders(r) \/ Store(r) \/ RequestFails(r)

Spec == Init /\ [][Next]_vars

\* The jobs are started again and again, the validator runs every ten
\* seconds, and a cache entry lives two minutes.  Clients need not ask for the
\* list, builders need not send heartbeats.
FairSpec ==
    /\ Spec
    /\ WF_vars(WatcherStep)
    /\ WF_vars(MonitorStep)
    /\ WF_vars(ValidatorStep)
    /\ WF_vars(Expire)

-----------------------------------------------------------------------------
(* Properties.                                                             *)

Lists == SUBSET Builders

\* Type invariant of the state above.
TypeOK ==
    /\ now \in 1..MaxTime
    /\ beats \in Seq([builder : Builders, time : 1..MaxTime]) /\ Len(beats) <= NumHeartbeats
    /\ healthy \in Lists /\ passed \in Lists
    /\ doc \in [Builders -> Docs \cup {None}]
    /\ cursor \in 0..Len(beats)
    /\ cache \in Lists \cup {None}
    /\ watcher \in [pc : {"idle", "upserting", "saving"}, cur : 0..Len(beats)]
    /\ monitor \in [pc : {"idle", "checking"}, left : Lists, passing : Lists]
    /\ validator \in [pc : {"idle", "fetching", "checking", "deleting", "filtering", "setting"},
                      list : Lists, left : Lists, passing : Lists]
    /\ request \in [Requests -> [pc : {"idle", "listing", "storing"}, list : Lists]]
    /\ faults \in 0..MaxFaults

Listed(b) == cache # None /\ b \in cache

\* Clients are never shown a builder that has passed no check: neither the
\* watcher, which writes the same documents, nor lists that programs hold while
\* the documents and the cache change let one through.
ListedPassed == \A b \in Builders : b \in Active \/ Listed(b) => b \in passed

\* The document of a builder is as recent as its last heartbeat that the cursor
\* has passed: no crash and no other program's write loses a heartbeat.
HeartbeatsKept ==
    \A b \in Builders : BeatsOf(b, 1, cursor) # {} =>
        b \in Registered /\ doc[b].synced >= beats[Max(BeatsOf(b, 1, cursor))].time

\* A builder that goes down for good is inactive and out of the cached list in
\* the end, whatever the programs knew of it while it was up.
DownRetired ==
    \A b \in Builders : <>[](b \notin healthy) => <>[](b \notin Active /\ ~Listed(b))

\* A builder that is up and sends heartbeats is active in the end.
UpActivated ==
    \A b \in Builders : <>[](b \in healthy \cap Recent) => <>[](b \in Active)

\* A builder that sent no heartbeat for a day is inactive in the end, unless the
\* cached list goes on showing it.
SilentRetiredUnlessListed ==
    \A b \in Builders : <>[](b \in Registered \ Recent /\ ~Listed(b)) => <>[](b \notin Active)
=============================================================================
