------------------------ MODULE BuilderRegistryProofs ------------------------
(***************************************************************************)
(* Safety of the builder registry for any set of builders, any number of   *)
(* API requests, every selection mode and any bounds: the type invariant,  *)
(* ListedPassed and HeartbeatsKept.                                        *)
(***************************************************************************)
EXTENDS BuilderRegistry, CollectionLemmas

-----------------------------------------------------------------------------
(* The inductive invariant.                                                *)

\* Whatever a program holds and may write as active or listed has passed.
PassedInv ==
    /\ Active \subseteq passed
    /\ cache # None => cache \subseteq passed
    /\ monitor.passing \subseteq passed
    /\ validator.passing \subseteq passed
    /\ \A r \in Requests : request[r].list \subseteq passed

\* Heartbeats are logged in the order of their times.
BeatsInv ==
    \A i \in 1..Len(beats) :
        /\ beats[i].time <= now
        /\ \A k \in i..Len(beats) : beats[i].time <= beats[k].time

\* The documents have the first n heartbeats.
KeptUpTo(n) ==
    \A i \in 1..n : /\ beats[i].builder \in Registered
                    /\ doc[beats[i].builder].synced >= beats[i].time

\* The watcher has read a block past the cursor, and saves it as the cursor
\* once the documents have the heartbeats up to it.
HeartbeatInv ==
    /\ BeatsInv
    /\ KeptUpTo(cursor)
    /\ watcher.pc # "idle" => cursor <= watcher.cur
    /\ watcher.pc = "saving" => KeptUpTo(watcher.cur)

IndInv == TypeOK /\ PassedInv /\ HeartbeatInv

-----------------------------------------------------------------------------
(* Operators.                                                              *)

LEMMA BatchIsLeft ==
    ASSUME NEW left, NEW batch \in Batches(left)
    PROVE  batch \subseteq left
<1> QED
  BY DEF Batches

\* Only builders of the given set are selected, in every mode.
LEMMA SelectionIsActive ==
    ASSUME NEW active, NEW S \in Selections(active)
    PROVE  S \subseteq active
<1>1. \A G, n : \A P \in Pick(G, n) : P \subseteq G
  BY DEF Pick
<1>2. \A G, H : \A P \in Pick(IF G = {} THEN H ELSE G, 1) \ {{}} : P \subseteq G \cup H
  BY DEF Pick
<1>3. Mode \in {"ALLOWLIST_ONLY", "ALLOWLIST_PRIORITY", "GUARANTEED_ALLOWLIST", "RANDOM"}
  BY BoundsAssumption
<1>4. CASE Mode = "ALLOWLIST_PRIORITY"
  <2> DEFINE allowed == active \cap Allowlist
             others == active \ Allowlist
  <2>1. \/ S \in Pick(IF allowed = {} THEN others ELSE allowed, 1) \ {{}}
        \/ S \in Pick(IF others = {} THEN allowed ELSE others, 1) \ {{}}
    BY <1>4 DEF Selections
  <2>2. S \subseteq allowed \cup others
    BY ZenonT(60), <1>2, <2>1
  <2> QED
    BY <2>2
<1>5. CASE Mode = "ALLOWLIST_ONLY"
  <2>1. S \in Pick(active \cap Allowlist, ListSize)
    BY <1>5 DEF Selections
  <2> QED
    BY <1>1, <2>1
<1>6. CASE Mode = "GUARANTEED_ALLOWLIST"
  <2>1. S \in Pick(active, ListSize)
    BY <1>6 DEF Selections
  <2> QED
    BY <1>1, <2>1
<1>7. CASE Mode = "RANDOM"
  <2>1. S \in Pick(active, ListSize)
    BY <1>7 DEF Selections
  <2> QED
    BY <1>1, <2>1
<1> QED
  BY <1>3, <1>4, <1>5, <1>6, <1>7

-----------------------------------------------------------------------------
(* Types.                                                                  *)

LEMMA WorldType ==
    ASSUME TypeOK, Tick \/ Expire \/ \E b \in Builders : Heartbeat(b) \/ Toggle(b)
    PROVE  TypeOK'
<1>1. CASE Tick
  BY <1>1, BoundsAssumption DEF TypeOK, Tick
<1>2. CASE Expire
  BY <1>2 DEF TypeOK, Expire, worldVars
<1>3. ASSUME NEW b \in Builders, Heartbeat(b) PROVE TypeOK'
  <2> DEFINE beat == [builder |-> b, time |-> now]
  <2>1. beat \in [builder : Builders, time : 1..MaxTime]
    BY DEF TypeOK
  <2>2. /\ beats' \in Seq([builder : Builders, time : 1..MaxTime])
        /\ Len(beats') = Len(beats) + 1 /\ Len(beats) \in Nat /\ Len(beats') <= NumHeartbeats
    BY <1>3, <2>1, BoundsAssumption DEF TypeOK, Heartbeat
  <2>3. 0..Len(beats) \subseteq 0..Len(beats')
    BY <2>2
  <2> QED
    BY <1>3, <2>2, <2>3 DEF TypeOK, Heartbeat
<1>4. ASSUME NEW b \in Builders, Toggle(b) PROVE TypeOK'
  BY <1>4 DEF TypeOK, Toggle, Lists
<1> QED
  BY <1>1, <1>2, <1>3, <1>4

LEMMA WatcherType ==
    ASSUME TypeOK, HeartbeatInv, WatcherStep
    PROVE  TypeOK'
<1> USE DEF worldVars
<1>1. CASE Watch
  BY <1>1 DEF TypeOK, Watch
<1>2. CASE Upsert
  <2>1. ASSUME NEW b \in Builders, BeatsOf(b, cursor + 1, watcher.cur) # {}
        PROVE  beats[LastBeat(b)].time \in Nat
    <3>1. BeatsOf(b, cursor + 1, watcher.cur) \subseteq 0..watcher.cur /\ watcher.cur \in Nat
      BY DEF BeatsOf, TypeOK
    <3>2. LastBeat(b) \in BeatsOf(b, cursor + 1, watcher.cur)
      BY <2>1, <3>1, MaxIsLargest DEF LastBeat
    <3>3. LastBeat(b) \in 1..Len(beats)
      BY <3>1, <3>2 DEF BeatsOf, TypeOK
    <3>4. beats[LastBeat(b)] \in [builder : Builders, time : 1..MaxTime]
      BY <3>3, ElementOfSeq DEF TypeOK
    <3> QED
      BY <3>4
  <2>2. \A b \in Builders : (b \in Active) \in BOOLEAN
    OBVIOUS
  <2>3. doc' \in [Builders -> Docs \cup {None}]
    BY <1>2, <2>1, <2>2 DEF Upsert, TypeOK, Docs
  <2> QED
    BY <1>2, <2>3 DEF TypeOK, Upsert
<1>3. CASE SaveCursor
  BY <1>3 DEF TypeOK, SaveCursor, IdleWatcher
<1> QED
  BY <1>1, <1>2, <1>3 DEF WatcherStep

LEMMA CheckType ==
    ASSUME NEW P, NEW run \in P, NEW batch \in Batches(run.left),
           P = [pc : {"idle", "checking"}, left : Lists, passing : Lists]
           \/ P = [pc : {"idle", "fetching", "checking", "deleting", "filtering", "setting"},
                   list : Lists, left : Lists, passing : Lists]
    PROVE  /\ Check(run, batch) \in P /\ Drop(run, batch) \in P
           /\ batch \in Lists
<1>1. run.left \in Lists /\ run.passing \in Lists
  <2>1. CASE P = [pc : {"idle", "checking"}, left : Lists, passing : Lists]
    BY <2>1
  <2>2. CASE P = [pc : {"idle", "fetching", "checking", "deleting", "filtering", "setting"},
                  list : Lists, left : Lists, passing : Lists]
    BY <2>2
  <2> QED
    BY <2>1, <2>2
<1>2. batch \subseteq run.left
  BY BatchIsLeft
<1>3. run.left \ batch \in Lists /\ run.passing \cup (batch \cap healthy) \in Lists
      /\ batch \in Lists
  BY <1>1, <1>2 DEF Lists
<1> QED
  BY <1>3 DEF Check, Drop

LEMMA MonitorType ==
    ASSUME TypeOK, MonitorStep
    PROVE  TypeOK'
<1> USE DEF worldVars
<1>1. CASE FetchRecent
  BY <1>1 DEF TypeOK, FetchRecent, Recent, Registered, Lists
<1>2. CASE MonitorCheck
  <2>1. PICK batch \in Batches(monitor.left) :
          monitor' = Check(monitor, batch) /\ passed' = passed \cup (batch \cap healthy)
    BY <1>2 DEF MonitorCheck
  <2>2. monitor' \in [pc : {"idle", "checking"}, left : Lists, passing : Lists] /\ batch \in Lists
    BY <2>1, CheckType DEF TypeOK
  <2>3. passed' \in Lists
    BY <2>1, <2>2 DEF TypeOK, Lists
  <2> QED
    BY <1>2, <2>2, <2>3 DEF TypeOK, MonitorCheck
<1>3. CASE Sync
  <2>1. \A d \in Docs, a \in BOOLEAN : [d EXCEPT !.active = a] \in Docs
    BY DEF Docs
  <2>2. \A b \in Registered : [doc[b] EXCEPT !.active = b \in monitor.passing] \in Docs
    <3>1. \A b \in Registered : doc[b] \in Docs /\ (b \in monitor.passing) \in BOOLEAN
      BY DEF TypeOK, Registered
    <3> QED
      BY <2>1, <3>1
  <2>3. doc' \in [Builders -> Docs \cup {None}]
    BY <1>3, <2>2 DEF Sync, TypeOK, Registered
  <2> QED
    BY <1>3, <2>3 DEF TypeOK, Sync, IdleMonitor, Lists
<1> QED
  BY <1>1, <1>2, <1>3 DEF MonitorStep

LEMMA ValidatorType ==
    ASSUME TypeOK, ValidatorStep
    PROVE  TypeOK'
<1> USE DEF worldVars
<1> DEFINE Validators == [pc : {"idle", "fetching", "checking", "deleting", "filtering", "setting"},
                          list : Lists, left : Lists, passing : Lists]
<1>1. validator \in Validators /\ IdleValidator \in Validators
  BY DEF TypeOK, IdleValidator, Lists
<1>2. CASE ReadCache
  <2>1. validator' \in Validators
    BY <1>1, <1>2 DEF ReadCache, TypeOK
  <2> QED
    BY <1>2, <2>1 DEF TypeOK, ReadCache
<1>3. CASE FetchCached
  <2>1. Registered \in Lists /\ Registered \cap validator.list \in Lists
    BY DEF Registered, Lists
  <2>2. validator' \in Validators
    BY <1>1, <1>3, <2>1 DEF FetchCached
  <2> QED
    BY <1>3, <2>2 DEF TypeOK, FetchCached
<1>4. CASE ValidatorCheck
  <2>1. PICK batch \in Batches(validator.left) :
          validator' = Check(validator, batch) /\ passed' = passed \cup (batch \cap healthy)
    BY <1>4 DEF ValidatorCheck
  <2>2. validator' \in Validators /\ batch \in Lists
    BY <1>1, <2>1, CheckType
  <2>3. passed' \in Lists
    BY <2>1, <2>2 DEF TypeOK, Lists
  <2> QED
    BY <1>4, <2>2, <2>3 DEF TypeOK, ValidatorCheck
<1>5. CASE UpdateStates
  <2>1. \A n \in Nat, a \in BOOLEAN : [synced |-> n, active |-> a] \in Docs
    BY DEF Docs
  <2>2. \A b \in Builders :
          /\ (b \in validator.passing) \in BOOLEAN
          /\ (IF b \in Registered THEN doc[b].synced ELSE 0) \in Nat
    BY DEF TypeOK, Registered, Docs
  <2>3. doc' \in [Builders -> Docs \cup {None}]
    BY <1>5, <2>1, <2>2 DEF UpdateStates, TypeOK
  <2>4. validator' \in Validators
    BY <1>1, <1>5 DEF UpdateStates, Correction
  <2> QED
    BY <1>5, <2>3, <2>4 DEF TypeOK, UpdateStates
<1>6. CASE DeleteCache
  BY <1>1, <1>6 DEF TypeOK, DeleteCache
<1>7. CASE ReadTtl
  <2>1. validator' \in Validators
    BY <1>1, <1>7 DEF ReadTtl
  <2> QED
    BY <1>7, <2>1 DEF TypeOK, ReadTtl
<1>8. CASE SetCache
  <2>1. validator.list \cap validator.passing \in Lists
    BY <1>1 DEF Lists
  <2> QED
    BY <1>1, <1>8, <2>1 DEF TypeOK, SetCache
<1> QED
  BY <1>2, <1>3, <1>4, <1>5, <1>6, <1>7, <1>8 DEF ValidatorStep

LEMMA RequestType ==
    ASSUME TypeOK, NEW r \in Requests, Miss(r) \/ ListBuilders(r) \/ Store(r)
    PROVE  TypeOK'
<1> USE DEF worldVars
<1>1. IdleRequest \in [pc : {"idle", "listing", "storing"}, list : Lists]
  BY DEF IdleRequest, Lists
<1>2. CASE Miss(r)
  BY <1>2 DEF TypeOK, Miss
<1>3. CASE ListBuilders(r)
  <2>1. \A S \in Selections(Active) : S \in Lists
    BY SelectionIsActive DEF Active, Registered, Lists
  <2>2. request' \in [Requests -> [pc : {"idle", "listing", "storing"}, list : Lists]]
    BY <1>1, <1>3, <2>1 DEF TypeOK, ListBuilders
  <2> QED
    BY <1>3, <2>2 DEF TypeOK, ListBuilders
<1>4. CASE Store(r)
  BY <1>1, <1>4 DEF TypeOK, Store
<1> QED
  BY <1>2, <1>3, <1>4

LEMMA FaultType ==
    ASSUME TypeOK, \/ WatcherFails \/ MonitorFails \/ ValidatorFails
                   \/ \E r \in Requests : RequestFails(r)
    PROVE  TypeOK'
<1> USE DEF worldVars
<1>1. Fault /\ faults' \in 0..MaxFaults
  BY BoundsAssumption DEF WatcherFails, MonitorFails, ValidatorFails, RequestFails, Fault, TypeOK
<1>2. CASE WatcherFails
  BY <1>1, <1>2 DEF TypeOK, Fault, WatcherFails, IdleWatcher
<1>3. CASE MonitorFails
  <2> DEFINE Monitors == [pc : {"idle", "checking"}, left : Lists, passing : Lists]
  <2>1. CASE monitor' = IdleMonitor
    <3>1. monitor' \in Monitors
      BY <2>1 DEF IdleMonitor, Lists
    <3> QED
      BY <1>1, <1>3, <3>1 DEF TypeOK, Fault, MonitorFails
  <2>2. ASSUME NEW batch \in Batches(monitor.left), monitor' = Drop(monitor, batch)
        PROVE  TypeOK'
    <3>1. monitor \in Monitors
      BY DEF TypeOK
    <3>2. monitor' \in Monitors
      BY <2>2, <3>1, CheckType
    <3> QED
      BY <1>1, <1>3, <3>2 DEF TypeOK, Fault, MonitorFails
  <2> QED
    BY <1>3, <2>1, <2>2 DEF MonitorFails
<1>4. CASE ValidatorFails
  <2> DEFINE Validators == [pc : {"idle", "fetching", "checking", "deleting", "filtering", "setting"},
                            list : Lists, left : Lists, passing : Lists]
  <2>1. CASE validator' = IdleValidator
    <3>1. validator' \in Validators
      BY <2>1 DEF IdleValidator, Lists
    <3> QED
      BY <1>1, <1>4, <3>1 DEF TypeOK, Fault, ValidatorFails
  <2>2. ASSUME NEW batch \in Batches(validator.left), validator' = Drop(validator, batch)
        PROVE  TypeOK'
    <3>1. validator \in Validators
      BY DEF TypeOK
    <3>2. validator' \in Validators
      BY <2>2, <3>1, CheckType
    <3> QED
      BY <1>1, <1>4, <3>2 DEF TypeOK, Fault, ValidatorFails
  <2> QED
    BY <1>4, <2>1, <2>2 DEF ValidatorFails
<1>5. ASSUME NEW r \in Requests, RequestFails(r) PROVE TypeOK'
  <2>1. IdleRequest \in [pc : {"idle", "listing", "storing"}, list : Lists]
    BY DEF IdleRequest, Lists
  <2> QED
    BY <1>1, <1>5, <2>1 DEF TypeOK, Fault, RequestFails
<1> QED
  BY <1>2, <1>3, <1>4, <1>5

LEMMA StepType ==
    ASSUME TypeOK, HeartbeatInv, Next
    PROVE  TypeOK'
<1> QED
  BY WorldType, WatcherType, MonitorType, ValidatorType, RequestType, FaultType DEF Next

-----------------------------------------------------------------------------
(* Who has passed.                                                         *)

LEMMA PassedWatcher ==
    ASSUME TypeOK, PassedInv, WatcherStep
    PROVE  PassedInv'
<1> USE DEF worldVars, PassedInv
<1>1. CASE Watch
  BY <1>1 DEF Watch, Active, Registered
<1>2. CASE Upsert
  <2>1. ASSUME NEW b \in Active' PROVE b \in passed
    <3>1. CASE BeatsOf(b, cursor + 1, watcher.cur) = {}
      BY <1>2, <2>1, <3>1 DEF Upsert, Active, Registered
    <3>2. CASE BeatsOf(b, cursor + 1, watcher.cur) # {}
      <4>1. doc'[b].active = (b \in Active)
        BY <1>2, <2>1, <3>2 DEF Upsert, Active, Registered
      <4>2. doc'[b].active
        BY <2>1 DEF Active
      <4>3. b \in Active
        BY <4>1, <4>2
      <4> QED
        BY <4>3
    <3> QED
      BY <3>1, <3>2
  <2> QED
    BY <1>2, <2>1 DEF Upsert
<1>3. CASE SaveCursor
  BY <1>3 DEF SaveCursor, Active, Registered
<1> QED
  BY <1>1, <1>2, <1>3 DEF WatcherStep

LEMMA PassedMonitor ==
    ASSUME TypeOK, PassedInv, MonitorStep
    PROVE  PassedInv'
<1> USE DEF worldVars, PassedInv
<1>1. CASE FetchRecent
  BY <1>1 DEF FetchRecent, Active, Registered
<1>2. CASE MonitorCheck
  <2>1. PICK batch \in Batches(monitor.left) :
          monitor' = Check(monitor, batch) /\ passed' = passed \cup (batch \cap healthy)
    BY <1>2 DEF MonitorCheck
  <2>2. monitor'.passing = monitor.passing \cup (batch \cap healthy)
    BY <2>1 DEF Check, TypeOK
  <2>3. Active' = Active
    BY <1>2 DEF MonitorCheck, Active, Registered
  <2> QED
    BY <1>2, <2>1, <2>2, <2>3 DEF MonitorCheck
<1>3. CASE Sync
  <2>1. ASSUME NEW b \in Active' PROVE b \in monitor.passing
    <3>1. b \in Registered
      BY <1>3, <2>1 DEF Sync, Active, Registered
    <3>2. doc'[b] = [doc[b] EXCEPT !.active = b \in monitor.passing] /\ doc[b] \in Docs
      BY <1>3, <3>1 DEF Sync, Registered, TypeOK
    <3>3. doc'[b].active = (b \in monitor.passing)
      BY <3>2 DEF Docs
    <3> QED
      BY <2>1, <3>3 DEF Active
  <2> QED
    BY <1>3, <2>1 DEF Sync, IdleMonitor
<1> QED
  BY <1>1, <1>2, <1>3 DEF MonitorStep

LEMMA PassedValidator ==
    ASSUME TypeOK, PassedInv, ValidatorStep
    PROVE  PassedInv'
<1> USE DEF worldVars, PassedInv
<1>1. doc' = doc => Active' = Active
  BY DEF Active, Registered
<1>2. CASE ReadCache
  <2>1. validator'.passing = {}
    BY <1>2 DEF ReadCache, IdleValidator
  <2> QED
    BY <1>1, <1>2, <2>1 DEF ReadCache
<1>3. CASE FetchCached
  <2>1. validator'.passing = validator.passing
    BY <1>3 DEF FetchCached, TypeOK
  <2> QED
    BY <1>1, <1>3, <2>1 DEF FetchCached
<1>4. CASE ValidatorCheck
  <2>1. PICK batch \in Batches(validator.left) :
          validator' = Check(validator, batch) /\ passed' = passed \cup (batch \cap healthy)
    BY <1>4 DEF ValidatorCheck
  <2>2. validator'.passing = validator.passing \cup (batch \cap healthy)
    BY <2>1 DEF Check, TypeOK
  <2> QED
    BY <1>1, <1>4, <2>1, <2>2 DEF ValidatorCheck
<1>5. CASE UpdateStates
  <2>1. ASSUME NEW b \in Active' PROVE b \in passed
    <3>1. CASE b \in validator.list
      <4>1. doc'[b].active = (b \in validator.passing)
        BY <1>5, <2>1, <3>1 DEF UpdateStates, Active, Registered
      <4> QED
        BY <2>1, <4>1 DEF Active
    <3>2. CASE b \notin validator.list
      BY <1>5, <2>1, <3>2 DEF UpdateStates, Active, Registered
    <3> QED
      BY <3>1, <3>2
  <2>2. validator'.passing \subseteq validator.passing
    BY <1>5 DEF UpdateStates, IdleValidator, TypeOK
  <2> QED
    BY <1>5, <2>1, <2>2 DEF UpdateStates
<1>6. CASE DeleteCache
  BY <1>1, <1>6 DEF DeleteCache, IdleValidator
<1>7. CASE ReadTtl
  <2>1. validator'.passing \subseteq validator.passing
    BY <1>7 DEF ReadTtl, IdleValidator, TypeOK
  <2> QED
    BY <1>1, <1>7, <2>1 DEF ReadTtl
<1>8. CASE SetCache
  BY <1>1, <1>8 DEF SetCache, IdleValidator
<1> QED
  BY <1>2, <1>3, <1>4, <1>5, <1>6, <1>7, <1>8 DEF ValidatorStep

LEMMA PassedRequest ==
    ASSUME TypeOK, PassedInv, NEW r \in Requests,
           Miss(r) \/ ListBuilders(r) \/ Store(r) \/ RequestFails(r)
    PROVE  PassedInv'
<1> USE DEF worldVars, PassedInv
<1>1. Active' = Active
  BY DEF Miss, ListBuilders, Store, RequestFails, Fault, Active, Registered
<1>2. CASE Miss(r)
  <2>1. \A q \in Requests : request'[q].list = request[q].list
    BY <1>2 DEF Miss, TypeOK
  <2> QED
    BY <1>1, <1>2, <2>1 DEF Miss
<1>3. CASE ListBuilders(r)
  <2>1. request'[r].list \subseteq Active
    <3>1. CASE request' = [request EXCEPT ![r] = IdleRequest]
      BY <3>1 DEF IdleRequest, TypeOK
    <3>2. ASSUME NEW S \in Selections(Active),
                 request' = [request EXCEPT ![r] = [pc |-> "storing", list |-> S]]
          PROVE  request'[r].list \subseteq Active
      <4>1. S \subseteq Active
        BY SelectionIsActive
      <4>2. request'[r].list = S
        BY <3>2 DEF TypeOK
      <4> QED
        BY <4>1, <4>2
    <3> QED
      BY <1>3, <3>1, <3>2 DEF ListBuilders
  <2>2. \A q \in Requests \ {r} : request'[q] = request[q]
    BY <1>3 DEF ListBuilders, TypeOK
  <2> QED
    BY <1>1, <1>3, <2>1, <2>2 DEF ListBuilders
<1>4. CASE Store(r)
  <2>1. \A q \in Requests : request'[q].list \subseteq request[q].list
    BY <1>4 DEF Store, IdleRequest, TypeOK
  <2> QED
    BY <1>1, <1>4, <2>1 DEF Store
<1>5. CASE RequestFails(r)
  <2>1. \A q \in Requests : request'[q].list \subseteq request[q].list
    BY <1>5 DEF RequestFails, IdleRequest, TypeOK
  <2> QED
    BY <1>1, <1>5, <2>1 DEF RequestFails, Fault
<1> QED
  BY <1>2, <1>3, <1>4, <1>5

LEMMA PassedOther ==
    ASSUME TypeOK, PassedInv,
           \/ Tick \/ Expire \/ WatcherFails \/ MonitorFails \/ ValidatorFails
           \/ \E b \in Builders : Heartbeat(b) \/ Toggle(b)
    PROVE  PassedInv'
<1> USE DEF worldVars, PassedInv
<1>1. Active' = Active
  BY DEF Tick, Expire, WatcherFails, MonitorFails, ValidatorFails, Heartbeat, Toggle, Fault,
         Active, Registered
<1>2. CASE MonitorFails
  <2>1. monitor'.passing \subseteq monitor.passing
    BY SMTT(30), <1>2 DEF MonitorFails, IdleMonitor, Drop, TypeOK
  <2> QED
    BY <1>1, <1>2, <2>1 DEF MonitorFails, Fault
<1>3. CASE ValidatorFails
  <2>1. validator'.passing \subseteq validator.passing
    BY SMTT(30), <1>3 DEF ValidatorFails, IdleValidator, Drop, TypeOK
  <2> QED
    BY <1>1, <1>3, <2>1 DEF ValidatorFails, Fault
<1>4. CASE WatcherFails
  BY <1>1, <1>4 DEF WatcherFails, Fault
<1>5. CASE Tick
  BY <1>1, <1>5 DEF Tick
<1>6. CASE Expire
  BY <1>1, <1>6 DEF Expire
<1>7. ASSUME NEW b \in Builders, Heartbeat(b) \/ Toggle(b) PROVE PassedInv'
  BY <1>1, <1>7 DEF Heartbeat, Toggle
<1> QED
  BY <1>2, <1>3, <1>4, <1>5, <1>6, <1>7

LEMMA StepPassed ==
    ASSUME TypeOK, PassedInv, Next
    PROVE  PassedInv'
<1> QED
  BY PassedWatcher, PassedMonitor, PassedValidator, PassedRequest, PassedOther DEF Next

-----------------------------------------------------------------------------
(* Which heartbeats are kept.                                              *)

LEMMA BeatType ==
    ASSUME TypeOK
    PROVE  /\ Len(beats) \in Nat
           /\ \A i \in 1..Len(beats) : beats[i].builder \in Builders /\ beats[i].time \in Nat
<1>1. beats \in Seq([builder : Builders, time : 1..MaxTime]) /\ Len(beats) \in Nat
  BY DEF TypeOK
<1>2. \A i \in 1..Len(beats) : beats[i] \in [builder : Builders, time : 1..MaxTime]
  BY <1>1, ElementOfSeq
<1> QED
  BY <1>1, <1>2

\* The last heartbeat of a builder in a range of logs.
LEMMA LastBeatInRange ==
    ASSUME TypeOK, NEW b \in Builders, BeatsOf(b, cursor + 1, watcher.cur) # {}
    PROVE  /\ LastBeat(b) \in BeatsOf(b, cursor + 1, watcher.cur)
           /\ LastBeat(b) \in 1..Len(beats) /\ LastBeat(b) > cursor
           /\ \A i \in BeatsOf(b, cursor + 1, watcher.cur) : i <= LastBeat(b)
<1>1. watcher.cur \in 0..Len(beats) /\ cursor \in 0..Len(beats) /\ Len(beats) \in Nat
  BY BeatType DEF TypeOK
<1>2. BeatsOf(b, cursor + 1, watcher.cur) \subseteq (cursor + 1)..Len(beats)
  BY <1>1 DEF BeatsOf
<1>3. BeatsOf(b, cursor + 1, watcher.cur) \subseteq 0..Len(beats)
  BY <1>1, <1>2
<1>4. /\ LastBeat(b) \in BeatsOf(b, cursor + 1, watcher.cur)
      /\ \A i \in BeatsOf(b, cursor + 1, watcher.cur) : i <= LastBeat(b)
  BY <1>1, <1>3, MaxIsLargest DEF LastBeat
<1> QED
  BY <1>1, <1>2, <1>4

\* Heartbeats stay kept while the logs and the documents only advance.
LEMMA KeptForward ==
    ASSUME TypeOK, TypeOK', NEW n \in 0..Len(beats), KeptUpTo(n),
           \A i \in 1..Len(beats) : beats'[i] = beats[i],
           \A b \in Registered : b \in Registered' /\ doc'[b].synced >= doc[b].synced
    PROVE  \A i \in 1..n : /\ beats'[i].builder \in Registered'
                           /\ doc'[beats'[i].builder].synced >= beats'[i].time
<1>1. TAKE i \in 1..n
<1>2. /\ beats'[i] = beats[i] /\ beats[i].builder \in Registered
      /\ doc[beats[i].builder].synced >= beats[i].time
  BY DEF KeptUpTo, TypeOK
<1>3. i \in 1..Len(beats) /\ beats[i].time \in Nat
  BY BeatType
<1>4. \A b \in Registered : doc[b].synced \in Nat
  BY DEF Registered, TypeOK, Docs
<1>5. \A b \in Registered' : doc'[b].synced \in Nat
  BY DEF Registered, TypeOK, Docs
<1> DEFINE b == beats[i].builder
<1>6. /\ b \in Registered /\ b \in Registered' /\ doc'[b].synced >= doc[b].synced
      /\ doc[b].synced >= beats[i].time
  BY <1>2
<1>7. doc[b].synced \in Nat /\ doc'[b].synced \in Nat /\ beats[i].time \in Nat
  BY <1>3, <1>4, <1>5, <1>6
<1>8. doc'[b].synced >= beats[i].time
  <2> HIDE DEF b
  <2> QED
    BY <1>6, <1>7
<1> QED
  BY <1>2, <1>6, <1>8

\* The steps that touch neither the logs, the watcher nor the clock, and take
\* back no heartbeat from a document.
LEMMA HeartbeatForward ==
    ASSUME TypeOK, TypeOK', HeartbeatInv,
           now' = now, beats' = beats, cursor' = cursor,
           watcher' = watcher \/ watcher'.pc = "idle",
           \A b \in Registered : b \in Registered' /\ doc'[b].synced >= doc[b].synced
    PROVE  HeartbeatInv'
<1>1. cursor \in 0..Len(beats) /\ watcher.cur \in 0..Len(beats)
  BY DEF TypeOK
<1>2. KeptUpTo(cursor)'
  BY <1>1, KeptForward DEF HeartbeatInv, KeptUpTo
<1>3. CASE watcher' = watcher
  <2>1. ASSUME watcher.pc = "saving" PROVE KeptUpTo(watcher.cur)'
    <3>1. KeptUpTo(watcher.cur)
      BY <2>1 DEF HeartbeatInv
    <3> QED
      BY <1>1, <1>3, <3>1, KeptForward DEF KeptUpTo
  <2> QED
    BY <1>2, <1>3, <2>1 DEF HeartbeatInv, BeatsInv
<1>4. CASE watcher'.pc = "idle"
  BY <1>2, <1>4 DEF HeartbeatInv, BeatsInv
<1> QED
  BY <1>3, <1>4

LEMMA HeartbeatWorld ==
    ASSUME TypeOK, TypeOK', HeartbeatInv, Tick \/ \E b \in Builders : Heartbeat(b)
    PROVE  HeartbeatInv'
<1>1. Len(beats) \in Nat /\ \A i \in 1..Len(beats) : beats[i].time \in Nat
  BY BeatType
<1>2. CASE Tick
  <2>1. now' = now + 1 /\ now \in Nat /\ beats' = beats
    BY <1>2 DEF Tick, TypeOK
  <2>2. \A i \in 1..Len(beats) : beats[i].time <= now'
    BY <1>1, <2>1 DEF BeatsInv, HeartbeatInv
  <2>3. BeatsInv'
    BY <2>1, <2>2 DEF BeatsInv, HeartbeatInv
  <2> QED
    BY <1>2, <2>3 DEF Tick, HeartbeatInv, KeptUpTo, Registered
<1>3. ASSUME NEW b \in Builders, Heartbeat(b) PROVE HeartbeatInv'
  <2> DEFINE beat == [builder |-> b, time |-> now]
             Beats == [builder : Builders, time : 1..MaxTime]
  <2>1. beats \in Seq(Beats) /\ beat \in Beats /\ Len(beats) \in Nat
    BY DEF TypeOK
  <2>2. beats' = Append(beats, beat)
    BY <1>3 DEF Heartbeat
  <2>3. /\ Len(beats') = Len(beats) + 1
        /\ \A i \in 1..Len(beats) : beats'[i] = beats[i]
        /\ beats'[Len(beats) + 1] = beat
    BY <2>1, <2>2, AppendProperties
  <2>4. /\ now' = now /\ doc' = doc /\ cursor' = cursor /\ watcher' = watcher
        /\ Registered' = Registered
    BY <1>3 DEF Heartbeat, Registered
  <2>5. BeatsInv'
    <3> SUFFICES ASSUME NEW i \in 1..Len(beats')
                 PROVE  /\ beats'[i].time <= now
                        /\ \A k \in i..Len(beats') : beats'[i].time <= beats'[k].time
      BY <2>4 DEF BeatsInv
    <3>1. beat.time = now /\ now \in Nat
      BY DEF TypeOK
    <3>2. CASE i = Len(beats) + 1
      <4>1. beats'[i] = beat /\ \A k \in i..Len(beats') : k = i
        BY <2>1, <2>3, <3>2
      <4> QED
        BY <3>1, <4>1
    <3>3. CASE i \in 1..Len(beats)
      <4>1. /\ beats'[i] = beats[i] /\ beats[i].time <= now
            /\ \A k \in i..Len(beats) : beats[i].time <= beats[k].time
        BY <2>3, <3>3 DEF HeartbeatInv, BeatsInv
      <4>2. ASSUME NEW k \in i..Len(beats') PROVE beats'[i].time <= beats'[k].time
        <5>1. CASE k = Len(beats) + 1
          BY <2>3, <3>1, <4>1, <5>1
        <5>2. CASE k \in i..Len(beats)
          <6>1. k \in 1..Len(beats)
            BY <2>1, <3>3, <5>2
          <6> QED
            BY <2>3, <4>1, <5>2, <6>1
        <5> QED
          BY <2>1, <2>3, <3>3, <5>1, <5>2
      <4> QED
        BY <4>1, <4>2
    <3> QED
      BY <2>1, <2>3, <3>2, <3>3
  <2>6. \A n \in 0..Len(beats) : KeptUpTo(n) =>
          \A i \in 1..n : /\ beats'[i].builder \in Registered'
                          /\ doc'[beats'[i].builder].synced >= beats'[i].time
    <3>1. TAKE n \in 0..Len(beats)
    <3>2. \A i \in 1..n : beats'[i] = beats[i]
      BY <2>1, <2>3
    <3> QED
      BY <2>4, <3>2 DEF KeptUpTo
  <2>7. cursor \in 0..Len(beats) /\ watcher.cur \in 0..Len(beats)
    BY DEF TypeOK
  <2> QED
    BY <2>4, <2>5, <2>6, <2>7 DEF HeartbeatInv, KeptUpTo
<1> QED
  BY <1>2, <1>3

LEMMA HeartbeatWatcher ==
    ASSUME TypeOK, TypeOK', HeartbeatInv, WatcherStep
    PROVE  HeartbeatInv'
<1> USE DEF worldVars
<1>1. CASE Watch
  BY <1>1 DEF Watch, HeartbeatInv, BeatsInv, KeptUpTo, Registered, TypeOK
<1>2. CASE SaveCursor
  BY <1>2 DEF SaveCursor, IdleWatcher, HeartbeatInv, BeatsInv, KeptUpTo, Registered, TypeOK
<1>3. CASE Upsert
  <2> DEFINE Latest(b) == BeatsOf(b, cursor + 1, watcher.cur)
  <2>1. /\ watcher.cur \in 0..Len(beats) /\ cursor \in 0..watcher.cur /\ Len(beats) \in Nat
    BY <1>3, BeatType DEF TypeOK, Upsert, HeartbeatInv
  <2>2. /\ now' = now /\ beats' = beats /\ cursor' = cursor
        /\ watcher'.pc = "saving" /\ watcher'.cur = watcher.cur
    BY <1>3 DEF Upsert, TypeOK
  <2>3. \A b \in Builders : Latest(b) = {} => doc'[b] = doc[b]
    BY <1>3 DEF Upsert
  <2>4. \A b \in Builders : Latest(b) # {} =>
          b \in Registered' /\ doc'[b].synced = beats[LastBeat(b)].time
    <3>1. TAKE b \in Builders
    <3>2. HAVE Latest(b) # {}
    <3>3. doc'[b] = [synced |-> beats[LastBeat(b)].time, active |-> b \in Active]
      BY <1>3, <3>2 DEF Upsert
    <3>4. beats[LastBeat(b)].time \in Nat /\ (b \in Active) \in BOOLEAN
      BY <3>2, LastBeatInRange, BeatType
    <3>5. doc'[b] \in Docs /\ doc'[b].synced = beats[LastBeat(b)].time
      BY <3>3, <3>4 DEF Docs
    <3> QED
      BY <3>5, NoneAssumption DEF Registered
  <2>5. ASSUME NEW i \in 1..watcher.cur
        PROVE  /\ beats[i].builder \in Registered'
               /\ doc'[beats[i].builder].synced >= beats[i].time
    <3> DEFINE b == beats[i].builder
    <3>1. i \in 1..Len(beats) /\ b \in Builders /\ beats[i].time \in Nat
      BY <2>1, BeatType
    <3>2. CASE Latest(b) = {}
      <4>1. i \in 1..cursor
        BY <2>1, <3>1, <3>2 DEF BeatsOf
      <4> QED
        BY <2>3, <3>1, <3>2, <4>1 DEF HeartbeatInv, KeptUpTo, Registered
    <3>3. CASE Latest(b) # {}
      <4>1. LastBeat(b) \in i..Len(beats)
        <5>1. CASE i \in Latest(b)
          BY <2>1, <3>1, <3>3, <5>1, LastBeatInRange
        <5>2. CASE i \notin Latest(b)
          <6>1. i <= cursor
            BY <2>1, <3>1, <5>2 DEF BeatsOf
          <6> QED
            BY <2>1, <3>1, <3>3, <6>1, LastBeatInRange
        <5> QED
          BY <5>1, <5>2
      <4>2. beats[i].time <= beats[LastBeat(b)].time
        BY <3>1, <4>1 DEF HeartbeatInv, BeatsInv
      <4>3. beats[LastBeat(b)].time \in Nat
        BY <3>1, <3>3, LastBeatInRange, BeatType
      <4>4. b \in Registered' /\ doc'[b].synced = beats[LastBeat(b)].time
        BY <2>4, <3>1, <3>3
      <4> QED
        BY <3>1, <4>2, <4>3, <4>4
    <3> QED
      BY <3>2, <3>3
  <2>6. KeptUpTo(watcher.cur)'
    BY <2>2, <2>5 DEF KeptUpTo
  <2>7. KeptUpTo(cursor)'
    BY <2>1, <2>2, <2>5 DEF KeptUpTo
  <2>8. BeatsInv'
    BY <2>2 DEF HeartbeatInv, BeatsInv
  <2> QED
    BY <2>1, <2>2, <2>6, <2>7, <2>8 DEF HeartbeatInv
<1> QED
  BY <1>1, <1>2, <1>3 DEF WatcherStep

LEMMA StepHeartbeat ==
    ASSUME TypeOK, TypeOK', HeartbeatInv, Next
    PROVE  HeartbeatInv'
<1> USE DEF worldVars
<1> DEFINE Forward == \A b \in Registered : b \in Registered' /\ doc'[b].synced >= doc[b].synced
<1>1. \A b \in Registered : doc[b].synced \in Nat
  BY DEF Registered, TypeOK, Docs
<1>2. doc' = doc => Forward
  BY <1>1 DEF Registered
<1>3. CASE Tick \/ \E b \in Builders : Heartbeat(b)
  BY <1>3, HeartbeatWorld
<1>4. CASE WatcherStep
  BY <1>4, HeartbeatWatcher
<1>5. CASE Expire \/ (\E b \in Builders : Toggle(b))
  BY <1>2, <1>5, HeartbeatForward DEF Expire, Toggle
<1>6. CASE WatcherFails \/ MonitorFails \/ ValidatorFails
  BY <1>2, <1>6, HeartbeatForward DEF WatcherFails, MonitorFails, ValidatorFails, Fault, IdleWatcher
<1>7. ASSUME NEW r \in Requests, Miss(r) \/ ListBuilders(r) \/ Store(r) \/ RequestFails(r)
      PROVE  HeartbeatInv'
  BY <1>2, <1>7, HeartbeatForward DEF Miss, ListBuilders, Store, RequestFails, Fault
<1>8. CASE FetchRecent \/ MonitorCheck
  BY <1>2, <1>8, HeartbeatForward DEF FetchRecent, MonitorCheck
<1>9. CASE Sync
  <2>1. ASSUME NEW b \in Registered PROVE b \in Registered' /\ doc'[b].synced >= doc[b].synced
    <3>1. doc[b] \in Docs /\ b \in Builders
      BY DEF Registered, TypeOK
    <3>2. doc'[b] = [doc[b] EXCEPT !.active = b \in monitor.passing]
      BY <1>9, <3>1 DEF Sync
    <3>3. doc'[b] \in Docs /\ doc'[b].synced = doc[b].synced
      <4>1. (b \in monitor.passing) \in BOOLEAN
        OBVIOUS
      <4> QED
        BY <3>1, <3>2, <4>1 DEF Docs
    <3> QED
      BY <1>1, <3>1, <3>3, NoneAssumption DEF Registered
  <2> QED
    BY <1>9, <2>1, HeartbeatForward DEF Sync
<1>10. CASE ReadCache \/ FetchCached \/ ValidatorCheck \/ DeleteCache \/ ReadTtl \/ SetCache
  BY <1>2, <1>10, HeartbeatForward
     DEF ReadCache, FetchCached, ValidatorCheck, DeleteCache, ReadTtl, SetCache
<1>11. CASE UpdateStates
  <2>1. ASSUME NEW b \in Registered PROVE b \in Registered' /\ doc'[b].synced >= doc[b].synced
    <3>1. b \in Builders /\ doc[b] # None /\ doc[b].synced \in Nat
      BY <1>1 DEF Registered
    <3>2. CASE b \in validator.list
      <4>1. doc'[b] = [synced |-> doc[b].synced, active |-> b \in validator.passing]
        BY <1>11, <3>1, <3>2 DEF UpdateStates
      <4>2. doc'[b] \in Docs /\ doc'[b].synced = doc[b].synced
        <5>1. (b \in validator.passing) \in BOOLEAN
          OBVIOUS
        <5> QED
          BY <3>1, <4>1, <5>1 DEF Docs
      <4> QED
        BY <3>1, <4>2, NoneAssumption DEF Registered
    <3>3. CASE b \notin validator.list
      BY <1>11, <3>1, <3>3 DEF UpdateStates, Registered
    <3> QED
      BY <3>2, <3>3
  <2> QED
    BY <1>11, <2>1, HeartbeatForward DEF UpdateStates
<1> QED
  BY <1>3, <1>4, <1>5, <1>6, <1>7, <1>8, <1>9, <1>10, <1>11 DEF Next, MonitorStep, ValidatorStep

-----------------------------------------------------------------------------
(* The theorems.                                                           *)

LEMMA InitInd ==
    ASSUME Init
    PROVE  IndInv
<1>1. beats = <<>> /\ cursor = 0 /\ now = 1 /\ now \in 1..MaxTime /\ Len(beats) = 0
  BY BoundsAssumption DEF Init
<1>2. beats \in Seq([builder : Builders, time : 1..MaxTime])
  BY <1>1
<1>3. TypeOK
  BY <1>1, <1>2, BoundsAssumption
     DEF Init, TypeOK, Lists, IdleWatcher, IdleMonitor, IdleValidator, IdleRequest
<1>4. PassedInv
  BY DEF Init, PassedInv, Active, Registered, IdleMonitor, IdleValidator, IdleRequest
<1>5. HeartbeatInv
  BY <1>1 DEF Init, HeartbeatInv, BeatsInv, KeptUpTo, IdleWatcher
<1> QED
  BY <1>3, <1>4, <1>5 DEF IndInv

LEMMA NextInd ==
    ASSUME IndInv, [Next]_vars
    PROVE  IndInv'
<1>1. CASE Next
  BY <1>1, StepType, StepPassed, StepHeartbeat DEF IndInv
<1>2. CASE UNCHANGED vars
  BY <1>2
     DEF vars, worldVars, IndInv, TypeOK, PassedInv, HeartbeatInv, BeatsInv, KeptUpTo, Active, Registered
<1> QED
  BY <1>1, <1>2

\* The inductive invariant of the registry.
THEOREM Invariance == Spec => []IndInv
<1>1. Init => IndInv
  BY InitInd
<1>2. IndInv /\ [Next]_vars => IndInv'
  BY NextInd
<1> QED
  BY <1>1, <1>2, PTL DEF Spec

\* The registry's documents, cache entry and the lists in its programs' hands
\* keep their types.
THEOREM TypeCorrect == Spec => []TypeOK
<1>1. IndInv => TypeOK
  BY DEF IndInv
<1> QED
  BY <1>1, Invariance, PTL

\* No builder is active or in the cached list before it has passed a check: of
\* the four programs that write documents and cache, none writes more.
THEOREM ListedHavePassed == Spec => []ListedPassed
<1>1. IndInv => ListedPassed
  BY DEF IndInv, PassedInv, ListedPassed, Listed
<1> QED
  BY <1>1, Invariance, PTL

\* The document of a builder is as recent as its last heartbeat behind the
\* watcher's cursor, whatever crashes and whoever else writes the document.
THEOREM HeartbeatsAreKept == Spec => []HeartbeatsKept
<1>1. ASSUME IndInv PROVE HeartbeatsKept
  <2> SUFFICES ASSUME NEW b \in Builders, BeatsOf(b, 1, cursor) # {}
               PROVE  /\ b \in Registered
                      /\ doc[b].synced >= beats[Max(BeatsOf(b, 1, cursor))].time
    BY DEF HeartbeatsKept
  <2>1. cursor \in Nat /\ BeatsOf(b, 1, cursor) \subseteq 0..cursor
    BY <1>1 DEF IndInv, TypeOK, BeatsOf
  <2>2. Max(BeatsOf(b, 1, cursor)) \in BeatsOf(b, 1, cursor)
    BY <2>1, MaxIsLargest
  <2> QED
    BY <1>1, <2>2 DEF IndInv, HeartbeatInv, KeptUpTo, BeatsOf
<1> QED
  BY <1>1, Invariance, PTL

=============================================================================
