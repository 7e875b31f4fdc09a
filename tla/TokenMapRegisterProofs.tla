----------------------- MODULE TokenMapRegisterProofs -----------------------
(***************************************************************************)
(* Safety of the token-map-register for any number of overlapping runs,    *)
(* any deposits, lag of the node and every bound: the type invariant,      *)
(* NoTokenMissed and IdsRegistered.                                        *)
(***************************************************************************)
EXTENDS TokenMapRegister, CollectionLemmas

-----------------------------------------------------------------------------
(* The inductive invariant.                                                *)

\* With `maps` registered a cursor may stand at block b.
SafeAt(b, maps) ==
    \A e \in relayEvents : e.block <= b => ERC20TokensOf(1..e.upTo) \subseteq maps

\* Relays are of deposits there are, and neither they nor the cursor are
\* above the head, which grows from the deployment.
ChainInv ==
    /\ DeployedBlock <= head
    /\ mapCursor.block <= head
    /\ \A e \in relayEvents : e.block \in DeployedBlock..head /\ e.upTo \in 1..lastDepositId

\* What a run still has to store is all that keeps its cursor from being
\* safe, as a block and as an id.
RunInv(j) ==
    LET run == register[j]
    IN  /\ run.cur <= head
        /\ run.pc = "closing" => SafeAt(run.cur, tokenMaps)
        /\ run.pc \in {"mapping", "storing"} =>
             /\ SafeAt(run.cur, tokenMaps \cup run.tokens)
             /\ ERC20TokensOf(1..run.upTo) \subseteq tokenMaps \cup run.tokens
        /\ run.pc = "saving" =>
             /\ SafeAt(run.cur, tokenMaps)
             /\ ERC20TokensOf(1..run.upTo) \subseteq tokenMaps

IndInv ==
    /\ TypeOK
    /\ ChainInv
    /\ NoTokenMissed
    /\ IdsRegistered
    /\ \A j \in Registers : RunInv(j)

-----------------------------------------------------------------------------
(* The logs a run reads.                                                   *)

\* The latest id of the relays of a range is one of theirs and bounds them.
LEMMA LatestIsLargest ==
    ASSUME TypeOK, ChainInv, NEW from, NEW to, RelaysIn(from, to) # {}
    PROVE  /\ LatestUpTo(RelaysIn(from, to)) \in Nat
           /\ \A e \in RelaysIn(from, to) : e.upTo <= LatestUpTo(RelaysIn(from, to))
<1> DEFINE ids == {e.upTo : e \in RelaysIn(from, to)}
<1>1. ids \subseteq 0..lastDepositId /\ ids # {} /\ lastDepositId \in Nat
  BY DEF TypeOK, ChainInv, RelaysIn
<1>2. Max(ids) \in ids /\ \A x \in ids : x <= Max(ids)
  <2> HIDE DEF ids
  <2> QED
    BY <1>1, MaxIsLargest
<1>3. LatestUpTo(RelaysIn(from, to)) = Max(ids)
  BY DEF LatestUpTo
<1>4. Max(ids) \in Nat
  BY <1>1, <1>2
<1> QED
  BY <1>2, <1>3, <1>4

\* A relay up to block `to` is in the range of a run, or before the cursor.
LEMMA RelayInRange ==
    ASSUME TypeOK, ChainInv, NEW e \in relayEvents, NEW to \in Nat, e.block <= to
    PROVE  e.block <= mapCursor.block \/ e \in RelaysIn(StartBlock(mapCursor), to)
<1>1. e.block \in Nat /\ mapCursor.block \in Nat /\ e.block >= DeployedBlock
  BY RegisterAssumption DEF TypeOK, ChainInv, Cursors
<1> QED
  BY <1>1 DEF RelaysIn, StartBlock

\* A range that brings nothing new is safe to pass.
LEMMA NothingNewIsSafe ==
    ASSUME IndInv, NEW j \in Registers, NothingNew(j)
    PROVE  SafeAt(register[j].cur, tokenMaps)
<1> DEFINE cur == register[j].cur
           events == RelaysIn(StartBlock(mapCursor), cur)
<1> SUFFICES ASSUME NEW e \in relayEvents, e.block <= cur
             PROVE  ERC20TokensOf(1..e.upTo) \subseteq tokenMaps
  BY DEF SafeAt
<1>1. cur \in Nat
  BY DEF IndInv, TypeOK
<1>2. CASE e.block <= mapCursor.block
  BY <1>2 DEF IndInv, NoTokenMissed
<1>3. CASE e \in events
  <2>1. e.upTo <= LatestUpTo(events) /\ LatestUpTo(events) \in Nat
    BY <1>3, LatestIsLargest DEF IndInv
  <2>2. LatestUpTo(events) <= mapCursor.upTo
    BY <1>3 DEF NothingNew
  <2>3. e.upTo \in Nat /\ mapCursor.upTo \in Nat
    BY DEF IndInv, TypeOK, Cursors
  <2>4. 1..e.upTo \subseteq 1..mapCursor.upTo
    BY <2>1, <2>2, <2>3
  <2> QED
    BY <2>4 DEF IndInv, IdsRegistered, ERC20TokensOf
<1> QED
  BY <1>1, <1>2, <1>3, RelayInRange DEF IndInv

\* The tokens of the new ids are all that is missing up to the latest relay.
LEMMA NewTokensSuffice ==
    ASSUME IndInv, NEW j \in Registers, ~NothingNew(j)
    PROVE  LET cur == register[j].cur
               upTo == LatestUpTo(RelaysIn(StartBlock(mapCursor), cur))
               tokens == ERC20TokensOf(NewDepositIds(upTo, mapCursor.upTo))
           IN  /\ upTo \in Nat
               /\ tokens \subseteq ERC20Indexes
               /\ ERC20TokensOf(1..upTo) \subseteq tokenMaps \cup tokens
               /\ SafeAt(cur, tokenMaps \cup tokens)
<1> DEFINE cur == register[j].cur
           events == RelaysIn(StartBlock(mapCursor), cur)
           upTo == LatestUpTo(events)
           tokens == ERC20TokensOf(NewDepositIds(upTo, mapCursor.upTo))
<1>1. events # {}
  BY DEF NothingNew
<1>2. upTo \in Nat /\ \A e \in events : e.upTo <= upTo
  BY <1>1, LatestIsLargest DEF IndInv
<1>3. ERC20TokensOf(1..upTo) \subseteq tokenMaps \cup tokens
  <2>1. mapCursor.upTo \in Nat
    BY DEF IndInv, TypeOK, Cursors
  <2>2. \A d \in 1..upTo : d \in 1..mapCursor.upTo \/ d \in NewDepositIds(upTo, mapCursor.upTo)
    BY <1>2, <2>1 DEF NewDepositIds
  <2> QED
    BY <2>2 DEF IndInv, IdsRegistered, ERC20TokensOf
<1>4. ASSUME NEW e \in relayEvents, e.block <= cur
      PROVE  ERC20TokensOf(1..e.upTo) \subseteq tokenMaps \cup tokens
  <2>1. cur \in Nat /\ e.upTo \in Nat
    BY DEF IndInv, TypeOK, Cursors
  <2>2. CASE e.block <= mapCursor.block
    BY <2>2 DEF IndInv, NoTokenMissed
  <2>3. CASE e \in events
    <3>1. 1..e.upTo \subseteq 1..upTo
      BY <1>2, <2>1, <2>3
    <3> QED
      BY <1>3, <3>1 DEF ERC20TokensOf
  <2> QED
    BY <1>4, <2>1, <2>2, <2>3, RelayInRange DEF IndInv
<1>5. tokens \subseteq ERC20Indexes
  BY DEF ERC20TokensOf
<1> QED
  BY <1>2, <1>3, <1>4, <1>5 DEF SafeAt

-----------------------------------------------------------------------------
(* The steps.                                                              *)

\* A block adds a relay above all blocks that were read, and leaves the
\* older ones.
LEMMA ChainInd ==
    ASSUME IndInv, NEW n \in 0..MaxPerBlock, NEW u \in {0} \cup (1..lastDepositId \ Relayed),
           MineBlock(n, u)
    PROVE  IndInv'
<1> DEFINE new == IF u = 0 THEN {} ELSE {[block |-> head + 1, upTo |-> u]}
<1>1. /\ head' = head + 1
      /\ lastDepositId' = lastDepositId + n
      /\ depositBlock' = [d \in 1..lastDepositId + n |->
                            IF d <= lastDepositId THEN depositBlock[d] ELSE head + 1]
      /\ relayEvents' = relayEvents \cup new
      /\ UNCHANGED <<mapCursor, tokenMaps, register, regFaults>>
  BY DEF MineBlock, regVars
<1>2. /\ head \in Nat /\ lastDepositId \in Nat /\ n \in Nat
      /\ u \in 0..lastDepositId /\ DeployedBlock <= head /\ DeployedBlock \in Nat
  BY RegisterAssumption DEF IndInv, TypeOK, ChainInv
<1>3. \A e \in new : /\ e.block = head + 1 /\ e.upTo = u /\ u \in 1..lastDepositId
                     /\ e \in Cursors
  BY <1>2 DEF Cursors
<1>4. TypeOK'
  <2>1. depositBlock' \in [1..lastDepositId' -> Nat]
    BY <1>1, <1>2 DEF IndInv, TypeOK
  <2>2. relayEvents' \subseteq Cursors
    BY <1>1, <1>3 DEF IndInv, TypeOK
  <2>3. head' \in Nat /\ lastDepositId' \in Nat
    BY <1>1, <1>2
  <2> QED
    BY <1>1, <2>1, <2>2, <2>3 DEF IndInv, TypeOK
<1>5. ChainInv'
  <2>1. mapCursor'.block <= head' /\ DeployedBlock <= head'
    BY <1>1, <1>2 DEF IndInv, TypeOK, ChainInv, Cursors
  <2>2. ASSUME NEW e \in relayEvents'
        PROVE  e.block \in DeployedBlock..head' /\ e.upTo \in 1..lastDepositId'
    <3>1. CASE e \in relayEvents
      BY <1>1, <1>2, <3>1 DEF IndInv, ChainInv
    <3>2. CASE e \in new
      BY <1>1, <1>2, <1>3, <3>2
    <3> QED
      BY <1>1, <2>2, <3>1, <3>2
  <2> QED
    BY <2>1, <2>2 DEF ChainInv
<1>6. NoTokenMissed'
  <2>1. mapCursor.block \in Nat /\ mapCursor.block <= head
    BY DEF IndInv, TypeOK, ChainInv, Cursors
  <2>2. SafeAt(mapCursor.block, tokenMaps)
    BY DEF IndInv, NoTokenMissed, SafeAt
  <2> QED
    BY <1>1, <1>2, <1>3, <2>1, <2>2 DEF SafeAt, NoTokenMissed, ERC20TokensOf
<1>7. IdsRegistered'
  BY <1>1 DEF IndInv, IdsRegistered, ERC20TokensOf
<1>8. ASSUME NEW j \in Registers PROVE RunInv(j)'
  <2>1. RunInv(j) /\ register[j].cur \in Nat
    BY DEF IndInv, TypeOK
  <2>2. register[j].cur <= head /\ register[j].cur <= head'
    BY <1>1, <1>2, <2>1 DEF RunInv
  <2>3. \A maps : SafeAt(register[j].cur, maps) => SafeAt(register[j].cur, maps)'
    BY <1>1, <1>2, <1>3, <2>1, <2>2 DEF SafeAt, ERC20TokensOf
  <2> QED
    BY <1>1, <2>1, <2>2, <2>3 DEF RunInv, SafeAt, ERC20TokensOf
<1> QED
  BY <1>4, <1>5, <1>6, <1>7, <1>8 DEF IndInv

\* Documents that are added hurt no run.
LEMMA RunInvGrows ==
    ASSUME NEW j \in Registers, RunInv(j), UNCHANGED chain, tokenMaps \subseteq tokenMaps',
           register'[j] = register[j]
    PROVE  RunInv(j)'
BY DEF RunInv, SafeAt, ERC20TokensOf, chain

\* A step of a run that leaves the cursor alone needs a look at that run only.
LEMMA RunStepInd ==
    ASSUME IndInv, NEW j \in Registers, UNCHANGED <<chain, mapCursor>>,
           tokenMaps \subseteq tokenMaps', TypeOK', RunInv(j)',
           \A k \in Registers : k # j => register'[k] = register[k]
    PROVE  IndInv'
<1>1. ChainInv' /\ NoTokenMissed' /\ IdsRegistered'
  BY DEF IndInv, ChainInv, NoTokenMissed, IdsRegistered, ERC20TokensOf, chain
<1>2. \A k \in Registers : RunInv(k)'
  BY RunInvGrows DEF IndInv
<1> QED
  BY <1>1, <1>2 DEF IndInv

\* A run that ends has nothing to keep.
LEMMA IdleRun ==
    ASSUME TypeOK, ChainInv, NEW j \in Registers, register' = [register EXCEPT ![j] = Idle],
           head' = head
    PROVE  RunInv(j)' /\ register' \in [Registers -> [pc : PCs, cur : Nat, upTo : Nat,
                                                      tokens : SUBSET ERC20Indexes]]
<1>1. register'[j] = Idle /\ head' \in Nat
  BY DEF TypeOK
<1> QED
  BY <1>1 DEF RunInv, TypeOK, Idle, PCs

\* The steps before a run writes.
LEMMA ReadingInd ==
    ASSUME IndInv, NEW j \in Registers, ReadHead(j) \/ SkipRange(j) \/ Collect(j)
    PROVE  IndInv'
<1>1. UNCHANGED <<chain, mapCursor, tokenMaps, regFaults>>
  BY DEF ReadHead, SkipRange, Collect
<1> DEFINE Records == [pc : PCs, cur : Nat, upTo : Nat, tokens : SUBSET ERC20Indexes]
<1>2. \A k \in Registers : k # j => register'[k] = register[k]
  BY DEF ReadHead, SkipRange, Collect, IndInv, TypeOK
<1>3. RunInv(j)' /\ register' \in [Registers -> Records]
  <2>1. CASE ReadHead(j)
    <3>1. PICK b \in DeployedBlock..head :
            register' = [register EXCEPT ![j] = [Idle EXCEPT !.pc = "started", !.cur = b]]
      BY <2>1 DEF ReadHead
    <3>2. b \in Nat /\ b <= head
      BY RegisterAssumption DEF IndInv, TypeOK
    <3>3. register'[j] = [Idle EXCEPT !.pc = "started", !.cur = b]
      BY <3>1 DEF IndInv, TypeOK
    <3> QED
      BY <1>1, <3>1, <3>2, <3>3 DEF RunInv, IndInv, TypeOK, Idle, PCs, chain
  <2>2. CASE SkipRange(j)
    <3>1. SafeAt(register[j].cur, tokenMaps) /\ RunInv(j)
      BY <2>2, NothingNewIsSafe DEF SkipRange, IndInv
    <3>2. register'[j] = [register[j] EXCEPT !.pc = "closing"]
      BY <2>2 DEF SkipRange, IndInv, TypeOK
    <3>3. register[j] \in Records
      BY DEF IndInv, TypeOK
    <3>4. register'[j].pc = "closing" /\ register'[j].cur = register[j].cur
      BY <3>2, <3>3
    <3>5. RunInv(j)'
      BY <1>1, <3>1, <3>4 DEF RunInv, SafeAt, ERC20TokensOf, chain
    <3> QED
      BY <2>2, <3>2, <3>3, <3>5 DEF SkipRange, IndInv, TypeOK, PCs
  <2>3. CASE Collect(j)
    <3> DEFINE start == StartBlock(mapCursor)
               upTo == LatestUpTo(RelaysIn(start, register[j].cur))
               ids == NewDepositIds(upTo, mapCursor.upTo)
               tokens == ERC20TokensOf(ids)
               next == [register[j] EXCEPT !.pc = IF tokens = {} THEN "saving" ELSE "mapping",
                                           !.upTo = upTo, !.tokens = tokens]
    <3>1. /\ upTo \in Nat
          /\ tokens \subseteq ERC20Indexes
          /\ ERC20TokensOf(1..upTo) \subseteq tokenMaps \cup tokens
          /\ SafeAt(register[j].cur, tokenMaps \cup tokens)
      BY <2>3, NewTokensSuffice DEF Collect
    <3>2. \/ register' = [register EXCEPT ![j] = Idle]
          \/ register' = [register EXCEPT ![j] = next]
      BY <2>3 DEF Collect
    <3>3. CASE register' = [register EXCEPT ![j] = Idle]
      BY <1>1, <3>3, IdleRun DEF IndInv, chain
    <3>4. CASE register' = [register EXCEPT ![j] = next]
      <4> HIDE DEF upTo, tokens
      <4>1. register[j] \in Records /\ RunInv(j)
        BY DEF IndInv, TypeOK
      <4>2. /\ next \in Records
            /\ next.pc = (IF tokens = {} THEN "saving" ELSE "mapping")
            /\ next.cur = register[j].cur /\ next.upTo = upTo /\ next.tokens = tokens
        BY <3>1, <4>1 DEF PCs
      <4>3. register'[j] = next
        BY <3>4 DEF IndInv, TypeOK
      <4> HIDE DEF next
      <4>4. RunInv(j)'
        BY <1>1, <3>1, <4>1, <4>2, <4>3 DEF RunInv, SafeAt, ERC20TokensOf, chain
      <4> QED
        BY <3>4, <4>2, <4>4 DEF IndInv, TypeOK
    <3> QED
      BY <3>2, <3>3, <3>4
  <2> QED
    BY <2>1, <2>2, <2>3
<1>4. TypeOK'
  BY <1>1, <1>3 DEF IndInv, TypeOK, chain
<1> QED
  BY <1>1, <1>2, <1>3, <1>4, RunStepInd

\* The documents that are missing are found, and written.
LEMMA StoringInd ==
    ASSUME IndInv, NEW j \in Registers, FilterNew(j) \/ StoreMaps(j)
    PROVE  IndInv'
<1> DEFINE Records == [pc : PCs, cur : Nat, upTo : Nat, tokens : SUBSET ERC20Indexes]
           run == register[j]
           new == run.tokens \ tokenMaps
           filtered == [run EXCEPT !.pc = IF new = {} THEN "saving" ELSE "storing",
                                   !.tokens = new]
           stored == [run EXCEPT !.pc = "saving"]
<1>1. UNCHANGED <<chain, mapCursor, regFaults>> /\ tokenMaps \subseteq tokenMaps'
  BY DEF FilterNew, StoreMaps, SaveTokenMapsBatch
<1>2. \A k \in Registers : k # j => register'[k] = register[k]
  BY DEF FilterNew, StoreMaps, IndInv, TypeOK
<1>3. run \in Records /\ RunInv(j) /\ tokenMaps \subseteq ERC20Indexes
  BY DEF IndInv, TypeOK
<1>4. RunInv(j)' /\ register' \in [Registers -> Records] /\ tokenMaps' \subseteq ERC20Indexes
  <2>1. CASE FilterNew(j)
    <3>1. UNCHANGED tokenMaps /\ run.pc = "mapping"
      BY <2>1 DEF FilterNew
    <3>2. \/ register' = [register EXCEPT ![j] = Idle]
          \/ register' = [register EXCEPT ![j] = filtered]
      BY <2>1 DEF FilterNew
    <3>3. CASE register' = [register EXCEPT ![j] = Idle]
      BY <1>1, <1>3, <3>1, <3>3, IdleRun DEF IndInv, chain
    <3>4. CASE register' = [register EXCEPT ![j] = filtered]
      <4>1. /\ filtered \in Records
            /\ filtered.pc = (IF new = {} THEN "saving" ELSE "storing")
            /\ filtered.cur = run.cur /\ filtered.upTo = run.upTo /\ filtered.tokens = new
        BY <1>3 DEF PCs
      <4>2. register'[j] = filtered
        BY <3>4 DEF IndInv, TypeOK
      <4>3. tokenMaps \cup new = tokenMaps \cup run.tokens
        OBVIOUS
      <4> HIDE DEF filtered
      <4>4. RunInv(j)'
        BY <1>1, <1>3, <3>1, <4>1, <4>2, <4>3 DEF RunInv, SafeAt, ERC20TokensOf, chain
      <4> QED
        BY <1>3, <3>1, <3>4, <4>1, <4>4 DEF IndInv, TypeOK
    <3> QED
      BY <3>2, <3>3, <3>4
  <2>2. CASE StoreMaps(j) /\ run.tokens \cap NoMetadata = {}
    <3>1. /\ register' = [register EXCEPT ![j] = stored]
          /\ tokenMaps' = tokenMaps \cup run.tokens /\ run.pc = "storing"
      BY <2>2, <1>3 DEF StoreMaps, SaveTokenMapsBatch
    <3>2. /\ stored \in Records /\ stored.pc = "saving"
          /\ stored.cur = run.cur /\ stored.upTo = run.upTo
      BY <1>3 DEF PCs
    <3>3. register'[j] = stored
      BY <3>1 DEF IndInv, TypeOK
    <3> HIDE DEF stored
    <3>4. RunInv(j)'
      BY <1>1, <1>3, <3>1, <3>2, <3>3 DEF RunInv, SafeAt, ERC20TokensOf, chain
    <3>5. register' \in [Registers -> Records]
      BY <3>1, <3>2 DEF IndInv, TypeOK
    <3>6. tokenMaps' \subseteq ERC20Indexes
      BY <1>3, <3>1
    <3> QED
      BY <3>4, <3>5, <3>6
  <2>3. CASE StoreMaps(j) /\ run.tokens \cap NoMetadata # {}
    <3>1. UNCHANGED tokenMaps /\ register' = [register EXCEPT ![j] = Idle]
      BY <2>3 DEF StoreMaps
    <3> QED
      BY <1>1, <1>3, <3>1, IdleRun DEF IndInv, chain
  <2> QED
    BY <2>1, <2>2, <2>3
<1>5. TypeOK'
  BY <1>1, <1>4 DEF IndInv, TypeOK, chain
<1> QED
  BY <1>1, <1>2, <1>4, <1>5, RunStepInd

\* The cursor moves, forward or back, to what its run knows to be safe.
LEMMA SavingInd ==
    ASSUME IndInv, NEW j \in Registers, SaveHead(j) \/ SaveCursor(j)
    PROVE  IndInv'
<1>1. /\ UNCHANGED <<chain, tokenMaps, regFaults>>
      /\ register' = [register EXCEPT ![j] = Idle]
  BY DEF SaveHead, SaveCursor
<1>2. register[j].cur \in Nat /\ register[j].upTo \in Nat /\ RunInv(j) /\ mapCursor \in Cursors
  BY DEF IndInv, TypeOK
<1>3. /\ mapCursor' \in Cursors
      /\ mapCursor'.block = register[j].cur
      /\ SafeAt(register[j].cur, tokenMaps)
      /\ ERC20TokensOf(1..mapCursor'.upTo) \subseteq tokenMaps
  <2>1. CASE SaveHead(j)
    BY <2>1, <1>2 DEF SaveHead, Cursors, RunInv, IndInv, IdsRegistered
  <2>2. CASE SaveCursor(j)
    BY <2>2, <1>2 DEF SaveCursor, Cursors, RunInv
  <2> QED
    BY <2>1, <2>2
<1>4. RunInv(j)' /\ register' \in [Registers -> [pc : PCs, cur : Nat, upTo : Nat,
                                                 tokens : SUBSET ERC20Indexes]]
  BY <1>1, IdleRun DEF IndInv, chain
<1>5. TypeOK'
  BY <1>1, <1>3, <1>4 DEF IndInv, TypeOK, chain
<1>6. \A k \in Registers : RunInv(k)'
  <2>1. \A k \in Registers : k # j => register'[k] = register[k]
    BY <1>1 DEF IndInv, TypeOK
  <2> QED
    BY <1>1, <1>4, <2>1, RunInvGrows DEF IndInv
<1>7. ChainInv' /\ NoTokenMissed' /\ IdsRegistered'
  BY <1>1, <1>2, <1>3 DEF IndInv, ChainInv, NoTokenMissed, IdsRegistered, SafeAt, RunInv,
                          ERC20TokensOf, chain
<1> QED
  BY <1>5, <1>6, <1>7 DEF IndInv

\* A run that stops leaves everything as it is.
LEMMA FailInd ==
    ASSUME IndInv, NEW j \in Registers, Fail(j)
    PROVE  IndInv'
<1>1. /\ UNCHANGED <<chain, mapCursor, tokenMaps>>
      /\ register' = [register EXCEPT ![j] = Idle]
      /\ regFaults' \in 0..MaxRegFaults
  BY RegisterAssumption DEF Fail, IndInv, TypeOK
<1>2. RunInv(j)' /\ TypeOK'
  BY <1>1, IdleRun DEF IndInv, TypeOK, chain
<1>3. \A k \in Registers : k # j => register'[k] = register[k]
  BY <1>1 DEF IndInv, TypeOK
<1> QED
  BY <1>1, <1>2, <1>3, RunStepInd

-----------------------------------------------------------------------------
(* The invariant, and what follows.                                        *)

LEMMA InitInd == Init => IndInv
<1> SUFFICES ASSUME Init PROVE IndInv
  OBVIOUS
<1>1. TypeOK
  BY RegisterAssumption DEF Init, RegisterInit, TypeOK, Idle, PCs, Cursors
<1>2. ChainInv /\ NoTokenMissed
  BY RegisterAssumption DEF Init, RegisterInit, ChainInv, NoTokenMissed
<1>3. IdsRegistered
  BY DEF Init, RegisterInit, IdsRegistered, ERC20TokensOf
<1>4. \A j \in Registers : RunInv(j)
  BY RegisterAssumption DEF Init, RegisterInit, RunInv, Idle
<1> QED
  BY <1>1, <1>2, <1>3, <1>4 DEF IndInv

LEMMA NextInd == IndInv /\ [Next]_vars => IndInv'
<1> SUFFICES ASSUME IndInv, [Next]_vars PROVE IndInv'
  OBVIOUS
<1>1. CASE Chain
  BY <1>1, ChainInd DEF Chain
<1>2. CASE Run
  BY <1>2, ReadingInd, StoringInd, SavingInd, FailInd DEF Run, Step
<1>3. CASE UNCHANGED vars
  BY <1>3 DEF vars, chain, regVars, IndInv, TypeOK, ChainInv, NoTokenMissed, IdsRegistered,
              RunInv, SafeAt, ERC20TokensOf
<1> QED
  BY <1>1, <1>2, <1>3 DEF Next

\* Every state of every behaviour satisfies the inductive invariant: what a
\* run of performJob has computed stays true while other runs write.
THEOREM Invariance == Spec => []IndInv
<1> QED
  BY InitInd, NextInd, PTL DEF Spec

\* The variables of the job and of the chain keep their types.
THEOREM TypeCorrect == Spec => []TypeOK
<1>1. IndInv => TypeOK
  BY DEF IndInv
<1> QED
  BY <1>1, Invariance, PTL

\* lastBlockNumber of the cursor passes no relay with a token that is not
\* registered, for any number of overlapping runs of token-map-register.
THEOREM NoTokenIsMissed == Spec => []NoTokenMissed
<1>1. IndInv => NoTokenMissed
  BY DEF IndInv
<1> QED
  BY <1>1, Invariance, PTL

\* lastUpToDepositId, below which no run looks again, passes no deposit whose
\* token is not registered.
THEOREM IdsAreRegistered == Spec => []IdsRegistered
<1>1. IndInv => IdsRegistered
  BY DEF IndInv
<1> QED
  BY <1>1, Invariance, PTL
=============================================================================
