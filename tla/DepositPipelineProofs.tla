------------------------ MODULE DepositPipelineProofs ------------------------
(***************************************************************************)
(* Safety of the deposit analyzer for any number of overlapping runs, any  *)
(* batch size and any bounds: the type invariant, the inductive invariant  *)
(* IndInv, and from it NoBlockSkipped, BroadcastRelayable and              *)
(* GasShortfallBounded.                                                    *)
(*                                                                         *)
(* And of the analyzer and token-map-register together: the composition    *)
(* implements each of the two specifications.  So what is proved of the    *)
(* analyzer alone holds beside the register, and what TokenMapRegister     *)
(* assumes of the chain is what the analyzer does to it.                   *)
(***************************************************************************)
EXTENDS DepositPipeline, CollectionLemmas

-----------------------------------------------------------------------------
(* The inductive invariant.                                                *)

DepositIds == 1..lastDepositId

\* The chain: ids are numbered in block order, a block holds at most
\* MaxPerBlock deposits, and the contract has relayed a prefix of them.
ChainInv ==
    /\ \A d, e \in DepositIds : d <= e => depositBlock[d] <= depositBlock[e]
    /\ \A d, e \in DepositIds : depositBlock[d] = depositBlock[e] => e - d < MaxPerBlock
    /\ \A d \in DepositIds : DeployedBlock <= depositBlock[d] /\ depositBlock[d] <= head
    /\ \A e \in relayEvents : e.upTo <= lastRelayed
    /\ lastRelayed <= lastDepositId
    /\ DeployedBlock <= head /\ cursor <= head

\* A cursor at block c skips no block.
SafeAt(c) == \A d \in LeftBehind(c) : lastRelayed > 0 /\ depositBlock[d] = depositBlock[lastRelayed]

\* `start` is the first id a transaction is meant to relay: what the contract
\* still holds below it is part of one block.
CoveredFrom(start) == start - 1 - lastRelayed < MaxPerBlock

\* The batches of a run cover every deposit up to the head the run has seen.
BatchInv(r) ==
    /\ 1 <= r.next /\ r.next <= r.max /\ r.max <= lastDepositId
    /\ \A d \in DepositIds : depositBlock[d] <= r.cur => d <= r.max
    /\ CoveredFrom(r.next)

RunInv(r) ==
    /\ r.cur <= head
    /\ r.pc = "closing" => SafeAt(r.cur)
    /\ r.pc \in {"submitting", "waiting", "saving"} => BatchInv(r)
    /\ r.pc = "saving" => BatchUpTo(r.next, r.max) <= lastRelayed

\* A receipt is one of the batch the run waits for.
ReceiptInv(j) ==
    receipt[j] => /\ job[j].pc = "waiting"
                  /\ BatchUpTo(job[j].next, job[j].max) <= lastRelayed

PendingInv ==
    pending # None =>
      /\ Relayable(pending.upTo)
      /\ CoveredFrom(pending.upTo - pending.num + 1)
      /\ pending.owner # None =>
           /\ job[pending.owner].pc = "waiting"
           /\ BatchUpTo(job[pending.owner].next, job[pending.owner].max) = pending.upTo

IndInv ==
    /\ TypeOK
    /\ ChainInv
    /\ SafeAt(cursor)
    /\ \A j \in Jobs : RunInv(job[j]) /\ ReceiptInv(j)
    /\ PendingInv
-----------------------------------------------------------------------------
(* Lemmas about what a run computes.                                       *)

\* Every batch ends inside the range it cuts up.
LEMMA BatchUpToInRange ==
    ASSUME NEW next \in Nat, NEW max \in Nat, next <= max
    PROVE  /\ BatchUpTo(next, max) \in Nat
           /\ next <= BatchUpTo(next, max)
           /\ BatchUpTo(next, max) <= max
           /\ ~IsLastBatch(next, max) => BatchUpTo(next, max) < max
           /\ IsLastBatch(next, max) => BatchUpTo(next, max) = max
BY BoundsAssumption DEF BatchUpTo, IsLastBatch

\* The relayed id a run reads at block b is one the contract has relayed.
LEMMA RelayedAtBlock ==
    ASSUME TypeOK, ChainInv, NEW b
    PROVE  LastRelayedAt(b) \in Nat /\ LastRelayedAt(b) <= lastRelayed
<1> DEFINE ids == RelayedIdsIn(0, b)
<1>1. ids \subseteq 0..lastRelayed
  BY DEF TypeOK, ChainInv, RelayedIdsIn, RelayEvents
<1>2. CASE ids = {}
  BY <1>2 DEF LastRelayedAt, MaxDepositId, TypeOK
<1>3. CASE ids # {}
  <2>1. Max(ids) \in ids
    <3> HIDE DEF ids
    <3> QED
      BY <1>1, <1>3, MaxIsLargest DEF TypeOK
  <2> QED
    BY <1>1, <1>3, <2>1 DEF LastRelayedAt, MaxDepositId, TypeOK
<1> QED
  BY <1>2, <1>3

\* The fetched events have a first and a last id.
LEMMA EventExtrema ==
    ASSUME TypeOK, NEW c, NEW cur, DepositedEvents(c, cur) # {}
    PROVE  LET ids == DepositedEvents(c, cur)
           IN  /\ ids \subseteq DepositIds
               /\ Min(ids) \in ids /\ Max(ids) \in ids
               /\ \A d \in ids : Min(ids) <= d /\ d <= Max(ids)
<1> DEFINE ids == DepositedEvents(c, cur)
<1>1. ids \subseteq DepositIds
  BY DEF DepositedEvents, DepositIdsIn, DepositIds
<1>2. ids \subseteq Nat /\ ids \subseteq 0..lastDepositId /\ lastDepositId \in Nat
  BY <1>1 DEF DepositIds, TypeOK
<1> HIDE DEF ids
<1>3. Min(ids) \in ids /\ \A d \in ids : Min(ids) <= d
  BY <1>2, MinIsSmallest DEF ids
<1>4. Max(ids) \in ids /\ \A d \in ids : d <= Max(ids)
  BY <1>2, MaxIsLargest DEF ids
<1> QED
  BY <1>1, <1>3, <1>4 DEF ids

\* A run that finds no new deposit may move the cursor to its head.
LEMMA EmptyRangeIsSafe ==
    ASSUME TypeOK, ChainInv, NEW cur \in Nat, SafeAt(cursor),
           DepositedEvents(cursor, cur) = {}
    PROVE  SafeAt(cur)
<1> SUFFICES ASSUME NEW d \in LeftBehind(cur)
             PROVE  lastRelayed > 0 /\ depositBlock[d] = depositBlock[lastRelayed]
  BY DEF SafeAt
<1>1. /\ d \in DepositIds /\ d > lastRelayed /\ depositBlock[d] <= cur
      /\ DeployedBlock <= depositBlock[d] /\ depositBlock[d] \in Nat
  BY DEF LeftBehind, ChainInv, DepositIds, TypeOK
<1>2. CASE cursor = 0
  <2>1. d > LastRelayedAt(cur)
    BY <1>1, RelayedAtBlock DEF TypeOK, DepositIds
  <2>2. d \in DepositedEvents(cursor, cur)
    BY <1>1, <1>2, <2>1 DEF DepositedEvents, DepositIdsIn, StartBlock, DepositIds
  <2> QED
    BY <2>2
<1>3. CASE cursor # 0
  <2>1. d \notin DepositIdsIn(cursor + 1, cur)
    BY <1>3 DEF DepositedEvents, StartBlock
  <2>2. depositBlock[d] <= cursor
    BY <1>1, <2>1 DEF DepositIdsIn, DepositIds, TypeOK
  <2>3. d \in LeftBehind(cursor)
    BY <1>1, <2>2 DEF LeftBehind, DepositIds, TypeOK
  <2> QED
    BY <2>3 DEF SafeAt
<1> QED
  BY <1>2, <1>3

\* A run that finds deposits covers every deposit up to its head, and its
\* first batch starts within a block's worth of what the contract relayed.
LEMMA FetchedBatchInv ==
    ASSUME TypeOK, ChainInv, NEW cur \in Nat, SafeAt(cursor),
           DepositedEvents(cursor, cur) # {}
    PROVE  LET ids == DepositedEvents(cursor, cur)
           IN  /\ 1 <= Min(ids) /\ Min(ids) <= Max(ids) /\ Max(ids) <= lastDepositId
               /\ Min(ids) \in Nat /\ Max(ids) \in Nat
               /\ \A d \in DepositIds : depositBlock[d] <= cur => d <= Max(ids)
               /\ CoveredFrom(Min(ids))
<1> DEFINE ids == DepositedEvents(cursor, cur)
           min == Min(ids)
           max == Max(ids)
<1>1. /\ ids \subseteq DepositIds /\ min \in ids /\ max \in ids
      /\ \A d \in ids : min <= d /\ d <= max
  BY EventExtrema
<1>2. min \in DepositIds /\ max \in DepositIds /\ min <= max
  BY <1>1
<1>3. /\ StartBlock(cursor) <= depositBlock[min] /\ depositBlock[min] <= cur
      /\ StartBlock(cursor) <= depositBlock[max] /\ depositBlock[max] <= cur
  BY <1>1 DEF DepositedEvents, DepositIdsIn
<1>4. StartBlock(cursor) \in Nat
  BY BoundsAssumption DEF StartBlock, TypeOK
<1>5. lastRelayed \in Nat /\ lastDepositId \in Nat /\ cursor \in Nat
      /\ \A d \in DepositIds : depositBlock[d] \in Nat /\ d \in Nat
  BY DEF TypeOK, DepositIds
<1> HIDE DEF ids, min, max
<1>6. ASSUME NEW d \in DepositIds, depositBlock[d] <= cur
      PROVE  d <= max
  <2>1. SUFFICES ASSUME d > max PROVE FALSE
    BY <1>2, <1>5
  <2>2. depositBlock[max] <= depositBlock[d]
    BY <1>2, <1>5, <2>1 DEF ChainInv
  <2>3. StartBlock(cursor) <= depositBlock[d]
    BY <1>2, <1>3, <1>4, <1>5, <2>2
  <2>4. d \in DepositIdsIn(StartBlock(cursor), cur)
    BY <1>6, <2>3 DEF DepositIdsIn, DepositIds
  <2>5. CASE cursor # 0
    BY <1>1, <1>2, <1>5, <2>1, <2>4, <2>5 DEF DepositedEvents, ids
  <2>6. CASE cursor = 0
    <3>1. max > LastRelayedAt(cur)
      BY <1>1, <2>6 DEF DepositedEvents, ids
    <3>2. d > LastRelayedAt(cur)
      BY <1>2, <1>5, <2>1, <3>1, RelayedAtBlock
    <3> QED
      BY <1>1, <1>2, <1>5, <2>1, <2>4, <2>6, <3>2 DEF DepositedEvents, ids
  <2> QED
    BY <2>5, <2>6
<1>7. CoveredFrom(min)
  <2>1. CASE min - 1 <= lastRelayed
    BY <1>2, <1>5, <2>1, BoundsAssumption DEF CoveredFrom
  <2>2. CASE min - 1 > lastRelayed
    <3> DEFINE d == min - 1
    <3>1. d \in DepositIds /\ d > lastRelayed
      BY <1>2, <1>5, <2>2 DEF DepositIds
    <3>2. d \notin ids
      BY <1>1, <1>2, <1>5
    <3>3. depositBlock[d] <= depositBlock[min]
      BY <1>2, <1>5, <3>1 DEF ChainInv
    <3>4. cursor # 0
      <4>1. SUFFICES ASSUME cursor = 0 PROVE FALSE
        OBVIOUS
      <4>2. StartBlock(cursor) <= depositBlock[d]
        BY <3>1, <4>1 DEF StartBlock, ChainInv
      <4>3. d > LastRelayedAt(cur)
        BY <1>5, <3>1, RelayedAtBlock DEF DepositIds
      <4>4. depositBlock[d] <= cur
        BY <1>2, <1>3, <1>5, <3>1, <3>3
      <4> QED
        BY <3>1, <3>2, <4>1, <4>2, <4>3, <4>4 DEF ids, DepositedEvents, DepositIdsIn, DepositIds
    <3>5. depositBlock[d] <= cursor
      <4>1. SUFFICES ASSUME ~(depositBlock[d] <= cursor) PROVE FALSE
        OBVIOUS
      <4>2. StartBlock(cursor) <= depositBlock[d]
        BY <1>5, <3>1, <3>4, <4>1 DEF StartBlock
      <4>3. depositBlock[d] <= cur
        BY <1>2, <1>3, <1>5, <3>1, <3>3
      <4> QED
        BY <3>1, <3>2, <3>4, <4>2, <4>3 DEF ids, DepositedEvents, DepositIdsIn, DepositIds
    <3>6. d \in LeftBehind(cursor)
      BY <1>5, <3>1, <3>5 DEF LeftBehind, DepositIds
    <3>7. lastRelayed > 0 /\ depositBlock[d] = depositBlock[lastRelayed]
      BY <3>6 DEF SafeAt
    <3>8. lastRelayed \in DepositIds
      BY <1>5, <3>7 DEF ChainInv, DepositIds
    <3> QED
      BY <1>2, <1>5, <3>1, <3>7, <3>8 DEF ChainInv, CoveredFrom
  <2> QED
    BY <1>2, <1>5, <2>1, <2>2
<1> QED
  BY <1>2, <1>5, <1>6, <1>7 DEF ids, min, max, DepositIds

\* Once its batch is relayed, a run may save the block of the batch.
LEMMA BatchBlockIsSafe ==
    ASSUME TypeOK, ChainInv, NEW r \in Runs, BatchInv(r), r.cur <= head,
           BatchUpTo(r.next, r.max) <= lastRelayed
    PROVE  LET b == BatchBlock(r.next, r.max, r.cur)
           IN  b \in Nat /\ b <= head /\ SafeAt(b)
<1> DEFINE u == BatchUpTo(r.next, r.max)
           b == BatchBlock(r.next, r.max, r.cur)
<1>1. /\ r.next \in Nat /\ r.max \in Nat /\ r.cur \in Nat
      /\ lastRelayed \in Nat /\ lastDepositId \in Nat /\ head \in Nat
      /\ \A d \in DepositIds : depositBlock[d] \in Nat /\ d \in Nat
  BY DEF Runs, TypeOK, DepositIds
<1>2. /\ u \in Nat /\ r.next <= u /\ u <= r.max
      /\ IsLastBatch(r.next, r.max) => u = r.max
  BY <1>1, BatchUpToInRange DEF BatchInv
<1>3. u \in DepositIds
  BY <1>1, <1>2 DEF BatchInv, DepositIds
<1>4. lastRelayed \in DepositIds
  BY <1>1, <1>2, <1>3 DEF ChainInv, DepositIds
<1>5. b \in Nat /\ b <= head
  BY <1>1, <1>3 DEF BatchBlock, ChainInv
<1>6. ASSUME NEW d \in LeftBehind(b)
      PROVE  lastRelayed > 0 /\ depositBlock[d] = depositBlock[lastRelayed]
  <2>1. d \in DepositIds /\ d > lastRelayed /\ depositBlock[d] <= b
    BY <1>1 DEF LeftBehind, DepositIds
  <2>2. d > u
    BY <1>1, <1>2, <2>1 DEF DepositIds
  <2>3. CASE IsLastBatch(r.next, r.max)
    <3>1. d <= r.max
      BY <2>1, <2>3 DEF BatchInv, BatchBlock
    <3> QED
      BY <1>1, <1>2, <2>1, <2>2, <2>3, <3>1
  <2>4. CASE ~IsLastBatch(r.next, r.max)
    <3>1. depositBlock[d] <= depositBlock[u]
      BY <2>1, <2>4 DEF BatchBlock
    <3>2. u <= lastRelayed /\ lastRelayed <= d
      BY <1>1, <2>1
    <3> HIDE DEF u, b
    <3>3. depositBlock[u] <= depositBlock[lastRelayed]
      BY <1>3, <1>4, <3>2 DEF ChainInv
    <3>4. depositBlock[lastRelayed] <= depositBlock[d]
      BY <1>4, <2>1, <3>2 DEF ChainInv
    <3> QED
      BY <1>1, <1>3, <1>4, <2>1, <3>1, <3>3, <3>4 DEF DepositIds
  <2> QED
    BY <2>3, <2>4
<1> QED
  BY <1>5, <1>6 DEF SafeAt

-----------------------------------------------------------------------------
(* The steps of a run.                                                     *)

\* A run that is not waiting has no receipt and owns no pending transaction,
\* so it may take any state that satisfies RunInv and save any safe cursor.
LEMMA LocalStepInd ==
    ASSUME IndInv, NEW j \in Jobs, job[j].pc # "waiting",
           NEW r \in Runs, RunInv(r), NEW c \in Nat, c <= head, SafeAt(c),
           job' = [job EXCEPT ![j] = r], cursor' = c, faults' \in 0..MaxFaults,
           UNCHANGED <<chainVars, pending, receipt>>
    PROVE  IndInv'
<1>1. TypeOK'
  BY DEF IndInv, TypeOK, chainVars
<1>2. ChainInv'
  BY DEF IndInv, ChainInv, DepositIds, chainVars
<1>3. SafeAt(cursor)'
  BY DEF SafeAt, LeftBehind, chainVars
<1>4. ASSUME NEW k \in Jobs PROVE RunInv(job[k])' /\ ReceiptInv(k)'
  <2>1. job' = [job EXCEPT ![j] = r] /\ job \in [Jobs -> Runs]
    BY DEF IndInv, TypeOK
  <2>2. RunInv(job'[k])
    BY <2>1 DEF IndInv
  <2>3. RunInv(job[k])'
    BY <2>2 DEF RunInv, SafeAt, LeftBehind, BatchInv, CoveredFrom, DepositIds, chainVars
  <2>4. ~receipt[j]
    BY DEF IndInv, ReceiptInv
  <2>5. ReceiptInv(k)'
    BY <2>1, <2>4 DEF IndInv, ReceiptInv, chainVars
  <2> QED
    BY <2>3, <2>5
<1>5. PendingInv'
  <2>1. pending # None /\ pending.owner # None => pending.owner \in Jobs /\ pending.owner # j
    BY DEF IndInv, PendingInv, TypeOK, RelayTx
  <2>2. job \in [Jobs -> Runs]
    BY DEF IndInv, TypeOK
  <2> QED
    BY <2>1, <2>2 DEF IndInv, PendingInv, Relayable, CoveredFrom, chainVars
<1> QED
  BY <1>1, <1>2, <1>3, <1>4, <1>5 DEF IndInv

\* A run that gives up on its transaction leaves it to nobody.
LEMMA ForgetStepInd ==
    ASSUME IndInv, NEW j \in Jobs, NEW r \in Runs, RunInv(r), Forget(j),
           job' = [job EXCEPT ![j] = r], faults' \in 0..MaxFaults,
           UNCHANGED <<chainVars, cursor>>
    PROVE  IndInv'
<1>1. TypeOK'
  BY DEF IndInv, TypeOK, chainVars, Forget, RelayTx
<1>2. ChainInv'
  BY DEF IndInv, ChainInv, DepositIds, chainVars
<1>3. SafeAt(cursor)'
  BY DEF IndInv, SafeAt, LeftBehind, chainVars
<1>4. ASSUME NEW k \in Jobs PROVE RunInv(job[k])' /\ ReceiptInv(k)'
  <2>1. job \in [Jobs -> Runs] /\ receipt \in [Jobs -> BOOLEAN]
    BY DEF IndInv, TypeOK
  <2>2. RunInv(job'[k])
    BY <2>1 DEF IndInv
  <2>3. RunInv(job[k])'
    BY <2>2 DEF RunInv, SafeAt, LeftBehind, BatchInv, CoveredFrom, DepositIds, chainVars
  <2>4. ReceiptInv(k)'
    BY <2>1 DEF IndInv, ReceiptInv, chainVars, Forget
  <2> QED
    BY <2>3, <2>4
<1>5. PendingInv'
  <2>1. CASE pending = None
    BY <2>1 DEF PendingInv, Forget
  <2>2. CASE pending # None
    <3>1. /\ pending \in RelayTx /\ pending' \in RelayTx
          /\ pending'.upTo = pending.upTo /\ pending'.num = pending.num
          /\ pending'.owner # None => pending'.owner = pending.owner /\ pending.owner # j
      BY <2>2 DEF IndInv, TypeOK, Forget, RelayTx
    <3>2. job \in [Jobs -> Runs]
      BY DEF IndInv, TypeOK
    <3>3. pending'.owner # None => pending'.owner \in Jobs \ {j}
      BY <3>1 DEF RelayTx
    <3> QED
      BY <2>2, <3>1, <3>2, <3>3 DEF IndInv, PendingInv, Relayable, CoveredFrom, chainVars
  <2> QED
    BY <2>1, <2>2
<1> QED
  BY <1>1, <1>2, <1>3, <1>4, <1>5 DEF IndInv

\* An idle run and one that has just read the head satisfy RunInv.
LEMMA IdleRun ==
    ASSUME TypeOK
    PROVE  /\ Idle \in Runs /\ RunInv(Idle)
           /\ \A b \in 0..head : LET r == [Idle EXCEPT !.pc = "started", !.cur = b]
                                IN  r \in Runs /\ RunInv(r)
<1>1. 0 \in 0..MaxAttempts - 1
  BY BoundsAssumption
<1>2. Idle \in Runs
  BY <1>1 DEF Idle, Runs, PCs
<1>3. RunInv(Idle)
  BY DEF TypeOK, Idle, RunInv
<1>4. ASSUME NEW b \in 0..head
      PROVE  LET r == [Idle EXCEPT !.pc = "started", !.cur = b]
             IN  r \in Runs /\ RunInv(r)
  <2> DEFINE r == [Idle EXCEPT !.pc = "started", !.cur = b]
  <2>1. b \in Nat /\ b <= head
    BY DEF TypeOK
  <2>2. r.pc = "started" /\ r.cur = b
    BY <1>2 DEF Runs
  <2>3. r \in Runs
    BY <1>2, <2>1 DEF Runs, PCs
  <2> HIDE DEF r
  <2>4. RunInv(r)
    BY <2>1, <2>2 DEF RunInv
  <2> QED
    BY <2>3, <2>4 DEF r
<1> QED
  BY <1>2, <1>3, <1>4

\* Nothing a run does before it submits, nor an error that ends it,
\* disturbs the invariant.
LEMMA FetchingInd ==
    ASSUME IndInv, NEW j \in Jobs,
           \/ ReadHead(j) \/ SkipInvalidRange(j) \/ Analyze(j) \/ SaveEmptyRange(j)
           \/ SubmitReverts(j) \/ SubmitUnderpriced(j) \/ RequestTimeout(j)
    PROVE  IndInv'
<1>1. /\ TypeOK /\ ChainInv /\ SafeAt(cursor) /\ RunInv(job[j])
      /\ cursor \in Nat /\ cursor <= head /\ job[j] \in Runs /\ faults \in 0..MaxFaults
  BY DEF IndInv, TypeOK, ChainInv
<1>2. Idle \in Runs /\ RunInv(Idle)
  BY <1>1, IdleRun DEF TypeOK
<1>3. ASSUME ReadHead(j) PROVE IndInv'
  <2>1. PICK b \in DeployedBlock..head :
          job' = [job EXCEPT ![j] = [Idle EXCEPT !.pc = "started", !.cur = b]]
    BY <1>3 DEF ReadHead
  <2>2. b \in 0..head
    BY <1>1, BoundsAssumption DEF TypeOK
  <2> DEFINE r == [Idle EXCEPT !.pc = "started", !.cur = b]
  <2>3. r \in Runs /\ RunInv(r)
    BY <1>1, <2>2, IdleRun
  <2> HIDE DEF r
  <2> QED
    BY <1>1, <1>3, <2>1, <2>3, LocalStepInd DEF ReadHead, r
<1>4. ASSUME SkipInvalidRange(j) PROVE IndInv'
  BY <1>1, <1>2, <1>4, LocalStepInd DEF SkipInvalidRange
<1>5. ASSUME SaveEmptyRange(j) PROVE IndInv'
  <2>1. job[j].cur \in Nat /\ job[j].cur <= head /\ SafeAt(job[j].cur)
    BY <1>1, <1>5 DEF SaveEmptyRange, RunInv, Runs
  <2> QED
    BY <1>1, <1>2, <1>5, <2>1, LocalStepInd DEF SaveEmptyRange
<1>6. ASSUME SubmitReverts(j) \/ SubmitUnderpriced(j) \/ RequestTimeout(j) PROVE IndInv'
  <2> DEFINE r == [job[j] EXCEPT !.pc = "submitting", !.attempt = job[j].attempt + 1]
  <2>1. /\ job[j].pc = "submitting" /\ faults' \in 0..MaxFaults
        /\ UNCHANGED <<chainVars, pending, cursor, receipt>>
    BY <1>1, <1>6, BoundsAssumption DEF SubmitReverts, SubmitUnderpriced, RequestTimeout, TypeOK
  <2>2. CASE job' = [job EXCEPT ![j] = Idle]
    BY <1>1, <1>2, <2>1, <2>2, LocalStepInd
  <2>3. CASE job[j].attempt + 1 # MaxAttempts /\ job' = [job EXCEPT ![j] = r]
    <3>1. r \in Runs
      <4>1. job[j].attempt + 1 \in 0..MaxAttempts - 1
        BY <1>1, <2>3, BoundsAssumption DEF Runs
      <4> QED
        BY <1>1, <4>1 DEF Runs, PCs
    <3>2. RunInv(r)
      BY <1>1, <2>1 DEF RunInv, BatchInv, Runs
    <3> HIDE DEF r
    <3> QED
      BY <1>1, <2>1, <2>3, <3>1, <3>2, LocalStepInd
  <2> QED
    BY <1>6, <2>2, <2>3 DEF SubmitReverts, SubmitUnderpriced, RequestTimeout, Retry
<1>7. ASSUME Analyze(j) PROVE IndInv'
  <2> DEFINE cur == job[j].cur
             ids == DepositedEvents(cursor, cur)
             closing == [job[j] EXCEPT !.pc = "closing"]
             batch == [job[j] EXCEPT !.pc = "submitting", !.next = Min(ids), !.max = Max(ids)]
  <2>1. cur \in Nat /\ cur <= head
    BY <1>1 DEF RunInv, Runs
  <2>2. CASE job' = [job EXCEPT ![j] = Idle]
    BY <1>1, <1>2, <1>7, <2>2, LocalStepInd DEF Analyze
  <2>3. CASE ids = {} /\ job' = [job EXCEPT ![j] = closing]
    <3>1. SafeAt(cur)
      BY <1>1, <2>1, <2>3, EmptyRangeIsSafe
    <3>2. closing \in Runs
      BY <1>1 DEF Runs, PCs
    <3>3. RunInv(closing)
      BY <1>1, <2>1, <3>1 DEF RunInv, Runs
    <3> HIDE DEF closing
    <3> QED
      BY <1>1, <1>7, <2>3, <3>2, <3>3, LocalStepInd DEF Analyze
  <2>4. CASE ids # {} /\ job' = [job EXCEPT ![j] = batch]
    <3>1. /\ 1 <= Min(ids) /\ Min(ids) <= Max(ids) /\ Max(ids) <= lastDepositId
          /\ Min(ids) \in Nat /\ Max(ids) \in Nat
          /\ \A d \in DepositIds : depositBlock[d] <= cur => d <= Max(ids)
          /\ CoveredFrom(Min(ids))
      BY <1>1, <2>1, <2>4, FetchedBatchInv
    <3> HIDE DEF ids
    <3>2. batch \in Runs
      BY <1>1, <3>1 DEF Runs, PCs
    <3>3. batch.pc = "submitting" /\ batch.cur = cur /\ batch.next = Min(ids) /\ batch.max = Max(ids)
      BY <1>1 DEF Runs
    <3> HIDE DEF batch
    <3>4. RunInv(batch)
      BY <2>1, <3>1, <3>3 DEF RunInv, BatchInv
    <3> QED
      BY <1>1, <1>7, <2>4, <3>2, <3>4, LocalStepInd DEF Analyze
  <2> QED
    BY <1>7, <2>2, <2>3, <2>4 DEF Analyze
<1> QED
  BY <1>3, <1>4, <1>5, <1>6, <1>7

\* The cursor a relayed batch leaves is safe, and the next batch starts
\* right behind it.
LEMMA SaveBatchInd ==
    ASSUME IndInv, NEW j \in Jobs, SaveBatch(j)
    PROVE  IndInv'
<1> DEFINE run == job[j]
           u == BatchUpTo(run.next, run.max)
           b == BatchBlock(run.next, run.max, run.cur)
           r == [run EXCEPT !.pc = "submitting", !.next = u + 1, !.attempt = 0]
<1>1. /\ TypeOK /\ ChainInv /\ run \in Runs /\ run.pc = "saving" /\ RunInv(run)
      /\ run.next \in Nat /\ run.max \in Nat /\ lastRelayed \in Nat
      /\ faults \in 0..MaxFaults
  BY DEF IndInv, TypeOK, SaveBatch, Runs
<1>2. BatchInv(run) /\ run.cur <= head /\ u <= lastRelayed
  BY <1>1 DEF RunInv
<1>3. b \in Nat /\ b <= head /\ SafeAt(b)
  BY <1>1, <1>2, BatchBlockIsSafe
<1>4. cursor' = b /\ UNCHANGED <<chainVars, pending, receipt, faults>>
  BY DEF SaveBatch
<1>5. CASE job' = [job EXCEPT ![j] = Idle]
  <2>1. Idle \in Runs /\ RunInv(Idle)
    BY <1>1, IdleRun DEF TypeOK
  <2> HIDE DEF b
  <2> QED
    BY <1>1, <1>3, <1>4, <1>5, <2>1, LocalStepInd
<1>6. CASE ~IsLastBatch(run.next, run.max) /\ job' = [job EXCEPT ![j] = r]
  <2>1. u \in Nat /\ run.next <= u /\ u < run.max
    BY <1>1, <1>2, <1>6, BatchUpToInRange DEF BatchInv
  <2> HIDE DEF u
  <2>2. r \in Runs
    <3>1. 0 \in 0..MaxAttempts - 1 /\ u + 1 \in Nat
      BY <2>1, BoundsAssumption
    <3> QED
      BY <1>1, <3>1 DEF Runs, PCs
  <2>3. /\ r.pc = "submitting" /\ r.next = u + 1 /\ r.max = run.max /\ r.cur = run.cur
    BY <1>1 DEF Runs
  <2> HIDE DEF r
  <2>4. CoveredFrom(u + 1)
    BY <1>1, <1>2, <2>1, BoundsAssumption DEF CoveredFrom
  <2>5. RunInv(r)
    BY <1>1, <1>2, <2>1, <2>3, <2>4 DEF RunInv, BatchInv
  <2> HIDE DEF b
  <2> QED
    BY <1>1, <1>3, <1>4, <1>6, <2>2, <2>5, LocalStepInd
<1> QED
  BY <1>5, <1>6 DEF SaveBatch

\* A run that gives up waiting, or fails, keeps its batch or drops it.
LEMMA GiveUpInd ==
    ASSUME IndInv, NEW j \in Jobs, WaitTimeout(j) \/ Fail(j)
    PROVE  IndInv'
<1>1. /\ TypeOK /\ job[j] \in Runs /\ RunInv(job[j]) /\ faults \in 0..MaxFaults
  BY DEF IndInv, TypeOK
<1>2. Idle \in Runs /\ RunInv(Idle)
  BY <1>1, IdleRun DEF TypeOK
<1>3. ASSUME Fail(j) PROVE IndInv'
  <2>1. faults' \in 0..MaxFaults
    BY <1>1, <1>3, BoundsAssumption DEF Fail
  <2> QED
    BY <1>1, <1>2, <1>3, <2>1, ForgetStepInd DEF Fail
<1>4. ASSUME WaitTimeout(j) PROVE IndInv'
  <2> DEFINE r == [job[j] EXCEPT !.pc = "submitting", !.attempt = job[j].attempt + 1]
  <2>1. CASE job' = [job EXCEPT ![j] = Idle]
    BY <1>1, <1>2, <1>4, <2>1, ForgetStepInd DEF WaitTimeout
  <2>2. CASE job[j].attempt + 1 # MaxAttempts /\ job' = [job EXCEPT ![j] = r]
    <3>1. r \in Runs
      <4>1. job[j].attempt + 1 \in 0..MaxAttempts - 1
        BY <1>1, <2>2, BoundsAssumption DEF Runs
      <4> QED
        BY <1>1, <4>1 DEF Runs, PCs
    <3>2. RunInv(r)
      BY <1>1, <1>4 DEF WaitTimeout, RunInv, BatchInv, Runs
    <3> HIDE DEF r
    <3> QED
      BY <1>1, <1>4, <2>2, <3>1, <3>2, ForgetStepInd DEF WaitTimeout
  <2> QED
    BY <1>4, <2>1, <2>2 DEF WaitTimeout, Retry
<1> QED
  BY <1>3, <1>4

\* Submit broadcasts a transaction that relays the batch of its run.
LEMMA SubmitInd ==
    ASSUME IndInv, NEW j \in Jobs, Submit(j)
    PROVE  IndInv'
<1> DEFINE u == BatchUpTo(job[j].next, job[j].max)
           num == NumDepositsToRelay(job[j].next, job[j].max)
<1>1. /\ TypeOK /\ ChainInv /\ job[j] \in Runs /\ RunInv(job[j])
      /\ job[j].pc = "submitting" /\ job[j].next \in Nat /\ job[j].max \in Nat
      /\ job \in [Jobs -> Runs]
  BY DEF IndInv, TypeOK, Submit, Runs
<1>2. BatchInv(job[j])
  BY <1>1 DEF RunInv
<1>3. u \in Nat /\ job[j].next <= u
  BY <1>1, <1>2, BatchUpToInRange DEF BatchInv
<1>4. num \in Int /\ u - num + 1 = job[j].next
  BY <1>1, <1>3 DEF NumDepositsToRelay
<1>5. /\ pending' = [upTo |-> u, owner |-> j, num |-> num]
      /\ job' = [job EXCEPT ![j].pc = "waiting"]
      /\ UNCHANGED <<chainVars, cursor, receipt, faults>>
      /\ Relayable(u)
  BY DEF Submit
<1> HIDE DEF u, num
<1>6. pending' \in RelayTx
  BY <1>3, <1>4, <1>5 DEF RelayTx
<1>7. job' \in [Jobs -> Runs]
  BY <1>1, <1>5 DEF Runs, PCs
<1>8. TypeOK'
  BY <1>5, <1>6, <1>7 DEF IndInv, TypeOK, chainVars
<1>9. ChainInv' /\ SafeAt(cursor)'
  BY <1>5 DEF IndInv, ChainInv, SafeAt, LeftBehind, DepositIds, chainVars
<1>10. ASSUME NEW k \in Jobs PROVE RunInv(job[k])' /\ ReceiptInv(k)'
  <2>1. /\ job'[k].cur = job[k].cur /\ job'[k].next = job[k].next /\ job'[k].max = job[k].max
        /\ k # j => job'[k].pc = job[k].pc
        /\ k = j => job'[k].pc = "waiting"
    BY <1>1, <1>5 DEF Runs
  <2>2. RunInv(job[k])'
    BY <1>2, <1>5, <2>1 DEF IndInv, RunInv, SafeAt, LeftBehind, BatchInv, CoveredFrom, DepositIds, chainVars
  <2>3. ReceiptInv(k)'
    BY <1>1, <1>5, <2>1 DEF IndInv, ReceiptInv, chainVars
  <2> QED
    BY <2>2, <2>3
<1>11. PendingInv'
  <2>1. /\ pending'.upTo = u /\ pending'.owner = j /\ pending'.upTo - pending'.num + 1 = job[j].next
    BY <1>4, <1>5
  <2>2. /\ job'[j].pc = "waiting" /\ job'[j].next = job[j].next /\ job'[j].max = job[j].max
    BY <1>1, <1>5 DEF Runs
  <2>3. CoveredFrom(job[j].next)
    BY <1>2 DEF BatchInv
  <2> QED
    BY <1>5, <2>1, <2>2, <2>3 DEF PendingInv, Relayable, CoveredFrom, chainVars, u
<1> QED
  BY <1>8, <1>9, <1>10, <1>11 DEF IndInv

\* Confirm: the receipt says that the batch is relayed.
LEMMA ConfirmInd ==
    ASSUME IndInv, NEW j \in Jobs, Confirm(j)
    PROVE  IndInv'
<1>1. /\ TypeOK /\ job \in [Jobs -> Runs] /\ receipt \in [Jobs -> BOOLEAN]
      /\ RunInv(job[j]) /\ job[j].pc = "waiting" /\ receipt[j]
  BY DEF IndInv, TypeOK, Confirm
<1>2. BatchInv(job[j]) /\ BatchUpTo(job[j].next, job[j].max) <= lastRelayed
  BY <1>1 DEF IndInv, RunInv, ReceiptInv
<1>3. /\ job' = [job EXCEPT ![j].pc = "saving"]
      /\ receipt' = [receipt EXCEPT ![j] = FALSE]
      /\ UNCHANGED <<chainVars, pending, cursor, faults>>
  BY DEF Confirm
<1>4. job' \in [Jobs -> Runs]
  BY <1>1, <1>3 DEF Runs, PCs
<1>5. TypeOK'
  BY <1>1, <1>3, <1>4 DEF TypeOK, chainVars
<1>6. ChainInv' /\ SafeAt(cursor)'
  BY <1>3 DEF IndInv, ChainInv, SafeAt, LeftBehind, DepositIds, chainVars
<1>7. ASSUME NEW k \in Jobs PROVE RunInv(job[k])' /\ ReceiptInv(k)'
  <2>1. /\ job'[k].cur = job[k].cur /\ job'[k].next = job[k].next /\ job'[k].max = job[k].max
        /\ k # j => job'[k].pc = job[k].pc
        /\ k = j => job'[k].pc = "saving"
    BY <1>1, <1>3 DEF Runs
  <2>2. RunInv(job[k])'
    BY <1>2, <1>3, <2>1 DEF IndInv, RunInv, SafeAt, LeftBehind, BatchInv, CoveredFrom, DepositIds, chainVars
  <2>3. ReceiptInv(k)'
    BY <1>1, <1>3, <2>1 DEF IndInv, ReceiptInv, chainVars
  <2> QED
    BY <2>2, <2>3
<1>8. PendingInv'
  <2>1. SUFFICES ASSUME pending # None PROVE PendingInv'
    BY <1>3 DEF PendingInv
  <2>2. /\ pending.upTo \in Nat /\ lastRelayed \in Nat /\ lastRelayed < pending.upTo
        /\ pending.owner # None => pending.owner \in Jobs
    BY <2>1 DEF IndInv, PendingInv, Relayable, TypeOK, RelayTx
  <2>3. pending.owner # j
    <3>1. SUFFICES ASSUME pending.owner = j PROVE FALSE
      OBVIOUS
    <3>2. BatchUpTo(job[j].next, job[j].max) = pending.upTo
      BY <2>1, <3>1, NoneAssumption DEF IndInv, PendingInv
    <3> QED
      BY <1>2, <2>2, <3>2
  <2> QED
    BY <1>1, <1>3, <2>1, <2>2, <2>3 DEF IndInv, PendingInv, Relayable, CoveredFrom, chainVars
<1> QED
  BY <1>5, <1>6, <1>7, <1>8 DEF IndInv

-----------------------------------------------------------------------------
(* The steps of the chain.                                                 *)

\* What a block changes: ids and relayed deposits only grow, new deposits
\* are in the new block, and the wallet's transaction does not revert.
LEMMA MineBlockEffect ==
    ASSUME IndInv, NEW n \in 0..MaxPerBlock, NEW mined \in BOOLEAN, MineBlock(n, mined)
    PROVE  /\ head' = head + 1 /\ lastDepositId' = lastDepositId + n
           /\ depositBlock' \in [1..lastDepositId' -> Nat]
           /\ \A d \in DepositIds : d \in DepositIds' /\ depositBlock'[d] = depositBlock[d]
           /\ \A d \in DepositIds' :
                /\ depositBlock'[d] \in Nat
                /\ d \notin DepositIds => depositBlock'[d] = head'
           /\ \/ /\ mined /\ pending # None /\ pending' = None
                 /\ pending \in RelayTx /\ Relayable(pending.upTo)
                 /\ lastRelayed' = pending.upTo
                 /\ relayEvents' = relayEvents \cup {[block |-> head + 1, upTo |-> pending.upTo]}
                 /\ receipt' = [k \in Jobs |-> receipt[k] \/ k = pending.owner]
              \/ UNCHANGED <<pending, lastRelayed, relayEvents, receipt>>
           /\ lastRelayed' \in Nat /\ lastRelayed <= lastRelayed' /\ lastRelayed' <= lastDepositId
<1>1. /\ head \in Nat /\ lastDepositId \in Nat /\ lastRelayed \in Nat /\ n \in Nat
      /\ lastRelayed <= lastDepositId
      /\ \A d \in DepositIds : depositBlock[d] \in Nat
      /\ pending # None => pending \in RelayTx /\ Relayable(pending.upTo)
  BY BoundsAssumption DEF IndInv, TypeOK, ChainInv, PendingInv, DepositIds
<1>2. /\ head' = head + 1 /\ lastDepositId' = lastDepositId + n
      /\ depositBlock' = [d \in 1..(lastDepositId + n) |->
                            IF d <= lastDepositId THEN depositBlock[d] ELSE head + 1]
  BY DEF MineBlock
<1>3. /\ \A d \in DepositIds : d \in DepositIds' /\ depositBlock'[d] = depositBlock[d]
      /\ \A d \in DepositIds' :
           /\ depositBlock'[d] \in Nat
           /\ d \notin DepositIds => depositBlock'[d] = head'
  BY <1>1, <1>2 DEF DepositIds
<1>4. depositBlock' \in [1..lastDepositId' -> Nat]
  <2>1. \A d \in 1..(lastDepositId + n) :
          (IF d <= lastDepositId THEN depositBlock[d] ELSE head + 1) \in Nat
    BY <1>1 DEF DepositIds
  <2> QED
    BY <1>2, <2>1
<1>5. CASE mined
  <2>1. pending # None /\ pending' = None
    BY <1>5 DEF MineBlock
  <2>2. pending \in RelayTx /\ Relayable(pending.upTo)
    BY <1>1, <2>1
  <2>3. /\ lastRelayed' = pending.upTo
        /\ relayEvents' = relayEvents \cup {[block |-> head + 1, upTo |-> pending.upTo]}
        /\ receipt' = [k \in Jobs |-> receipt[k] \/ k = pending.owner]
    BY <1>5, <2>2, Zenon DEF MineBlock
  <2>4. lastRelayed' \in Nat /\ lastRelayed <= lastRelayed' /\ lastRelayed' <= lastDepositId
    BY <1>1, <2>2, <2>3 DEF Relayable, RelayTx
  <2> QED
    BY <1>2, <1>3, <1>5, <1>4, <2>1, <2>2, <2>3, <2>4, Zenon
<1>6. CASE ~mined
  BY <1>1, <1>2, <1>3, <1>6, <1>4 DEF MineBlock
<1> QED
  BY <1>5, <1>6

\* A cursor that skips no block stays so when a block is mined: what is
\* left behind stays in the block of the last relayed deposit.
LEMMA MineBlockKeepsSafe ==
    ASSUME IndInv, NEW n \in 0..MaxPerBlock, NEW mined \in BOOLEAN, MineBlock(n, mined),
           NEW c \in Nat, c <= head, SafeAt(c)
    PROVE  SafeAt(c)'
<1>1. /\ head \in Nat /\ lastDepositId \in Nat /\ lastRelayed \in Nat
      /\ \A d \in DepositIds : depositBlock[d] \in Nat /\ d \in Nat
  BY DEF IndInv, TypeOK, DepositIds
<1>2. SUFFICES ASSUME NEW d \in DepositIds', d > lastRelayed', depositBlock'[d] <= c
               PROVE  lastRelayed' > 0 /\ depositBlock'[d] = depositBlock'[lastRelayed']
  BY <1>1, MineBlockEffect, SMTT(30) DEF SafeAt, LeftBehind, DepositIds
<1>3. lastRelayed' \in Nat /\ lastRelayed <= lastRelayed' /\ lastRelayed' <= lastDepositId
  BY MineBlockEffect
<1>4. d \in DepositIds /\ depositBlock'[d] = depositBlock[d]
  BY <1>1, <1>2, MineBlockEffect
<1>5. d \in LeftBehind(c)
  BY <1>1, <1>2, <1>3, <1>4 DEF LeftBehind, DepositIds
<1>6. lastRelayed > 0 /\ depositBlock[d] = depositBlock[lastRelayed]
  BY <1>5 DEF SafeAt
<1>7. lastRelayed \in DepositIds /\ lastRelayed' \in DepositIds
  BY <1>1, <1>3, <1>6 DEF DepositIds
<1>8. /\ depositBlock[lastRelayed] <= depositBlock[lastRelayed']
      /\ depositBlock[lastRelayed'] <= depositBlock[d]
  BY <1>1, <1>2, <1>3, <1>4, <1>7 DEF IndInv, ChainInv
<1>9. depositBlock'[lastRelayed'] = depositBlock[lastRelayed']
  BY <1>7, MineBlockEffect
<1> QED
  BY <1>1, <1>3, <1>4, <1>6, <1>7, <1>8, <1>9

\* A new block extends the chain in order.
LEMMA MineBlockKeepsChain ==
    ASSUME IndInv, NEW n \in 0..MaxPerBlock, NEW mined \in BOOLEAN, MineBlock(n, mined)
    PROVE  ChainInv'
<1>1. /\ head \in Nat /\ lastDepositId \in Nat /\ lastRelayed \in Nat /\ n \in Nat
      /\ n <= MaxPerBlock /\ MaxPerBlock \in Nat /\ MaxPerBlock > 0
      /\ relayEvents \subseteq RelayEvents /\ cursor \in Nat /\ DeployedBlock \in Nat
      /\ \A d \in DepositIds : depositBlock[d] \in Nat /\ d \in Nat
  BY BoundsAssumption DEF IndInv, TypeOK, DepositIds
<1>2. ChainInv
  BY DEF IndInv
<1>3. /\ head' = head + 1 /\ lastDepositId' = lastDepositId + n
      /\ \A d \in DepositIds : d \in DepositIds' /\ depositBlock'[d] = depositBlock[d]
      /\ \A d \in DepositIds' :
           /\ depositBlock'[d] \in Nat
           /\ d \notin DepositIds => depositBlock'[d] = head'
      /\ lastRelayed' \in Nat /\ lastRelayed <= lastRelayed' /\ lastRelayed' <= lastDepositId
  BY MineBlockEffect
<1>4. \A d, e \in DepositIds' : d <= e => depositBlock'[d] <= depositBlock'[e]
  <2>1. TAKE d, e \in DepositIds'
  <2>2. HAVE d <= e
  <2>3. e \in DepositIds => d \in DepositIds
    BY <1>1, <1>3, <2>2 DEF DepositIds
  <2>4. CASE e \in DepositIds
    BY <1>2, <1>3, <2>2, <2>3, <2>4 DEF ChainInv
  <2>5. CASE e \notin DepositIds
    <3>1. depositBlock'[e] = head + 1
      BY <1>3, <2>5
    <3>2. CASE d \in DepositIds
      <4>1. depositBlock'[d] = depositBlock[d] /\ depositBlock[d] <= head
        BY <1>2, <1>3, <3>2 DEF ChainInv
      <4> QED
        BY <1>1, <3>1, <3>2, <4>1
    <3>3. CASE d \notin DepositIds
      <4>1. depositBlock'[d] = head + 1
        BY <1>3, <3>3
      <4> QED
        BY <1>1, <3>1, <4>1
    <3> QED
      BY <3>2, <3>3
  <2> QED
    BY <2>4, <2>5
<1>5. \A d, e \in DepositIds' : depositBlock'[d] = depositBlock'[e] => e - d < MaxPerBlock
  <2>1. TAKE d, e \in DepositIds'
  <2>2. HAVE depositBlock'[d] = depositBlock'[e]
  <2>3. CASE d \in DepositIds /\ e \in DepositIds
    BY <1>1, <1>2, <1>3, <2>2, <2>3 DEF ChainInv
  <2>4. CASE d \in DepositIds /\ e \notin DepositIds
    BY <1>1, <1>2, <1>3, <2>2, <2>4 DEF ChainInv
  <2>5. CASE d \notin DepositIds
    <3>1. d \in lastDepositId + 1..lastDepositId + n /\ e \in 1..lastDepositId + n
      BY <1>1, <1>3, <2>5 DEF DepositIds
    <3> QED
      BY <1>1, <3>1
  <2> QED
    BY <2>3, <2>4, <2>5
<1>6. \A d \in DepositIds' : DeployedBlock <= depositBlock'[d] /\ depositBlock'[d] <= head'
  <2>1. DeployedBlock <= head
    BY DEF IndInv, ChainInv
  <2>2. TAKE d \in DepositIds'
  <2>3. CASE d \in DepositIds
    <3>1. depositBlock'[d] = depositBlock[d] /\ DeployedBlock <= depositBlock[d] /\ depositBlock[d] <= head
      BY <1>2, <1>3, <2>3 DEF ChainInv
    <3> QED
      BY <1>1, <1>3, <2>3, <3>1
  <2>4. CASE d \notin DepositIds
    <3>1. depositBlock'[d] = head + 1
      BY <1>3, <2>4
    <3> QED
      BY <1>1, <2>1, <3>1, <1>3
  <2> QED
    BY <2>3, <2>4
<1>7. \A e \in relayEvents' : e.upTo <= lastRelayed'
  <2>1. CASE UNCHANGED <<lastRelayed, relayEvents>>
    BY <1>2, <2>1 DEF ChainInv
  <2>2. CASE relayEvents' = relayEvents \cup {[block |-> head + 1, upTo |-> pending.upTo]}
             /\ lastRelayed' = pending.upTo
    <3>1. \A e \in relayEvents : e.upTo <= lastRelayed'
      BY <1>1, <1>2, <1>3 DEF ChainInv, RelayEvents
    <3> QED
      BY <1>3, <2>2, <3>1
  <2> QED
    BY <2>1, <2>2, MineBlockEffect
<1>8. lastRelayed' <= lastDepositId' /\ DeployedBlock <= head' /\ cursor' <= head'
  BY <1>1, <1>2, <1>3 DEF ChainInv, MineBlock
<1> QED
  BY <1>4, <1>5, <1>6, <1>7, <1>8 DEF ChainInv

\* Mining a block keeps the invariant of every run.
LEMMA MineBlockInd ==
    ASSUME IndInv, NEW n \in 0..MaxPerBlock, NEW mined \in BOOLEAN, MineBlock(n, mined)
    PROVE  IndInv'
<1>1. /\ TypeOK /\ ChainInv /\ SafeAt(cursor) /\ cursor \in Nat /\ cursor <= head
      /\ head \in Nat /\ lastDepositId \in Nat /\ lastRelayed \in Nat /\ n \in Nat
      /\ lastRelayed <= lastDepositId
      /\ receipt \in [Jobs -> BOOLEAN] /\ pending \in RelayTx \cup {None}
      /\ relayEvents \subseteq RelayEvents
      /\ \A d \in DepositIds : depositBlock[d] \in Nat /\ d \in Nat
  BY BoundsAssumption DEF IndInv, TypeOK, ChainInv, DepositIds
<1>2. UNCHANGED <<cursor, job, faults>>
  BY DEF MineBlock
<1>3. /\ head' = head + 1 /\ lastDepositId' = lastDepositId + n
      /\ \A d \in DepositIds' : d \notin DepositIds => depositBlock'[d] = head + 1
      /\ \A d \in DepositIds' : d \in DepositIds => depositBlock'[d] = depositBlock[d]
      /\ lastRelayed' \in Nat /\ lastRelayed <= lastRelayed' /\ lastRelayed' <= lastDepositId
  BY MineBlockEffect
<1>4. ASSUME pending # None, pending' = None, pending \in RelayTx,
             lastRelayed' = pending.upTo,
             relayEvents' = relayEvents \cup {[block |-> head + 1, upTo |-> pending.upTo]},
             receipt' = [k \in Jobs |-> receipt[k] \/ k = pending.owner]
      PROVE  TypeOK' /\ PendingInv' /\ \A k \in Jobs : ReceiptInv(k)'
  <2>1. TypeOK'
    <3>1. depositBlock' \in [1..lastDepositId' -> Nat]
      BY MineBlockEffect
    <3>2. relayEvents' \subseteq RelayEvents
      BY <1>1, <1>4 DEF RelayEvents, RelayTx
    <3>3. receipt' \in [Jobs -> BOOLEAN]
      BY <1>4, Zenon
    <3>4. head' \in Nat /\ lastDepositId' \in Nat
      BY <1>1, <1>3
    <3> QED
      BY <1>1, <1>2, <1>3, <1>4, <3>1, <3>2, <3>3, <3>4 DEF TypeOK
  <2>2. PendingInv'
    BY <1>4 DEF PendingInv
  <2>3. ASSUME NEW k \in Jobs PROVE ReceiptInv(k)'
    <3>1. SUFFICES ASSUME receipt'[k]
                   PROVE  job[k].pc = "waiting" /\ BatchUpTo(job[k].next, job[k].max) <= lastRelayed'
      BY <1>2 DEF ReceiptInv
    <3>2. receipt[k] \/ k = pending.owner
      BY <1>4, <3>1, Zenon
    <3>3. CASE receipt[k]
      <4>1. /\ job[k].pc = "waiting" /\ BatchUpTo(job[k].next, job[k].max) <= lastRelayed
            /\ job[k].next \in Nat /\ job[k].max \in Nat
        BY <3>3 DEF IndInv, ReceiptInv, TypeOK, Runs
      <4>2. BatchUpTo(job[k].next, job[k].max) \in Int
        BY <4>1, BoundsAssumption DEF BatchUpTo
      <4> QED
        BY <1>1, <1>3, <4>1, <4>2
    <3>4. CASE k = pending.owner
      <4>1. pending.owner # None
        BY <3>4, NoneAssumption
      <4>2. /\ job[k].pc = "waiting" /\ BatchUpTo(job[k].next, job[k].max) = pending.upTo
        BY <1>4, <3>4, <4>1 DEF IndInv, PendingInv
      <4> QED
        BY <1>3, <1>4, <4>2
    <3> QED
      BY <3>2, <3>3, <3>4
  <2> QED
    BY <2>1, <2>2, <2>3
<1>5. ASSUME UNCHANGED <<pending, lastRelayed, relayEvents, receipt>>
      PROVE  TypeOK' /\ PendingInv' /\ \A k \in Jobs : ReceiptInv(k)'
  <2>1. TypeOK'
    <3>1. depositBlock' \in [1..lastDepositId' -> Nat]
      BY MineBlockEffect
    <3>2. head' \in Nat /\ lastDepositId' \in Nat
      BY <1>1, <1>3
    <3> QED
      BY <1>1, <1>2, <1>5, <3>1, <3>2 DEF TypeOK
  <2>2. PendingInv'
    <3>1. SUFFICES ASSUME pending # None PROVE PendingInv'
      BY <1>5 DEF PendingInv
    <3>2. pending.upTo \in Nat /\ Relayable(pending.upTo)
      BY <1>1, <3>1 DEF IndInv, PendingInv, RelayTx
    <3>3. lastRelayed' < pending.upTo /\ pending.upTo <= lastDepositId'
      BY <1>1, <1>3, <1>5, <3>2 DEF Relayable
    <3> QED
      BY <1>2, <1>5, <3>1, <3>3 DEF IndInv, PendingInv, Relayable, CoveredFrom
  <2>3. ASSUME NEW k \in Jobs PROVE ReceiptInv(k)'
    BY <1>2, <1>5 DEF IndInv, ReceiptInv
  <2> QED
    BY <2>1, <2>2, <2>3
<1>6. TypeOK' /\ PendingInv' /\ \A k \in Jobs : ReceiptInv(k)'
  BY <1>4, <1>5, MineBlockEffect
<1>7. ChainInv'
  BY MineBlockKeepsChain
<1>8. SafeAt(cursor)'
  BY <1>1, <1>2, MineBlockKeepsSafe DEF SafeAt, LeftBehind
<1>9. ASSUME NEW k \in Jobs PROVE RunInv(job[k])'
  <2> DEFINE r == job[k]
  <2>1. /\ r \in Runs /\ RunInv(r) /\ r.cur \in Nat /\ r.cur <= head
        /\ r.next \in Nat /\ r.max \in Nat
    BY DEF IndInv, RunInv, TypeOK, Runs
  <2>2. r.cur <= head'
    BY <1>1, <1>3, <2>1
  <2>3. ASSUME r.pc = "closing" PROVE SafeAt(r.cur)'
    <3>1. SafeAt(r.cur)
      BY <2>1, <2>3 DEF RunInv
    <3> DEFINE c == r.cur
    <3>2. c \in Nat /\ c <= head /\ SafeAt(c) /\ c' = c
      BY <1>2, <2>1, <3>1
    <3> HIDE DEF c
    <3> QED
      BY <1>2, <3>2, MineBlockKeepsSafe DEF SafeAt, LeftBehind, c
  <2>4. ASSUME BatchInv(r) PROVE BatchInv(r)'
    <3>1. /\ 1 <= r.next /\ r.next <= r.max /\ r.max <= lastDepositId'
      BY <1>1, <1>3, <2>1, <2>4 DEF BatchInv
    <3>2. ASSUME NEW d \in DepositIds', depositBlock'[d] <= r.cur PROVE d <= r.max
      <4>1. d \in DepositIds
        BY <1>1, <1>3, <2>1, <3>2
      <4> QED
        BY <1>3, <2>4, <3>2, <4>1 DEF BatchInv
    <3>3. r.next - 1 - lastRelayed' < MaxPerBlock
      BY <1>1, <1>3, <2>1, <2>4, BoundsAssumption DEF BatchInv, CoveredFrom
    <3> QED
      BY <1>2, <3>1, <3>2, <3>3 DEF BatchInv, CoveredFrom
  <2>5. ASSUME r.pc = "saving" PROVE BatchUpTo(r.next, r.max) <= lastRelayed'
    <3>1. BatchUpTo(r.next, r.max) <= lastRelayed
      BY <2>1, <2>5 DEF RunInv
    <3>2. BatchUpTo(r.next, r.max) \in Int
      BY <2>1, BoundsAssumption DEF BatchUpTo
    <3> QED
      BY <1>1, <1>3, <3>1, <3>2
  <2> QED
    BY <1>2, <2>1, <2>2, <2>3, <2>4, <2>5 DEF RunInv
<1> QED
  BY <1>6, <1>7, <1>8, <1>9 DEF IndInv

-----------------------------------------------------------------------------
(* The theorems.                                                           *)

LEMMA InitInd == Init => IndInv
<1> SUFFICES ASSUME Init PROVE IndInv
  OBVIOUS
<1>1. 0 \in 0..MaxFaults /\ DeployedBlock \in Nat
  BY BoundsAssumption
<1>2. 0 \in 0..MaxAttempts - 1
  BY BoundsAssumption
<1>3. Idle \in Runs
  BY <1>2 DEF Idle, Runs, PCs
<1>4. TypeOK
  BY <1>1, <1>3 DEF Init, TypeOK
<1>5. DepositIds = {} /\ \A c : LeftBehind(c) = {}
  BY DEF Init, DepositIds, LeftBehind
<1>6. ChainInv
  BY <1>1, <1>5 DEF Init, ChainInv
<1>7. SafeAt(cursor)
  BY <1>5 DEF SafeAt
<1>8. RunInv(Idle)
  BY <1>4, IdleRun
<1>9. \A j \in Jobs : RunInv(job[j]) /\ ReceiptInv(j)
  BY <1>8 DEF Init, ReceiptInv
<1>10. PendingInv
  BY DEF Init, PendingInv
<1> QED
  BY <1>4, <1>6, <1>7, <1>9, <1>10 DEF IndInv

\* Every step of the system preserves the invariant.
LEMMA NextInd == IndInv /\ [Next]_vars => IndInv'
<1> SUFFICES ASSUME IndInv, [Next]_vars PROVE IndInv'
  OBVIOUS
<1>1. CASE MineDeposits
  BY <1>1, MineBlockInd DEF MineDeposits
<1>2. CASE MineRelay
  BY <1>2, MineBlockInd DEF MineRelay
<1>3. ASSUME NEW j \in Jobs,
             \/ ReadHead(j) \/ SkipInvalidRange(j) \/ Analyze(j) \/ SaveEmptyRange(j)
             \/ SubmitReverts(j) \/ SubmitUnderpriced(j) \/ RequestTimeout(j)
      PROVE  IndInv'
  BY <1>3, FetchingInd
<1>4. ASSUME NEW j \in Jobs, Submit(j) PROVE IndInv'
  BY <1>4, SubmitInd
<1>5. ASSUME NEW j \in Jobs, Confirm(j) PROVE IndInv'
  BY <1>5, ConfirmInd
<1>6. ASSUME NEW j \in Jobs, SaveBatch(j) PROVE IndInv'
  BY <1>6, SaveBatchInd
<1>7. ASSUME NEW j \in Jobs, WaitTimeout(j) \/ Fail(j) PROVE IndInv'
  BY <1>7, GiveUpInd
<1>8. CASE UNCHANGED vars
  BY <1>8 DEF vars, chainVars, IndInv, TypeOK, ChainInv, SafeAt, LeftBehind, DepositIds,
              RunInv, BatchInv, CoveredFrom, ReceiptInv, PendingInv, Relayable
<1> QED
  BY <1>1, <1>2, <1>3, <1>4, <1>5, <1>6, <1>7, <1>8 DEF Next, Step

\* The invariant of the deposit analyzer, for any number of overlapping runs.
THEOREM Invariance == Spec => []IndInv
BY InitInd, NextInd, PTL DEF Spec

\* The type invariant is not inductive: that a saved cursor is a block number
\* needs that a batch ends at a deposit the contract has seen.
THEOREM TypeCorrect == Spec => []TypeOK
<1>1. IndInv => TypeOK
  BY DEF IndInv
<1> QED
  BY <1>1, Invariance, PTL

\* The cursor skips no block whole, for any number of overlapping runs, any
\* crash points, batch size and lag of the node.
THEOREM NoBlockIsSkipped == Spec => []NoBlockSkipped
<1>1. IndInv => NoBlockSkipped
  BY DEF IndInv, SafeAt, NoBlockSkipped
<1> QED
  BY <1>1, Invariance, PTL

\* Whatever runs overlap, the broadcast transaction does not go stale.
THEOREM BroadcastStaysRelayable == Spec => []BroadcastRelayable
<1>1. IndInv => BroadcastRelayable
  BY DEF IndInv, PendingInv, BroadcastRelayable
<1> QED
  BY <1>1, Invariance, PTL

\* The gas limit falls short by less than one block's deposits.
THEOREM GasShortfallIsBounded == Spec => GasShortfallBounded
<1>1. ASSUME IndInv, [Next]_vars, lastRelayed' # lastRelayed
      PROVE  lastRelayed' - lastRelayed < pending.num + MaxPerBlock
  <2>1. PICK n \in 0..MaxPerBlock, mined \in BOOLEAN : MineBlock(n, mined)
    BY <1>1 DEF Next, Step, MineDeposits, MineRelay, ReadHead, SkipInvalidRange, Analyze,
                SaveEmptyRange, Submit, SubmitReverts, SubmitUnderpriced, RequestTimeout, WaitTimeout,
                Confirm, SaveBatch, Fail, vars, chainVars
  <2>2. pending # None /\ pending \in RelayTx /\ lastRelayed' = pending.upTo
    BY <1>1, <2>1, MineBlockEffect
  <2>3. pending.upTo \in Nat /\ pending.num \in Int /\ lastRelayed \in Nat /\ MaxPerBlock \in Nat
    BY <1>1, <2>2, BoundsAssumption DEF RelayTx, IndInv, TypeOK
  <2>4. (pending.upTo - pending.num + 1) - 1 - lastRelayed < MaxPerBlock
    <3>1. CoveredFrom(pending.upTo - pending.num + 1)
      BY <1>1, <2>2 DEF IndInv, PendingInv
    <3> QED
      BY <3>1 DEF CoveredFrom
  <2> QED
    BY <2>2, <2>3, <2>4
<1>2. IndInv /\ [Next]_vars =>
        [lastRelayed' # lastRelayed =>
           lastRelayed' - lastRelayed < pending.num + MaxPerBlock]_vars
  BY <1>1
<1> QED
  BY <1>2, Invariance, PTL DEF Spec, GasShortfallBounded

\* With one deposit per block nothing is left behind at all: the stranded
\* deposits need a block of two.
THEOREM NothingLeftBehindOnSparseChains ==
    ASSUME MaxPerBlock = 1
    PROVE  Spec => []NoDepositLeftBehind
<1>1. IndInv => NoDepositLeftBehind
  <2> SUFFICES ASSUME IndInv, NEW d \in LeftBehind(cursor) PROVE FALSE
    BY DEF NoDepositLeftBehind
  <2>1. /\ lastRelayed > 0 /\ depositBlock[d] = depositBlock[lastRelayed]
        /\ lastRelayed \in Nat /\ lastDepositId \in Nat
    BY DEF IndInv, SafeAt, TypeOK
  <2>2. d \in DepositIds /\ lastRelayed \in DepositIds /\ lastRelayed < d
    BY <2>1 DEF IndInv, ChainInv, LeftBehind, DepositIds
  <2>3. d - lastRelayed < MaxPerBlock
    BY <2>1, <2>2 DEF IndInv, ChainInv
  <2> QED
    BY <2>1, <2>2, <2>3 DEF DepositIds
<1> QED
  BY <1>1, Invariance, PTL

-----------------------------------------------------------------------------
(* The analyzer does not notice the register.                              *)

\* No step of the register touches what the analyzer reads.
LEMMA RegisterLeavesAnalyzer ==
    ASSUME RegisterStep
    PROVE  UNCHANGED vars
<1>1. Map!Run => UNCHANGED <<head, lastDepositId, depositBlock, relayEvents>>
  BY DEF Map!Run, Map!ReadHead, Map!Step, Map!SkipRange, Map!Collect, Map!FilterNew,
         Map!StoreMaps, Map!SaveHead, Map!SaveCursor, Map!Fail, Map!chain
<1> QED
  BY <1>1 DEF RegisterStep, analyzerVars, vars, chainVars

LEMMA StepIsAnalyzers == [PipelineNext]_pipelineVars => [Next]_vars
BY RegisterLeavesAnalyzer DEF PipelineNext, AnalyzerStep, pipelineVars

\* The composition implements the analyzer: performJob of token-map-register
\* changes nothing the analyzer depends on.
THEOREM ImplementsAnalyzer == PipelineSpec => Spec
<1>1. PipelineInit => Init
  BY DEF PipelineInit
<1> QED
  BY <1>1, StepIsAnalyzers, PTL DEF PipelineSpec, Spec

-----------------------------------------------------------------------------
(* The register sees a chain as it assumes it.                             *)

\* Each block above the empty ones has a deposit or a relay of its own.
HeightInv ==
    /\ lastDepositId <= MaxDeposits
    /\ head <= DeployedBlock + MaxEmptyBlocks + lastDepositId + lastRelayed

\* The relays of a mined block reach further than those before, and no
\* further than the deposits; there is room for the block.
LEMMA MinedBlockIsChain ==
    ASSUME IndInv, HeightInv, NEW n \in 0..MaxPerBlock, NEW mined \in BOOLEAN,
           MineBlock(n, mined), UNCHANGED registerVars
    PROVE  Map!Chain /\ HeightInv'
<1>1. /\ head \in Nat /\ lastDepositId \in Nat /\ lastRelayed \in Nat
      /\ lastRelayed <= lastDepositId /\ n \in Nat
      /\ DeployedBlock \in Nat /\ MaxEmptyBlocks \in Nat /\ MaxDeposits \in Nat
      /\ MaxBlock \in Nat
      /\ lastDepositId <= MaxDeposits
      /\ head <= DeployedBlock + MaxEmptyBlocks + lastDepositId + lastRelayed
      /\ DeployedBlock + MaxEmptyBlocks + 2 * MaxDeposits < MaxBlock
  BY BoundsAssumption, HeightAssumption DEF IndInv, TypeOK, ChainInv, HeightInv
<1>2. /\ mined => pending # None
      /\ lastDepositId + n <= MaxDeposits
      /\ n > 0 \/ mined \/ head < MaxEmptyBlocks
      /\ head' = head + 1
      /\ lastDepositId' = lastDepositId + n
      /\ depositBlock' = [d \in 1..(lastDepositId + n) |->
                            IF d <= lastDepositId THEN depositBlock[d] ELSE head + 1]
  BY DEF MineBlock
<1>3. mined => pending.upTo \in Nat /\ lastRelayed < pending.upTo /\ pending.upTo <= lastDepositId
  BY <1>2 DEF IndInv, TypeOK, PendingInv, Relayable, RelayTx
<1>4. IF mined THEN /\ lastRelayed' = pending.upTo
                    /\ relayEvents' = relayEvents \cup {[block |-> head + 1, upTo |-> pending.upTo]}
      ELSE lastRelayed' = lastRelayed /\ relayEvents' = relayEvents
  BY <1>2, <1>3 DEF MineBlock, Relayable
<1>5. head < MaxBlock
  BY <1>1
<1> DEFINE u == IF mined THEN pending.upTo ELSE 0
<1>6. u \in {0} \cup (1..lastDepositId \ Map!Relayed)
  <2>1. CASE mined
    <3>1. \A e \in relayEvents : e.upTo <= lastRelayed /\ e.upTo \in Nat
      BY DEF IndInv, ChainInv, TypeOK, RelayEvents
    <3>2. \A e \in relayEvents : ~ (pending.upTo <= e.upTo)
      BY <1>1, <1>3, <2>1, <3>1
    <3> QED
      BY <1>1, <1>3, <2>1, <3>2 DEF Map!Relayed
  <2>2. CASE ~mined
    BY <2>2
  <2> QED
    BY <2>1, <2>2
<1>7. relayEvents' = relayEvents \cup (IF u = 0 THEN {} ELSE {[block |-> head + 1, upTo |-> u]})
  BY <1>1, <1>3, <1>4
<1>8. Map!MineBlock(n, u)
  BY <1>2, <1>5, <1>7 DEF Map!MineBlock, Map!regVars, registerVars
<1>9. HeightInv'
  BY <1>1, <1>2, <1>3, <1>4 DEF HeightInv
<1> QED
  BY <1>6, <1>8, <1>9 DEF Map!Chain

\* All other steps of the analyzer leave the chain alone.
LEMMA RunLeavesChain ==
    ASSUME Next, ~MineDeposits, ~MineRelay
    PROVE  UNCHANGED <<head, lastDepositId, depositBlock, lastRelayed, relayEvents>>
<1>1. PICK j \in Jobs : \/ ReadHead(j) \/ Step(j) \/ Fail(j)
                        \/ SubmitUnderpriced(j) \/ RequestTimeout(j) \/ WaitTimeout(j)
  BY DEF Next
<1> QED
  BY <1>1 DEF ReadHead, Step, Fail, SubmitUnderpriced, RequestTimeout, WaitTimeout,
              SkipInvalidRange, Analyze, SaveEmptyRange, Submit, SubmitReverts, Confirm,
              SaveBatch, chainVars

LEMMA StepIsRegisters ==
    IndInv /\ HeightInv /\ [PipelineNext]_pipelineVars => [Map!Next]_(Map!vars) /\ HeightInv'
<1> SUFFICES ASSUME IndInv, HeightInv, [PipelineNext]_pipelineVars
             PROVE  [Map!Next]_(Map!vars) /\ HeightInv'
  OBVIOUS
<1>1. CASE AnalyzerStep
  <2>1. CASE MineDeposits \/ MineRelay
    <3>1. PICK n \in 0..MaxPerBlock, mined \in BOOLEAN : MineBlock(n, mined)
      BY <2>1 DEF MineDeposits, MineRelay
    <3> QED
      BY <1>1, <3>1, MinedBlockIsChain DEF AnalyzerStep, Map!Next
  <2>2. CASE ~MineDeposits /\ ~MineRelay
    <3>1. UNCHANGED <<head, lastDepositId, depositBlock, lastRelayed, relayEvents>>
      BY <1>1, <2>2, RunLeavesChain DEF AnalyzerStep
    <3> QED
      BY <1>1, <3>1 DEF AnalyzerStep, registerVars, HeightInv, Map!vars, Map!chain, Map!regVars
  <2> QED
    BY <2>1, <2>2
<1>2. CASE RegisterStep
  <2>1. Map!Next
    BY <1>2 DEF RegisterStep, Map!Next
  <2>2. HeightInv'
    BY <1>2, RegisterLeavesAnalyzer DEF HeightInv, vars, chainVars
  <2> QED
    BY <2>1, <2>2
<1>3. CASE UNCHANGED pipelineVars
  BY <1>3 DEF pipelineVars, vars, chainVars, registerVars, HeightInv, Map!vars, Map!chain,
              Map!regVars
<1> QED
  BY <1>1, <1>2, <1>3 DEF PipelineNext

LEMMA PipelineStarts == PipelineInit => Map!Init /\ HeightInv
BY BoundsAssumption DEF PipelineInit, Init, Map!Init, HeightInv

\* The composition implements the register: relayDeposits as the analyzer
\* sends it makes the relays reach further and further and never past the
\* deposits there are, which is what the register takes the last log for.
THEOREM PipelineImplementsRegister == PipelineSpec => ImplementsRegister
<1>1. PipelineSpec => []IndInv
  BY ImplementsAnalyzer, Invariance
<1>2. PipelineSpec /\ []IndInv => Map!Init /\ [][Map!Next]_(Map!vars)
  BY PipelineStarts, StepIsRegisters, PTL DEF PipelineSpec
<1> QED
  BY <1>1, <1>2 DEF ImplementsRegister, Map!Spec
=============================================================================
