------------------------- MODULE MintExecutorProofs -------------------------
(***************************************************************************)
(* Safety of mint-executor for any intervals, attempts, lag of the node    *)
(* and bounds: the type invariant for any number of runs that overlap, and *)
(* PrematureBounded for runs one after the other.                          *)
(***************************************************************************)
EXTENDS MintExecutor, CollectionLemmas, FiniteSetTheorems

-----------------------------------------------------------------------------
(* The inductive invariant of the types.                                   *)

Sending == {"submitting", "waiting"}

\* The local variables of a run: what it has read lies within the logs, it
\* has attempts left for the call it makes, and it waits for the transaction
\* or the receipt that is its own.
RunInv(j) ==
    /\ job[j].cur \in 0..Len(logs)
    /\ \A op \in Ops : job[j].found[op] \in 0..Len(logs)
    /\ job[j].pc \in Sending => job[j].due # {} /\ job[j].attempt < Attempts[Current(j)]
    /\ job[j].pc \notin Sending => job[j].attempt = 0
    /\ pending # None /\ pending.owner = j =>
         job[j].pc = "waiting" /\ pending.op = Current(j) /\ receipt[j] = 0
    /\ receipt[j] # 0 => job[j].pc = "waiting"

TypeInv == TypeOK /\ \A j \in Jobs : RunInv(j)

-----------------------------------------------------------------------------
(* Types.                                                                  *)

LEMMA AttemptsType == /\ Attempts["mint"] = MaxRetries /\ Attempts["transferToLiquidity"] = 1
                      /\ \A op \in Ops : Attempts[op] \in 1..MaxRetries
BY BoundsAssumption DEF Attempts, Ops

LEMMA IntervalType == \A op \in Ops : Interval[op] \in Nat \ {0}
BY BoundsAssumption DEF Interval, Ops

LEMMA NoneIsNoTx == None \notin Txs /\ None \notin Jobs
BY NoneAssumption

LEMMA IdleRun == Idle \in Runs
BY BoundsAssumption DEF Idle, Runs, PCs, NothingFound, Ops

LEMMA CurrentIsDue ==
    ASSUME NEW j \in Jobs, job[j].due \in SUBSET Ops, job[j].due # {}
    PROVE  Current(j) \in job[j].due
BY DEF Current, Ops

\* A log that a run finds is one of those there are.
LEMMA NewLogInRange ==
    ASSUME TypeOK, NEW op \in Ops, NEW from \in Nat \ {0}, NEW to \in 0..Len(logs)
    PROVE  NewLog(op, from, to) \in 0..Len(logs)
<1> DEFINE ids == {i \in from..to : logs[i].op = op}
<1>1. Len(logs) \in Nat
  BY DEF TypeOK
<1>2. FirstLog(op, from, to) \in 0..Len(logs)
  <2>1. CASE ids = {}
    BY <1>1, <2>1 DEF FirstLog
  <2>2. CASE ids # {}
    <3>1. ids \subseteq Nat /\ ids \subseteq 1..Len(logs)
      BY <1>1
    <3>2. Min(ids) \in ids
      BY <2>2, <3>1, MinIsSmallest
    <3>3. FirstLog(op, from, to) = Min(ids)
      BY <2>2 DEF FirstLog
    <3>4. Min(ids) \in 1..Len(logs)
      BY <3>1, <3>2
    <3> QED
      BY <1>1, <3>3, <3>4
  <2> QED
    BY <2>1, <2>2
<1>3. NewLog(op, from, to) \in {0, FirstLog(op, from, to)}
  BY DEF NewLog
<1> QED
  BY <1>1, <1>2, <1>3

\* A day that passes and a log that is added leave every run as it was.
LEMMA LogsGrow ==
    ASSUME TypeInv, NEW day \in 0..MaxDay, today <= day,
           NEW log \in [op : Ops, day : 0..day, auto : BOOLEAN]
    PROVE  /\ logs \in Seq([op : Ops, day : 0..day, auto : BOOLEAN])
           /\ Append(logs, log) \in Seq([op : Ops, day : 0..day, auto : BOOLEAN])
           /\ Len(Append(logs, log)) = Len(logs) + 1 /\ Len(logs) \in Nat
           /\ latest \in [Ops -> [log : 0..Len(logs), day : 0..day]]
           /\ latest \in [Ops -> [log : 0..Len(logs) + 1, day : 0..day]]
           /\ cursor \in 0..Len(logs) + 1
           /\ receipt \in [Jobs -> 0..Len(logs) + 1]
<1>1. today \in Nat /\ 0..today \subseteq 0..day
  BY BoundsAssumption DEF TypeInv, TypeOK
<1>2. [op : Ops, day : 0..today, auto : BOOLEAN] \subseteq [op : Ops, day : 0..day, auto : BOOLEAN]
  BY <1>1
<1>3. logs \in Seq([op : Ops, day : 0..day, auto : BOOLEAN])
  BY <1>2, SeqMonotonic DEF TypeInv, TypeOK
<1>4. /\ Append(logs, log) \in Seq([op : Ops, day : 0..day, auto : BOOLEAN])
      /\ Len(Append(logs, log)) = Len(logs) + 1 /\ Len(logs) \in Nat
  BY <1>3
<1>5. 0..Len(logs) \subseteq 0..Len(logs) + 1
  BY <1>4
<1>6. latest \in [Ops -> [log : 0..Len(logs), day : 0..day]]
  BY <1>1 DEF TypeInv, TypeOK
<1>7. latest \in [Ops -> [log : 0..Len(logs) + 1, day : 0..day]]
  BY <1>5, <1>6
<1> QED
  BY <1>3, <1>4, <1>5, <1>6, <1>7 DEF TypeInv, TypeOK

\* The environment's steps.
LEMMA EnvironmentTypes ==
    ASSUME TypeInv, Tick \/ Mine \/ \E op \in Ops : ManualCall(op)
    PROVE  TypeInv'
<1> USE DEF TypeInv
<1>0. /\ today \in Nat /\ today <= today /\ today \in 0..MaxDay /\ Len(logs) \in Nat
      /\ job \in [Jobs -> Runs]
  BY BoundsAssumption DEF TypeOK
<1>1. CASE Tick
  <2>1. today' \in 0..MaxDay /\ today <= today'
    BY <1>0, <1>1, BoundsAssumption DEF Tick
  <2>2. [op |-> "mint", day |-> today', auto |-> FALSE] \in [op : Ops, day : 0..today', auto : BOOLEAN]
    BY <1>0, <2>1 DEF Ops
  <2>3. TypeOK'
    BY <1>1, <2>1, <2>2, LogsGrow DEF Tick, TypeOK
  <2>4. \A j \in Jobs : RunInv(j)'
    BY <1>1 DEF Tick, RunInv, Current
  <2> QED
    BY <2>3, <2>4
<1>2. ASSUME NEW op \in Ops, ManualCall(op) PROVE TypeInv'
  <2>1. [op |-> op, day |-> today, auto |-> FALSE] \in [op : Ops, day : 0..today, auto : BOOLEAN]
    BY <1>0
  <2>2. TypeOK' /\ Len(logs') = Len(logs) + 1
    BY <1>0, <1>2, <2>1, LogsGrow DEF ManualCall, TypeOK
  <2>3. \A j \in Jobs : RunInv(j)'
    BY <1>0, <1>2, <2>2 DEF ManualCall, RunInv, Current
  <2> QED
    BY <2>2, <2>3
<1>3. CASE Mine
  <2>1. pending \in Txs
    BY <1>3 DEF Mine, TypeOK
  <2>2. [op |-> pending.op, day |-> today, auto |-> TRUE] \in [op : Ops, day : 0..today, auto : BOOLEAN]
    BY <1>0, <2>1 DEF Txs
  <2>3. /\ TypeOK' /\ Len(logs') = Len(logs) + 1
    BY <1>0, <1>3, <2>2, LogsGrow DEF Mine, TypeOK
  <2>4. ASSUME NEW j \in Jobs PROVE RunInv(j)'
    <3>1. /\ job' = job /\ pending' = None
          /\ receipt'[j] = IF j = pending.owner THEN Len(logs) + 1 ELSE receipt[j]
      BY <1>3 DEF Mine
    <3>2. pending # None
      BY <1>3 DEF Mine
    <3> QED
      BY <1>0, <2>3, <3>1, <3>2 DEF RunInv, Current
  <2> QED
    BY <2>3, <2>4
<1> QED
  BY <1>1, <1>2, <1>3

-----------------------------------------------------------------------------
(* A step of a run.                                                        *)

\* No other run notices it, but for its transaction if that is replaced.
LEMMA RunStepTypes ==
    ASSUME TypeInv, NEW j \in Jobs, NEW next \in Runs, job' = [job EXCEPT ![j] = next],
           UNCHANGED <<today, logs>>,
           latest' \in [Ops -> [log : 0..Len(logs), day : 0..today]],
           cursor' \in 0..Len(logs),
           receipt' \in [Jobs -> 0..Len(logs)],
           pending' \in Txs \cup {None},
           faults' \in 0..MaxFaults,
           RunInv(j)',
           \A k \in Jobs \ {j} :
               /\ receipt'[k] = receipt[k]
               /\ pending' # None /\ pending'.owner = k => pending' = pending
    PROVE  TypeInv'
<1>1. TypeOK'
  BY DEF TypeInv, TypeOK
<1>2. ASSUME NEW k \in Jobs, k # j PROVE RunInv(k)'
  <2>1. job'[k] = job[k]
    BY <1>2 DEF TypeInv, TypeOK
  <2> QED
    BY <1>2, <2>1 DEF TypeInv, RunInv, Current
<1> QED
  BY <1>1, <1>2 DEF TypeInv

\* A step that changes no more than the local variables.
LEMMA LocalStepTypes ==
    ASSUME TypeInv, NEW j \in Jobs, NEW next \in Runs, job' = [job EXCEPT ![j] = next],
           UNCHANGED <<today, logs, pending, latest, cursor, receipt, faults>>,
           RunInv(j)'
    PROVE  TypeInv'
<1>1. TypeOK
  BY DEF TypeInv
<1> QED
  BY <1>1, RunStepTypes DEF TypeOK

\* The mempool and the receipts after a run has forgotten its transaction.
LEMMA Forgotten ==
    ASSUME TypeInv, NEW j \in Jobs, Forget(j)
    PROVE  /\ receipt' \in [Jobs -> 0..Len(logs)] /\ receipt'[j] = 0
           /\ \A k \in Jobs \ {j} : receipt'[k] = receipt[k]
           /\ pending' \in Txs \cup {None}
           /\ pending' = None <=> pending = None
           /\ pending' # None => pending'.owner # j /\ pending'.op = pending.op
           /\ \A k \in Jobs \ {j} : pending' # None /\ pending'.owner = k => pending' = pending
<1>1. /\ receipt \in [Jobs -> 0..Len(logs)] /\ 0 \in 0..Len(logs)
      /\ pending \in Txs \cup {None}
  BY DEF TypeInv, TypeOK
<1>2. /\ receipt' \in [Jobs -> 0..Len(logs)] /\ receipt'[j] = 0
      /\ \A k \in Jobs \ {j} : receipt'[k] = receipt[k]
  BY <1>1 DEF Forget
<1>3. CASE pending # None /\ pending.owner = j
  <2>1. pending' = [pending EXCEPT !.owner = None]
    BY <1>3 DEF Forget
  <2>2. pending' \in Txs /\ pending'.owner = None /\ pending'.op = pending.op
    BY <1>1, <1>3, <2>1 DEF Txs
  <2> QED
    BY <1>2, <1>3, <2>2, NoneIsNoTx
<1>4. CASE ~(pending # None /\ pending.owner = j)
  <2>1. pending' = pending
    BY <1>4 DEF Forget
  <2> QED
    BY <1>1, <1>2, <1>4, <2>1
<1> QED
  BY <1>3, <1>4

\* After a try the run ends, or has one attempt less.
LEMMA RetryRun ==
    ASSUME TypeInv, NEW j \in Jobs, job[j].pc \in Sending, Retry(j)
    PROVE  \E next \in Runs :
             /\ job' = [job EXCEPT ![j] = next]
             /\ \/ next = Idle
                \/ /\ next.pc = "submitting" /\ next.due = job[j].due
                   /\ next.cur = job[j].cur /\ next.found = job[j].found
                   /\ next.attempt < Attempts[Current(j)]
<1>1. /\ job[j] \in Runs /\ job[j].due # {} /\ job[j].attempt < Attempts[Current(j)]
      /\ Current(j) \in Ops
  BY DEF TypeInv, TypeOK, RunInv, Current, Ops
<1>2. job[j].attempt + 1 # Attempts[Current(j)] =>
        /\ job[j].attempt + 1 < Attempts[Current(j)]
        /\ [job[j] EXCEPT !.pc = "submitting", !.attempt = job[j].attempt + 1] \in Runs
  <2>1. Attempts[Current(j)] \in 1..MaxRetries /\ job[j].attempt \in 0..MaxRetries - 1
    BY <1>1, AttemptsType DEF Runs
  <2>2. SUFFICES ASSUME job[j].attempt + 1 # Attempts[Current(j)]
                 PROVE  /\ job[j].attempt + 1 < Attempts[Current(j)]
                        /\ [job[j] EXCEPT !.pc = "submitting", !.attempt = job[j].attempt + 1] \in Runs
    OBVIOUS
  <2>3. job[j].attempt + 1 < Attempts[Current(j)] /\ job[j].attempt + 1 \in 0..MaxRetries - 1
    BY <1>1, <2>1, <2>2, BoundsAssumption
  <2> QED
    BY <1>1, <2>3 DEF Runs, PCs
<1>3. CASE job[j].attempt + 1 = Attempts[Current(j)]
  BY <1>3, IdleRun DEF Retry
<1>4. CASE job[j].attempt + 1 # Attempts[Current(j)]
  <2> DEFINE next == [job[j] EXCEPT !.pc = "submitting", !.attempt = job[j].attempt + 1]
  <2>1. job' = [job EXCEPT ![j] = next]
    BY <1>4 DEF Retry
  <2>2. next.pc = "submitting" /\ next.due = job[j].due
        /\ next.cur = job[j].cur /\ next.found = job[j].found
        /\ next.attempt = job[j].attempt + 1
    BY <1>1 DEF Runs
  <2> QED
    BY <1>2, <1>4, <2>1, <2>2
<1> QED
  BY <1>3, <1>4

LEMMA ReadingTypes ==
    ASSUME TypeInv, NEW j \in Jobs, ReadHead(j) \/ SkipInvalidRange(j) \/ FetchNewEvents(j)
    PROVE  TypeInv'
<1>0. /\ TypeOK /\ RunInv(j) /\ Len(logs) \in Nat /\ job[j] \in Runs /\ cursor \in 0..Len(logs)
      /\ job \in [Jobs -> Runs] /\ receipt[j] \in Nat
      /\ pending # None => pending \in Txs
  BY DEF TypeInv, TypeOK
<1>1. CASE ReadHead(j)
  <2>1. PICK b \in 0..Len(logs) : job' = [job EXCEPT ![j] = [Idle EXCEPT !.pc = "started", !.cur = b]]
    BY <1>1 DEF ReadHead
  <2> DEFINE next == [Idle EXCEPT !.pc = "started", !.cur = b]
  <2>a. b \in Nat /\ Idle.attempt = 0 /\ Idle.found = NothingFound
    BY <1>0 DEF Idle
  <2>2. /\ next \in Runs /\ next.pc = "started" /\ next.cur = b /\ next.attempt = 0
        /\ \A op \in Ops : next.found[op] = 0
    BY <2>a, IdleRun DEF Runs, PCs, NothingFound
  <2> HIDE DEF next
  <2>3. job'[j] = next /\ UNCHANGED <<today, logs, pending, latest, cursor, receipt, faults>>
    BY <1>0, <1>1, <2>1 DEF ReadHead, next
  <2>b. receipt[j] = 0 /\ (pending # None => pending.owner # j)
    BY <1>0, <1>1 DEF RunInv, ReadHead
  <2>4. RunInv(j)'
    BY <1>0, <2>2, <2>3, <2>b DEF RunInv, Sending
  <2> QED
    BY <2>1, <2>2, <2>3, <2>4, LocalStepTypes DEF next
<1>2. CASE SkipInvalidRange(j)
  <2>1. job'[j] = Idle /\ UNCHANGED <<today, logs, pending, latest, cursor, receipt, faults>>
    BY <1>0, <1>2 DEF SkipInvalidRange
  <2>2. RunInv(j)'
    BY <1>0, <1>2, <2>1 DEF RunInv, Sending, SkipInvalidRange, Idle, NothingFound
  <2> QED
    BY <1>2, <2>1, <2>2, IdleRun, LocalStepTypes DEF SkipInvalidRange
<1>3. CASE FetchNewEvents(j)
  <2> DEFINE found == [op \in Ops |-> NewLog(op, cursor + 1, job[j].cur)]
             next == [job[j] EXCEPT !.pc = "recording", !.found = found]
  <2>a. cursor + 1 \in Nat \ {0} /\ job[j].cur \in 0..Len(logs)
    BY <1>0 DEF RunInv
  <2>b. \A op \in Ops : NewLog(op, cursor + 1, job[j].cur) \in 0..Len(logs)
    BY <1>0, <2>a, NewLogInRange
  <2>1. \A op \in Ops : found[op] \in 0..Len(logs)
    BY <2>b
  <2>2. found \in [Ops -> Nat]
    BY <1>0, <2>1
  <2> HIDE DEF found
  <2>3. /\ next \in Runs /\ next.pc = "recording" /\ next.cur = job[j].cur
        /\ next.attempt = job[j].attempt /\ next.found = found
    BY <1>0, <2>2 DEF Runs, PCs
  <2>4. job' = [job EXCEPT ![j] = next] /\ UNCHANGED <<today, logs, pending, latest, cursor, receipt, faults>>
    BY <1>0, <1>3 DEF FetchNewEvents, found
  <2> HIDE DEF next
  <2>5. job'[j] = next
    BY <1>0, <2>4
  <2>6. RunInv(j)'
    BY <1>0, <1>3, <2>1, <2>3, <2>4, <2>5 DEF RunInv, Sending, FetchNewEvents
  <2> QED
    BY <2>3, <2>4, <2>6, LocalStepTypes
<1> QED
  BY <1>1, <1>2, <1>3

LEMMA SaveNewEventTypes ==
    ASSUME TypeInv, NEW j \in Jobs, NEW op \in Ops, SaveNewEvent(j, op)
    PROVE  TypeInv'
<1>0. /\ TypeOK /\ RunInv(j) /\ Len(logs) \in Nat /\ job[j] \in Runs /\ job \in [Jobs -> Runs]
      /\ today \in Nat
  BY BoundsAssumption DEF TypeInv, TypeOK
<1> DEFINE next == [job[j] EXCEPT !.found = [job[j].found EXCEPT ![op] = 0]]
<1>1. job' = [job EXCEPT ![j] = next]
  BY <1>0 DEF SaveNewEvent
<1>2. /\ next \in Runs /\ next.pc = job[j].pc /\ next.cur = job[j].cur /\ next.due = job[j].due
      /\ next.attempt = job[j].attempt
      /\ \A o \in Ops : next.found[o] = IF o = op THEN 0 ELSE job[j].found[o]
  BY <1>0 DEF Runs
<1> HIDE DEF next
<1>3. job'[j] = next
  BY <1>0, <1>1
<1>4. RunInv(j)'
  BY <1>0, <1>2, <1>3 DEF RunInv, Sending, SaveNewEvent
<1>5. latest' \in [Ops -> [log : 0..Len(logs), day : 0..today]]
  BY <1>0 DEF SaveNewEvent, AddRecord, TypeOK, RunInv
<1> QED
  BY <1>0, <1>1, <1>2, <1>4, <1>5, RunStepTypes DEF SaveNewEvent, TypeOK

LEMMA DecideTypes ==
    ASSUME TypeInv, NEW j \in Jobs, Decide(j)
    PROVE  TypeInv'
<1>0. /\ TypeOK /\ RunInv(j) /\ job[j] \in Runs /\ job \in [Jobs -> Runs]
  BY DEF TypeInv, TypeOK
<1> DEFINE due == {op \in Ops : ShouldExecute(op)}
           next == [job[j] EXCEPT !.pc = NextPc(due), !.due = due]
<1>1. job' = [job EXCEPT ![j] = next] /\ UNCHANGED <<today, logs, pending, latest, cursor, receipt, faults>>
  BY <1>0 DEF Decide
<1>2. due \in SUBSET Ops
  OBVIOUS
<1> HIDE DEF due
<1>3. NextPc(due) \in PCs /\ NextPc(due) # "waiting" /\ (NextPc(due) \in Sending => due # {})
  BY DEF NextPc, PCs, Sending
<1>4. /\ next \in Runs /\ next.pc = NextPc(due) /\ next.cur = job[j].cur /\ next.due = due
      /\ next.attempt = job[j].attempt /\ next.found = job[j].found
  BY <1>0, <1>2, <1>3 DEF Runs
<1> HIDE DEF next
<1>5. job'[j] = next
  BY <1>0, <1>1
<1>6. Current(j)' \in Ops
  BY DEF Current, Ops
<1>7. Attempts[Current(j)'] \in Nat \ {0}
  BY <1>6, AttemptsType, BoundsAssumption
<1>a. /\ job[j].attempt = 0 /\ receipt'[j] = 0 /\ (pending' # None => pending'.owner # j)
      /\ 0 < Attempts[Current(j)']
  BY <1>0, <1>1, <1>7 DEF RunInv, Sending, Decide
<1>8. RunInv(j)'
  BY <1>0, <1>1, <1>3, <1>4, <1>5, <1>a DEF RunInv
<1> QED
  BY <1>1, <1>4, <1>8, LocalStepTypes

LEMMA SubmitTypes ==
    ASSUME TypeInv, NEW j \in Jobs, Submit(j)
    PROVE  TypeInv'
<1>0. /\ TypeOK /\ RunInv(j) /\ job[j] \in Runs /\ job \in [Jobs -> Runs]
      /\ receipt \in [Jobs -> 0..Len(logs)] /\ Current(j) \in Ops
  BY DEF TypeInv, TypeOK, Current, Ops
<1> DEFINE next == [job[j] EXCEPT !.pc = "waiting"]
<1>1. job' = [job EXCEPT ![j] = next] /\ UNCHANGED <<today, logs, latest, cursor, receipt, faults>>
  BY <1>0 DEF Submit
<1>2. /\ next \in Runs /\ next.pc = "waiting" /\ next.cur = job[j].cur /\ next.due = job[j].due
      /\ next.attempt = job[j].attempt /\ next.found = job[j].found
  BY <1>0 DEF Runs, PCs
<1> HIDE DEF next
<1>3. job'[j] = next
  BY <1>0, <1>1
<1>4. pending' = [op |-> Current(j), owner |-> j] /\ pending' \in Txs /\ pending'.owner = j /\ pending'.op = Current(j)
  BY <1>0 DEF Submit, Txs
<1>5. Current(j)' = Current(j)
  BY <1>2, <1>3 DEF Current
<1>a. job[j].pc = "submitting" /\ receipt'[j] = 0
  BY <1>0, <1>1 DEF RunInv, Submit
<1>b. next.due # {} /\ next.attempt < Attempts[Current(j)]
  BY <1>0, <1>2, <1>a DEF RunInv, Sending
<1>6. RunInv(j)'
  BY <1>0, <1>1, <1>2, <1>3, <1>4, <1>5, <1>a, <1>b DEF RunInv, Sending
<1> QED
  BY <1>0, <1>1, <1>2, <1>4, <1>6, RunStepTypes DEF TypeOK

LEMMA EndedRunInv ==
    ASSUME TypeInv, NEW j \in Jobs, job'[j] = Idle, Len(logs') = Len(logs),
           receipt'[j] = 0, pending' # None => pending'.owner # j
    PROVE  RunInv(j)'
BY DEF TypeInv, TypeOK, RunInv, Sending, Idle, NothingFound

LEMMA RetriedRunInv ==
    ASSUME TypeInv, NEW j \in Jobs, job[j].pc \in Sending, Retry(j), Len(logs') = Len(logs),
           receipt'[j] = 0, pending' # None => pending'.owner # j
    PROVE  RunInv(j)'
<1>1. PICK next \in Runs :
        /\ job' = [job EXCEPT ![j] = next]
        /\ \/ next = Idle
           \/ /\ next.pc = "submitting" /\ next.due = job[j].due
              /\ next.cur = job[j].cur /\ next.found = job[j].found
              /\ next.attempt < Attempts[Current(j)]
  BY RetryRun
<1>2. job'[j] = next
  BY <1>1 DEF TypeInv, TypeOK
<1>3. CASE next = Idle
  BY <1>2, <1>3, EndedRunInv
<1>4. CASE next # Idle
  <2>1. Current(j)' = Current(j)
    BY <1>1, <1>2, <1>4 DEF Current
  <2> QED
    BY <1>1, <1>2, <1>4, <2>1 DEF TypeInv, RunInv, Sending
<1> QED
  BY <1>3, <1>4

LEMMA AttemptFailsTypes ==
    ASSUME TypeInv, NEW j \in Jobs, SubmitUnderpriced(j) \/ Timeout(j)
    PROVE  TypeInv'
<1>0. /\ TypeOK /\ RunInv(j) /\ receipt \in [Jobs -> 0..Len(logs)]
  BY DEF TypeInv, TypeOK
<1>1. job[j].pc \in Sending /\ Retry(j) /\ UNCHANGED <<today, logs, latest, cursor>>
  BY DEF SubmitUnderpriced, Timeout, Sending
<1>2. PICK next \in Runs : job' = [job EXCEPT ![j] = next]
  BY <1>1, RetryRun
<1>3. CASE SubmitUnderpriced(j)
  <2>1. UNCHANGED <<pending, receipt, faults>> /\ job[j].pc = "submitting"
    BY <1>3 DEF SubmitUnderpriced
  <2>2. receipt'[j] = 0 /\ (pending' # None => pending'.owner # j)
    BY <1>0, <2>1 DEF RunInv
  <2>3. RunInv(j)'
    BY <1>1, <2>2, RetriedRunInv
  <2> QED
    BY <1>1, <1>2, <2>1, <2>3, LocalStepTypes
<1>4. CASE Timeout(j)
  <2>1. Forget(j) /\ faults' \in 0..MaxFaults
    BY <1>0, <1>4, BoundsAssumption DEF Timeout, TypeOK
  <2>2. RunInv(j)'
    BY <1>1, <2>1, Forgotten, RetriedRunInv
  <2>3. /\ receipt' \in [Jobs -> 0..Len(logs)] /\ pending' \in Txs \cup {None}
        /\ \A k \in Jobs \ {j} :
             /\ receipt'[k] = receipt[k]
             /\ pending' # None /\ pending'.owner = k => pending' = pending
    BY <2>1, Forgotten
  <2>4. /\ latest' \in [Ops -> [log : 0..Len(logs), day : 0..today]]
        /\ cursor' \in 0..Len(logs) /\ UNCHANGED <<today, logs>>
    BY <1>0, <1>1 DEF TypeOK
  <2> QED
    BY <1>2, <2>1, <2>2, <2>3, <2>4, RunStepTypes
<1> QED
  BY <1>3, <1>4

LEMMA RecordTypes ==
    ASSUME TypeInv, NEW j \in Jobs, Record(j)
    PROVE  TypeInv'
<1>0. /\ TypeOK /\ RunInv(j) /\ job[j] \in Runs /\ job \in [Jobs -> Runs]
      /\ receipt \in [Jobs -> 0..Len(logs)] /\ Current(j) \in Ops /\ Len(logs) \in Nat
      /\ today \in Nat
  <2>1. Current(j) \in Ops
    BY DEF Current, Ops
  <2>2. today \in Nat
    BY BoundsAssumption DEF TypeInv, TypeOK
  <2> QED
    BY <2>1, <2>2 DEF TypeInv, TypeOK
<1> DEFINE rest == job[j].due \ {Current(j)}
           next == [job[j] EXCEPT !.pc = NextPc(rest), !.due = rest, !.attempt = 0]
<1>1. job' = [job EXCEPT ![j] = next] /\ UNCHANGED <<today, logs, pending, cursor, faults>>
  BY <1>0 DEF Record
<1>2. rest \in SUBSET Ops
  BY <1>0 DEF Runs
<1> HIDE DEF rest
<1>3. NextPc(rest) \in PCs /\ NextPc(rest) # "waiting" /\ (NextPc(rest) \in Sending => rest # {})
  BY DEF NextPc, PCs, Sending
<1>a. 0 \in 0..MaxRetries - 1
  BY BoundsAssumption
<1>4. /\ next \in Runs /\ next.pc = NextPc(rest) /\ next.cur = job[j].cur /\ next.due = rest
      /\ next.attempt = 0 /\ next.found = job[j].found
  BY <1>0, <1>2, <1>3, <1>a DEF Runs
<1> HIDE DEF next
<1>5. job'[j] = next
  BY <1>0, <1>1
<1>6. Attempts[Current(j)'] \in Nat \ {0}
  BY AttemptsType, BoundsAssumption DEF Current, Ops
<1>7. /\ receipt' = [receipt EXCEPT ![j] = 0] /\ receipt[j] # 0
      /\ receipt' \in [Jobs -> 0..Len(logs)] /\ receipt'[j] = 0
      /\ \A k \in Jobs \ {j} : receipt'[k] = receipt[k]
  BY <1>0 DEF Record
<1>8. RunInv(j)'
  BY <1>0, <1>1, <1>3, <1>4, <1>5, <1>6, <1>7 DEF RunInv
<1>9. latest' \in [Ops -> [log : 0..Len(logs), day : 0..today]]
  BY <1>0 DEF Record, AddRecord, TypeOK
<1> QED
  BY <1>0, <1>1, <1>4, <1>7, <1>8, <1>9, RunStepTypes DEF TypeOK

LEMMA EndTypes ==
    ASSUME TypeInv, NEW j \in Jobs, Close(j) \/ Fail(j)
    PROVE  TypeInv'
<1>0. /\ TypeOK /\ RunInv(j) /\ job'[j] = Idle /\ job' = [job EXCEPT ![j] = Idle]
      /\ UNCHANGED <<today, logs, latest>>
  BY DEF TypeInv, TypeOK, Close, Fail
<1>1. CASE Close(j)
  <2>1. cursor' \in 0..Len(logs) /\ UNCHANGED <<pending, receipt, faults>>
    BY <1>0, <1>1 DEF Close, RunInv
  <2>2. receipt'[j] = 0 /\ (pending' # None => pending'.owner # j)
    BY <1>0, <1>1, <2>1 DEF Close, RunInv
  <2>3. RunInv(j)'
    BY <1>0, <2>2, EndedRunInv
  <2> QED
    BY <1>0, <2>1, <2>3, IdleRun, RunStepTypes DEF TypeOK
<1>2. CASE Fail(j)
  <2>1. Forget(j) /\ faults' \in 0..MaxFaults /\ UNCHANGED cursor
    BY <1>0, <1>2, BoundsAssumption DEF Fail, TypeOK
  <2>2. RunInv(j)'
    BY <1>0, <2>1, Forgotten, EndedRunInv
  <2> QED
    BY <1>0, <2>1, <2>2, Forgotten, IdleRun, RunStepTypes DEF TypeOK
<1> QED
  BY <1>1, <1>2

LEMMA InitTypes == Init => TypeInv
<1> SUFFICES ASSUME Init PROVE TypeInv
  OBVIOUS
<1>1. NoRecord \in [log : 0..Len(logs), day : 0..today] /\ Len(logs) = 0
  BY DEF Init, NoRecord
<1>2. TypeOK
  BY <1>1, IdleRun, BoundsAssumption DEF Init, TypeOK
<1>3. ASSUME NEW j \in Jobs PROVE RunInv(j)
  BY <1>1 DEF Init, RunInv, Idle, NothingFound, Sending
<1> QED
  BY <1>2, <1>3 DEF TypeInv

LEMMA NextTypes == TypeInv /\ [Next]_vars => TypeInv'
<1> SUFFICES ASSUME TypeInv, [Next]_vars PROVE TypeInv'
  OBVIOUS
<1>1. CASE UNCHANGED vars
  BY <1>1 DEF vars, TypeInv, TypeOK, RunInv, Current
<1>2. CASE Tick \/ Mine \/ \E op \in Ops : ManualCall(op)
  BY <1>2, EnvironmentTypes
<1>3. ASSUME NEW j \in Jobs, ReadHead(j) \/ Step(j) PROVE TypeInv'
  BY <1>3, ReadingTypes, SaveNewEventTypes, DecideTypes, SubmitTypes, RecordTypes, EndTypes DEF Step
<1>4. ASSUME NEW j \in Jobs, SubmitUnderpriced(j) \/ Timeout(j) \/ Fail(j) PROVE TypeInv'
  BY <1>4, AttemptFailsTypes, EndTypes
<1> QED
  BY <1>1, <1>2, <1>3, <1>4 DEF Next

\* TypeInv, which says more of the runs' records than TypeOK, always holds.
THEOREM TypeInvariance == Spec => []TypeInv
<1> QED
  BY InitTypes, NextTypes, PTL DEF Spec

\* The state keeps its types, with any number of runs at once: no run makes
\* more attempts than it has, and the records, the cursor and the receipts
\* point to logs there are.
THEOREM TypeCorrect == Spec => []TypeOK
<1>1. TypeInv => TypeOK
  BY DEF TypeInv
<1> QED
  BY <1>1, TypeInvariance, PTL

-----------------------------------------------------------------------------
(* The invariant behind PrematureBounded: each fault pays for one call too *)
(* many, that was made or is still to be made.                             *)

\* The latest record does not keep the next run from calling too early.
Exposed(op) ==
    \E i \in DOMAIN logs :
        /\ logs[i].auto /\ logs[i].op = op
        /\ latest[op] = NoRecord \/ latest[op].day < logs[i].day

\* A call that is mined now keeps the interval.
OnTime(op) ==
    \A i \in DOMAIN logs : logs[i].auto /\ logs[i].op = op => today >= logs[i].day + Interval[op]

\* A run has its receipt and is about to record the call.
AwaitsRecord(op) == \E j \in Jobs : job[j].pc = "waiting" /\ receipt[j] # 0 /\ Current(j) = op

\* A transaction that no run waits for any more.
Stray(op) == pending # None /\ pending.owner = None /\ pending.op = op

\* Calls to come that a fault has paid for: one of an operation that is
\* exposed or whose transaction, once mined, will make it so; and that
\* transaction itself if it comes too early.
Charged(op) == (Exposed(op) /\ ~AwaitsRecord(op)) \/ Stray(op)
Early == \E op \in Ops : Stray(op) /\ ~OnTime(op)
Cost(charged) == IF charged THEN 1 ELSE 0
Budget ==
    Cardinality(Premature) + Cost(Charged("mint")) + Cost(Charged("transferToLiquidity")) + Cost(Early)
      <= faults

\* What a run is about to call is still due.
DueInv(j) == job[j].pc \in Sending => \A op \in job[j].due : ShouldExecute(op)

IndInv == TypeInv /\ Budget /\ \A j \in Jobs : DueInv(j)

\* Premature calls are some of the logs.
LEMMA PrematureFinite ==
    ASSUME TypeOK
    PROVE  /\ Premature \subseteq 1..Len(logs) /\ IsFiniteSet(Premature)
           /\ Cardinality(Premature) \in Nat
<1>1. Len(logs) \in Nat /\ DOMAIN logs = 1..Len(logs)
  BY DEF TypeOK
<1>2. Premature \subseteq 1..Len(logs)
  BY <1>1 DEF Premature
<1>3. IsFiniteSet(1..Len(logs))
  BY <1>1, FS_Interval
<1>4. IsFiniteSet(Premature)
  BY <1>2, <1>3, FS_Subset
<1> QED
  BY <1>2, <1>4, FS_CardinalityType

LEMMA LogType ==
    ASSUME TypeOK, NEW i \in DOMAIN logs
    PROVE  /\ logs[i] \in [op : Ops, day : 0..today, auto : BOOLEAN]
           /\ logs[i].day \in 0..today /\ today \in Nat
<1> DEFINE L == [op : Ops, day : 0..today, auto : BOOLEAN]
<1>1. logs \in Seq(L) /\ today \in Nat
  BY BoundsAssumption DEF TypeOK
<1> HIDE DEF L
<1>2. i \in 1..Len(logs)
  BY <1>1
<1>3. logs[i] \in L
  BY <1>1, <1>2, ElementOfSeq
<1> QED
  BY <1>1, <1>3 DEF L

\* A call is due only if it is on time, or its operation is exposed.
LEMMA DueIsOnTimeOrExposed ==
    ASSUME TypeOK, NEW op \in Ops, ShouldExecute(op), ~Exposed(op)
    PROVE  OnTime(op)
<1> SUFFICES ASSUME NEW i \in DOMAIN logs, logs[i].auto, logs[i].op = op
             PROVE  today >= logs[i].day + Interval[op]
  BY DEF OnTime
<1>1. /\ latest[op] # NoRecord /\ ~(latest[op].day < logs[i].day)
  BY DEF Exposed
<1>2. today >= latest[op].day + Interval[op]
  BY <1>1 DEF ShouldExecute
<1>3. latest[op] \in [log : 0..Len(logs), day : 0..today]
  BY DEF TypeOK
<1>4. latest[op].day \in Int /\ logs[i].day \in Int /\ today \in Int /\ Interval[op] \in Int
  BY <1>3, LogType, IntervalType
<1> QED
  BY <1>1, <1>2, <1>4

\* The logs after one more.
LEMMA LogAppended ==
    ASSUME TypeOK, NEW log, logs' = Append(logs, log)
    PROVE  /\ DOMAIN logs = 1..Len(logs) /\ Len(logs) \in Nat
           /\ DOMAIN logs' = 1..Len(logs) + 1
           /\ \A i \in 1..Len(logs) : logs'[i] = logs[i]
           /\ logs'[Len(logs) + 1] = log
BY DEF TypeOK

\* What an administrator calls is no call of the job.
LEMMA ManualIsNoCall ==
    ASSUME TypeOK, NEW op \in Ops, ManualCall(op)
    PROVE  /\ Premature' = Premature
           /\ \A o \in Ops : (Exposed(o)' <=> Exposed(o)) /\ (OnTime(o)' <=> OnTime(o))
<1> DEFINE log == [op |-> op, day |-> today, auto |-> FALSE]
           n == Len(logs)
<1>1. logs' = Append(logs, log) /\ UNCHANGED <<today, latest>>
  BY DEF ManualCall
<1>2. ~log.auto
  OBVIOUS
<1> HIDE DEF log
<1>3. /\ DOMAIN logs = 1..n /\ n \in Nat /\ DOMAIN logs' = 1..n + 1
      /\ \A i \in 1..n : logs'[i] = logs[i]
      /\ logs'[n + 1] = log
  BY <1>1, LogAppended
<1> HIDE DEF n
<1>4. Premature' = Premature
  <2>1. ASSUME NEW k, k \in Premature' PROVE k \in Premature
    <3>1. PICK i \in 1..k - 1 : /\ k \in 1..n + 1 /\ logs'[k].auto
                               /\ logs'[i].auto /\ logs'[i].op = logs'[k].op
                               /\ logs'[k].day < logs'[i].day + Interval[logs'[k].op]
      BY <1>3, <2>1 DEF Premature
    <3>2. k \in 1..n /\ i \in 1..n
      BY <1>2, <1>3, <3>1
    <3> QED
      BY <1>3, <3>1, <3>2 DEF Premature
  <2>2. ASSUME NEW k, k \in Premature PROVE k \in Premature'
    <3>1. PICK i \in 1..k - 1 : /\ k \in 1..n /\ logs[k].auto
                               /\ logs[i].auto /\ logs[i].op = logs[k].op
                               /\ logs[k].day < logs[i].day + Interval[logs[k].op]
      BY <1>3, <2>2 DEF Premature
    <3>2. i \in 1..n /\ k \in 1..n + 1
      BY <1>3, <3>1
    <3> QED
      BY <1>3, <3>1, <3>2 DEF Premature
  <2> QED
    BY <2>1, <2>2
<1>5. ASSUME NEW o \in Ops PROVE (Exposed(o)' <=> Exposed(o)) /\ (OnTime(o)' <=> OnTime(o))
  BY <1>1, <1>2, <1>3 DEF Exposed, OnTime
<1> QED
  BY <1>4, <1>5

\* A call that is mined is premature if it is not on time, and exposes its
\* own operation only.
LEMMA MinedCall ==
    ASSUME TypeOK, Mine, NEW op \in Ops, pending.op = op
    PROVE  /\ Cardinality(Premature') \in Nat
           /\ Cardinality(Premature') <= Cardinality(Premature) + Cost(~OnTime(op))
           /\ \A o \in Ops \ {op} : Exposed(o)' <=> Exposed(o)
<1> DEFINE log == [op |-> op, day |-> today, auto |-> TRUE]
           n == Len(logs)
<1>1. logs' = Append(logs, log) /\ UNCHANGED <<today, latest>>
  BY DEF Mine
<1>2. log.auto /\ log.op = op /\ log.day = today
  OBVIOUS
<1> HIDE DEF log
<1>3. /\ DOMAIN logs = 1..n /\ n \in Nat /\ DOMAIN logs' = 1..n + 1
      /\ \A i \in 1..n : logs'[i] = logs[i]
      /\ logs'[n + 1] = log
  BY <1>1, LogAppended
<1>4. Premature \subseteq 1..n /\ IsFiniteSet(Premature) /\ Cardinality(Premature) \in Nat
  BY PrematureFinite
<1> HIDE DEF n
<1>5. Premature' \subseteq Premature \cup (IF OnTime(op) THEN {} ELSE {n + 1})
  <2>1. SUFFICES ASSUME NEW k, k \in Premature'
                 PROVE  k \in Premature \/ (k = n + 1 /\ ~OnTime(op))
    OBVIOUS
  <2>2. PICK i \in 1..k - 1 : /\ k \in 1..n + 1 /\ logs'[k].auto
                             /\ logs'[i].auto /\ logs'[i].op = logs'[k].op
                             /\ logs'[k].day < logs'[i].day + Interval[logs'[k].op]
    BY <1>3, <2>1 DEF Premature
  <2>3. i \in 1..n /\ logs'[i] = logs[i]
    BY <1>3, <2>2
  <2>4. CASE k \in 1..n
    BY <1>3, <2>2, <2>3, <2>4 DEF Premature
  <2>5. CASE k = n + 1
    <3>1. logs[i].auto /\ logs[i].op = op /\ today < logs[i].day + Interval[op] /\ i \in DOMAIN logs
      BY <1>2, <1>3, <2>2, <2>3, <2>5
    <3>2. logs[i].day \in Nat /\ today \in Nat /\ Interval[op] \in Nat
      BY <3>1, LogType, IntervalType
    <3>3. ~OnTime(op)
      BY <3>1, <3>2 DEF OnTime
    <3> QED
      BY <2>5, <3>3
  <2> QED
    BY <1>3, <2>2, <2>4, <2>5
<1>6. \A o \in Ops \ {op} : Exposed(o)' <=> Exposed(o)
  BY <1>1, <1>2, <1>3 DEF Exposed
<1>7. CASE OnTime(op)
  <2>1. Premature' \subseteq Premature
    BY <1>5, <1>7
  <2>2. Cardinality(Premature') <= Cardinality(Premature) /\ IsFiniteSet(Premature')
    BY <1>4, <2>1, FS_Subset
  <2>3. Cardinality(Premature') \in Nat
    BY <2>2, FS_CardinalityType
  <2>4. Cost(~OnTime(op)) = 0
    BY <1>7 DEF Cost
  <2> QED
    BY <1>4, <1>6, <2>2, <2>3, <2>4
<1>8. CASE ~OnTime(op)
  <2>1. Premature' \subseteq Premature \cup {n + 1} /\ n + 1 \notin Premature
    BY <1>3, <1>4, <1>5, <1>8
  <2>2. /\ IsFiniteSet(Premature \cup {n + 1})
        /\ Cardinality(Premature \cup {n + 1}) = Cardinality(Premature) + 1
    BY <1>4, <2>1, FS_AddElement
  <2>3. Cardinality(Premature') <= Cardinality(Premature) + 1 /\ IsFiniteSet(Premature')
    BY <2>1, <2>2, FS_Subset
  <2>4. Cardinality(Premature') \in Nat
    BY <2>3, FS_CardinalityType
  <2>5. Cost(~OnTime(op)) = 1
    BY <1>8 DEF Cost
  <2> QED
    BY <1>4, <1>6, <2>3, <2>4, <2>5
<1> QED
  BY <1>7, <1>8

\* What is recorded is not exposed, today being no earlier than any log.
LEMMA RecordedIsCovered ==
    ASSUME TypeOK, NEW op \in Ops, NEW log \in Nat \ {0}, AddRecord(op, log), UNCHANGED logs
    PROVE  /\ ~Exposed(op)'
           /\ \A o \in Ops \ {op} : (Exposed(o)' <=> Exposed(o)) /\ latest'[o] = latest[o]
<1>1. latest'[op] = [log |-> log, day |-> today] /\ \A o \in Ops \ {op} : latest'[o] = latest[o]
  BY DEF AddRecord, TypeOK
<1>2. latest'[op] # NoRecord /\ latest'[op].day = today
  BY <1>1 DEF NoRecord
<1>3. \A i \in DOMAIN logs : ~(today < logs[i].day)
  BY LogType
<1> QED
  BY <1>1, <1>2, <1>3 DEF Exposed

\* Without a new log no call becomes premature.
LEMMA SameLogs == UNCHANGED logs => Premature' = Premature
BY DEF Premature

LEMMA BudgetKept ==
    ASSUME TypeOK, Budget, Premature' = Premature, faults' = faults,
           \A op \in Ops : Charged(op)' => Charged(op),
           Early' => Early
    PROVE  Budget'
<1>1. Cardinality(Premature) \in Nat /\ faults \in Nat
  BY PrematureFinite, BoundsAssumption DEF TypeOK
<1>2. (Charged("mint")' => Charged("mint"))
      /\ (Charged("transferToLiquidity")' => Charged("transferToLiquidity"))
  BY DEF Ops
<1> HIDE DEF Premature, Charged, Early
<1> QED
  BY <1>1, <1>2 DEF Budget, Cost

\* A fault pays for one charge, of one operation or of the stray transaction.
LEMMA BudgetSpent ==
    ASSUME TypeOK, Budget, Premature' = Premature, faults' = faults + 1,
           NEW op \in Ops, \A o \in Ops \ {op} : Charged(o)' => Charged(o),
           (Early' => Early) \/ Charged(op)
    PROVE  Budget'
<1>1. Cardinality(Premature) \in Nat /\ faults \in Nat
  BY PrematureFinite, BoundsAssumption DEF TypeOK
<1>2. \/ op = "mint" /\ (Charged("transferToLiquidity")' => Charged("transferToLiquidity"))
      \/ op = "transferToLiquidity" /\ (Charged("mint")' => Charged("mint"))
  BY DEF Ops
<1> QED
  BY <1>1, <1>2 DEF Budget, Cost

-----------------------------------------------------------------------------
(* The steps, when Jobs has one run.                                       *)

LEMMA EnvironmentBudget ==
    ASSUME IndInv, Tick \/ \E op \in Ops : ManualCall(op)
    PROVE  Budget' /\ \A j \in Jobs : DueInv(j)'
<1>0. TypeOK /\ Budget /\ \A j \in Jobs : DueInv(j) /\ job[j].due \in SUBSET Ops
  BY DEF IndInv, TypeInv, TypeOK, Runs
<1>1. CASE Tick
  <2>1. /\ today' = today + 1 /\ today \in Nat
        /\ UNCHANGED <<logs, pending, latest, job, receipt, faults>>
    BY <1>0, <1>1, BoundsAssumption DEF Tick, TypeOK
  <2>2. ASSUME NEW op \in Ops, OnTime(op) PROVE OnTime(op)'
    <3> SUFFICES ASSUME NEW i \in DOMAIN logs, logs[i].auto, logs[i].op = op
                 PROVE  today + 1 >= logs[i].day + Interval[op]
      BY <2>1 DEF OnTime
    <3>1. logs[i].day \in Nat /\ Interval[op] \in Nat /\ today >= logs[i].day + Interval[op]
      BY <1>0, <2>1, <2>2, LogType, IntervalType DEF OnTime
    <3> QED
      BY <2>1, <3>1
  <2>3. \A op \in Ops : Charged(op)' => Charged(op)
    BY <2>1 DEF Charged, Exposed, AwaitsRecord, Current, Stray
  <2>4. Early' => Early
    BY <2>1, <2>2 DEF Early, Stray
  <2>5. ASSUME NEW op \in Ops, ShouldExecute(op) PROVE ShouldExecute(op)'
    <3>1. latest[op].day \in Nat /\ Interval[op] \in Nat /\ AvailableFrom \in Nat
      BY <1>0, <2>1, IntervalType, BoundsAssumption DEF TypeOK
    <3> QED
      BY <2>1, <2>5, <3>1 DEF ShouldExecute
  <2>6. \A j \in Jobs : DueInv(j)'
    BY <1>0, <2>1, <2>5 DEF DueInv
  <2> QED
    BY <1>0, <2>1, <2>3, <2>4, <2>6, SameLogs, BudgetKept
<1>2. ASSUME NEW op \in Ops, ManualCall(op) PROVE Budget' /\ \A j \in Jobs : DueInv(j)'
  <2>1. UNCHANGED <<today, pending, latest, job, receipt, faults>>
    BY <1>2 DEF ManualCall
  <2>2. /\ Premature' = Premature
        /\ \A o \in Ops : (Exposed(o)' <=> Exposed(o)) /\ (OnTime(o)' <=> OnTime(o))
    BY <1>0, <1>2, ManualIsNoCall
  <2>3. \A o \in Ops : Charged(o)' => Charged(o)
    BY <2>1, <2>2 DEF Charged, AwaitsRecord, Current, Stray
  <2>4. Early' => Early
    BY <2>1, <2>2 DEF Early, Stray
  <2>5. \A j \in Jobs : DueInv(j)'
    BY <1>0, <2>1 DEF DueInv, ShouldExecute
  <2> QED
    BY <1>0, <2>1, <2>2, <2>3, <2>4, <2>5, BudgetKept
<1> QED
  BY <1>1, <1>2

\* A transaction of the run is on time or was paid for when it was exposed;
\* a stray one was paid for by the fault that made it so.
LEMMA MineBudget ==
    ASSUME IndInv, NEW r, Jobs = {r}, Mine
    PROVE  Budget' /\ \A j \in Jobs : DueInv(j)'
<1>0. /\ TypeOK /\ Budget /\ RunInv(r) /\ DueInv(r) /\ r \in Jobs
      /\ Cardinality(Premature) \in Nat /\ faults \in Nat
  BY PrematureFinite, BoundsAssumption DEF IndInv, TypeInv, TypeOK
<1>1. /\ pending # None /\ pending' = None /\ UNCHANGED <<today, latest, job, faults>>
      /\ receipt'[r] = IF r = pending.owner THEN Len(logs) + 1 ELSE receipt[r]
  BY <1>0 DEF Mine
<1>a. pending.op \in Ops /\ pending.owner \in {r, None} /\ r # None
  BY <1>0, <1>1, NoneIsNoTx DEF TypeOK, Txs
<1>2. PICK op \in Ops : pending.op = op
  BY <1>a
<1>3. /\ Cardinality(Premature') \in Nat
      /\ Cardinality(Premature') <= Cardinality(Premature) + Cost(~OnTime(op))
      /\ \A o \in Ops \ {op} : Exposed(o)' <=> Exposed(o)
  BY <1>0, <1>2, MinedCall
<1>4. ~Early' /\ \A o \in Ops : ~Stray(o)'
  BY <1>1 DEF Early, Stray
<1>5. \A j \in Jobs : DueInv(j)'
  BY <1>0, <1>1 DEF DueInv, ShouldExecute
<1>6. CASE pending.owner = r
  <2>1. /\ job[r].pc = "waiting" /\ op = Current(r) /\ receipt[r] = 0 /\ job[r].due # {}
        /\ job[r].due \in SUBSET Ops
    BY <1>0, <1>1, <1>2, <1>6 DEF RunInv, Sending, TypeOK, Runs
  <2>2. ShouldExecute(op)
    BY <1>0, <2>1, CurrentIsDue DEF DueInv, Sending
  <2>3. receipt'[r] # 0
    BY <1>0, <1>1, <1>6 DEF TypeOK
  <2>4. ~Charged(op)'
    BY <1>0, <1>1, <1>4, <2>1, <2>3 DEF Charged, AwaitsRecord, Current
  <2>5. ~OnTime(op) => Charged(op)
    BY <1>0, <1>2, <2>1, <2>2, DueIsOnTimeOrExposed DEF Charged, AwaitsRecord
  <2>6. \A o \in Ops \ {op} : Charged(o)' => Charged(o)
    BY <1>3, <1>4, <2>1 DEF Charged, AwaitsRecord
  <2>7. \/ op = "mint" /\ (Charged("transferToLiquidity")' => Charged("transferToLiquidity"))
        \/ op = "transferToLiquidity" /\ (Charged("mint")' => Charged("mint"))
    BY <1>2, <2>6 DEF Ops
  <2>8. Budget'
    BY <1>0, <1>1, <1>3, <1>4, <2>4, <2>5, <2>7 DEF Budget, Cost
  <2> QED
    BY <1>5, <2>8
<1>7. CASE pending.owner = None
  <2>1. receipt'[r] = receipt[r] /\ Stray(op) /\ (Early <=> ~OnTime(op))
    BY <1>1, <1>2, <1>a, <1>7 DEF Stray, Early
  <2>2. Charged(op)
    BY <2>1 DEF Charged
  <2>3. \A o \in Ops \ {op} : Charged(o)' => Charged(o)
    BY <1>1, <1>3, <1>4, <2>1 DEF Charged, AwaitsRecord, Current
  <2>4. \/ op = "mint" /\ (Charged("transferToLiquidity")' => Charged("transferToLiquidity"))
        \/ op = "transferToLiquidity" /\ (Charged("mint")' => Charged("mint"))
    BY <1>2, <2>3 DEF Ops
  <2>5. Budget'
    BY <1>0, <1>1, <1>3, <1>4, <2>1, <2>2, <2>4 DEF Budget, Cost
  <2> QED
    BY <1>5, <2>5
<1> QED
  BY <1>a, <1>6, <1>7

\* While the run does not wait, what it does or records exposes nothing.
LEMMA QuietBudget ==
    ASSUME IndInv, NEW r, Jobs = {r}, job[r].pc # "waiting",
           UNCHANGED <<today, logs, pending, faults>>,
           \A op \in Ops : Exposed(op)' => Exposed(op)
    PROVE  Budget'
<1>0. /\ TypeOK /\ Budget
  BY DEF IndInv, TypeInv
<1>1. \A op \in Ops : ~AwaitsRecord(op)
  BY DEF AwaitsRecord
<1>2. \A op \in Ops : Charged(op)' => Charged(op)
  BY <1>1 DEF Charged, Stray
<1>3. Early' => Early
  BY DEF Early, Stray, OnTime
<1> QED
  BY <1>0, <1>2, <1>3, SameLogs, BudgetKept

LEMMA ReadingBudget ==
    ASSUME IndInv, NEW r, Jobs = {r},
           ReadHead(r) \/ SkipInvalidRange(r) \/ FetchNewEvents(r) \/ Decide(r) \/ Close(r)
    PROVE  Budget' /\ DueInv(r)'
<1>0. /\ TypeOK /\ job \in [Jobs -> Runs] /\ r \in Jobs
  BY DEF IndInv, TypeInv, TypeOK
<1>1. /\ job[r].pc # "waiting"
      /\ UNCHANGED <<today, logs, pending, latest, receipt, faults>>
  BY DEF ReadHead, SkipInvalidRange, FetchNewEvents, Decide, Close
<1>2. \A op \in Ops : Exposed(op)' => Exposed(op)
  BY <1>1 DEF Exposed
<1>3. CASE Decide(r)
  <2> DEFINE due == {op \in Ops : ShouldExecute(op)}
  <2>1. job'[r] = [job[r] EXCEPT !.pc = NextPc(due), !.due = due]
    BY <1>0, <1>3 DEF Decide
  <2>2. job'[r].due = due
    BY <1>0, <2>1 DEF Runs
  <2> QED
    BY <1>1, <1>2, <2>2, QuietBudget DEF DueInv, ShouldExecute
<1>4. CASE ~Decide(r)
  <2>1. job'[r].pc \notin Sending
    <3>1. CASE ReadHead(r)
      BY <1>0, <3>1 DEF ReadHead, Idle, Sending
    <3>2. CASE SkipInvalidRange(r) \/ Close(r)
      BY <1>0, <3>2 DEF SkipInvalidRange, Close, Idle, Sending
    <3>3. CASE FetchNewEvents(r)
      <4>1. job'[r].pc = "recording"
        BY <1>0, <3>3 DEF FetchNewEvents, Runs
      <4> QED
        BY <4>1 DEF Sending
    <3> QED
      BY <1>4, <3>1, <3>2, <3>3
  <2> QED
    BY <1>1, <1>2, <2>1, QuietBudget DEF DueInv
<1> QED
  BY <1>3, <1>4

LEMMA SaveNewEventBudget ==
    ASSUME IndInv, NEW r, Jobs = {r}, NEW op \in Ops, SaveNewEvent(r, op)
    PROVE  Budget' /\ DueInv(r)'
<1>0. /\ TypeOK /\ RunInv(r) /\ job \in [Jobs -> Runs] /\ r \in Jobs
  BY DEF IndInv, TypeInv, TypeOK
<1>1. /\ job[r].pc = "recording" /\ AddRecord(op, job[r].found[op])
      /\ job[r].found[op] \in Nat \ {0}
      /\ UNCHANGED <<today, logs, pending, cursor, receipt, faults>>
  BY <1>0 DEF SaveNewEvent, Runs
<1>2. \A o \in Ops : Exposed(o)' => Exposed(o)
  BY <1>0, <1>1, RecordedIsCovered
<1>3. job'[r].pc = "recording"
  BY <1>0, <1>1 DEF SaveNewEvent, Runs
<1> QED
  BY <1>1, <1>2, <1>3, QuietBudget DEF DueInv, Sending

LEMMA SubmitBudget ==
    ASSUME IndInv, NEW r, Jobs = {r}, Submit(r)
    PROVE  Budget' /\ DueInv(r)'
<1>0. /\ TypeOK /\ Budget /\ DueInv(r) /\ job \in [Jobs -> Runs] /\ r \in Jobs /\ r # None
  BY NoneIsNoTx DEF IndInv, TypeInv, TypeOK
<1>1. /\ job[r].pc = "submitting" /\ pending' = [op |-> Current(r), owner |-> r]
      /\ job'[r] = [job[r] EXCEPT !.pc = "waiting"]
      /\ UNCHANGED <<today, logs, latest, cursor, receipt, faults>>
  BY <1>0 DEF Submit
<1>2. \A op \in Ops : ~Stray(op)' /\ ~AwaitsRecord(op)
  BY <1>0, <1>1 DEF Stray, AwaitsRecord
<1>3. \A op \in Ops : Charged(op)' => Charged(op)
  BY <1>1, <1>2 DEF Charged, Exposed
<1>4. ~Early'
  BY <1>2 DEF Early
<1>5. DueInv(r)'
  <2>1. job'[r].due = job[r].due
    BY <1>0, <1>1 DEF Runs
  <2> QED
    BY <1>0, <1>1, <2>1 DEF DueInv, Sending, ShouldExecute
<1> QED
  BY <1>0, <1>1, <1>3, <1>4, <1>5, SameLogs, BudgetKept

\* A run that tries again calls what it was about to call.
LEMMA RetryDue ==
    ASSUME IndInv, NEW j \in Jobs, job[j].pc \in Sending, Retry(j), UNCHANGED <<today, latest>>
    PROVE  DueInv(j)' /\ job'[j].pc # "waiting"
<1>0. TypeInv /\ DueInv(j) /\ job \in [Jobs -> Runs]
  BY DEF IndInv, TypeInv, TypeOK
<1>1. PICK next \in Runs :
        /\ job' = [job EXCEPT ![j] = next]
        /\ \/ next = Idle
           \/ next.pc = "submitting" /\ next.due = job[j].due
  BY <1>0, RetryRun
<1>2. job'[j] = next
  BY <1>0, <1>1
<1> QED
  BY <1>0, <1>1, <1>2 DEF DueInv, Idle, Sending, ShouldExecute

LEMMA SubmitUnderpricedBudget ==
    ASSUME IndInv, NEW r, Jobs = {r}, SubmitUnderpriced(r)
    PROVE  Budget' /\ DueInv(r)'
<1>1. /\ job[r].pc = "submitting" /\ Retry(r) /\ r \in Jobs
      /\ UNCHANGED <<today, logs, pending, latest, cursor, receipt, faults>>
  BY DEF SubmitUnderpriced
<1>2. \A op \in Ops : Exposed(op)' => Exposed(op)
  BY <1>1 DEF Exposed
<1> QED
  BY <1>1, <1>2, QuietBudget, RetryDue DEF Sending

LEMMA RecordBudget ==
    ASSUME IndInv, NEW r, Jobs = {r}, Record(r)
    PROVE  Budget' /\ DueInv(r)'
<1>0. /\ TypeOK /\ Budget /\ RunInv(r) /\ DueInv(r) /\ job \in [Jobs -> Runs] /\ r \in Jobs
      /\ receipt[r] \in Nat
  BY DEF IndInv, TypeInv, TypeOK
<1>1. PICK op \in Ops : op = Current(r)
  BY DEF Current, Ops
<1>2. /\ job[r].pc = "waiting" /\ AddRecord(op, receipt[r]) /\ receipt[r] \in Nat \ {0}
      /\ job'[r] = [job[r] EXCEPT !.pc = NextPc(job[r].due \ {op}), !.due = job[r].due \ {op}, !.attempt = 0]
      /\ UNCHANGED <<today, logs, pending, cursor, faults>>
  BY <1>0, <1>1 DEF Record
<1>3. job'[r].due = job[r].due \ {op} /\ job[r].due \in SUBSET Ops
  BY <1>0, <1>2 DEF Runs
<1>4. /\ ~Exposed(op)'
      /\ \A o \in Ops \ {op} : (Exposed(o)' <=> Exposed(o)) /\ latest'[o] = latest[o]
  BY <1>0, <1>2, RecordedIsCovered
<1>5. \A o \in Ops \ {op} : ~AwaitsRecord(o)
  BY <1>1 DEF AwaitsRecord
<1>6. \A o \in Ops : Charged(o)' => Charged(o)
  BY <1>2, <1>4, <1>5 DEF Charged, Stray
<1>7. Early' => Early
  BY <1>2 DEF Early, Stray, OnTime
<1>8. DueInv(r)'
  BY <1>0, <1>2, <1>3, <1>4 DEF DueInv, Sending, ShouldExecute
<1> QED
  BY <1>0, <1>2, <1>6, <1>7, <1>8, SameLogs, BudgetKept

\* A fault leaves a receipt unrecorded, or a transaction stray.
LEMMA FaultBudget ==
    ASSUME IndInv, NEW r, Jobs = {r}, Timeout(r) \/ Fail(r)
    PROVE  Budget' /\ DueInv(r)'
<1>0. /\ TypeInv /\ TypeOK /\ Budget /\ RunInv(r) /\ DueInv(r) /\ job \in [Jobs -> Runs] /\ r \in Jobs
      /\ job[r].due \in SUBSET Ops
  BY DEF IndInv, TypeInv, TypeOK, Runs
<1>1. Forget(r) /\ faults' = faults + 1 /\ UNCHANGED <<today, logs, latest>>
  BY DEF Timeout, Fail
<1>2. job'[r].pc # "waiting" /\ DueInv(r)'
  <2>1. CASE Timeout(r)
    BY <1>0, <1>1, <2>1, RetryDue DEF Timeout, Sending
  <2>2. CASE Fail(r)
    BY <1>0, <2>2 DEF Fail, Idle, DueInv, Sending
  <2> QED
    BY <2>1, <2>2
<1>3. PICK op \in Ops : op = Current(r)
  BY DEF Current, Ops
<1>4. \A o \in Ops : (Exposed(o)' <=> Exposed(o)) /\ (OnTime(o)' <=> OnTime(o))
  BY <1>1 DEF Exposed, OnTime
<1>5. CASE pending # None /\ pending.owner = r
  <2>1. /\ job[r].pc = "waiting" /\ pending.op = op /\ receipt[r] = 0 /\ job[r].due # {}
    BY <1>0, <1>3, <1>5 DEF RunInv, Sending
  <2>2. /\ pending'.op = op
        /\ \A o \in Ops \ {op} : ~Stray(o)'
    BY <1>0, <1>1, <1>5, <2>1, Forgotten DEF Stray
  <2>3. \A o \in Ops \ {op} : Charged(o)' => Charged(o)
    BY <1>4, <2>1, <2>2 DEF Charged, AwaitsRecord
  <2>4. Early' => Charged(op)
    <3>1. ShouldExecute(op)
      BY <1>0, <1>3, <2>1, CurrentIsDue DEF DueInv, Sending
    <3>2. Early' => ~OnTime(op)
      BY <1>4, <2>2 DEF Early
    <3>3. ~OnTime(op) => Exposed(op)
      BY <1>0, <3>1, DueIsOnTimeOrExposed
    <3> QED
      BY <2>1, <3>2, <3>3 DEF Charged, AwaitsRecord
  <2> QED
    BY <1>0, <1>1, <1>2, <2>3, <2>4, SameLogs, BudgetSpent
<1>6. CASE ~(pending # None /\ pending.owner = r)
  <2>1. pending' = pending
    BY <1>1, <1>6 DEF Forget
  <2>2. \A o \in Ops \ {op} : ~AwaitsRecord(o)
    BY <1>3 DEF AwaitsRecord
  <2>3. \A o \in Ops \ {op} : Charged(o)' => Charged(o)
    BY <1>4, <2>1, <2>2 DEF Charged, Stray
  <2>4. Early' => Early
    BY <1>4, <2>1 DEF Early, Stray
  <2> QED
    BY <1>0, <1>1, <1>2, <2>3, <2>4, SameLogs, BudgetSpent
<1> QED
  BY <1>5, <1>6

LEMMA InitBudget == Init => Budget /\ \A j \in Jobs : DueInv(j)
<1> SUFFICES ASSUME Init PROVE Budget /\ \A j \in Jobs : DueInv(j)
  OBVIOUS
<1>1. Premature = {}
  BY DEF Init, Premature
<1>2. Cardinality(Premature) = 0
  BY <1>1, FS_EmptySet
<1>3. ~Early /\ ~Charged("mint") /\ ~Charged("transferToLiquidity")
  BY DEF Init, Early, Charged, Stray, Exposed
<1> QED
  BY <1>2, <1>3 DEF Budget, Cost, Init, DueInv, Idle, Sending

LEMMA NextInd ==
    ASSUME NEW r, Jobs = {r}
    PROVE  IndInv /\ [Next]_vars => IndInv'
<1> SUFFICES ASSUME IndInv, [Next]_vars PROVE IndInv'
  OBVIOUS
<1>1. TypeInv'
  BY NextTypes DEF IndInv
<1>2. Budget' /\ \A j \in Jobs : DueInv(j)'
  <2>1. CASE UNCHANGED vars
    BY ZenonT(60), <2>1 DEF vars, IndInv, Budget, Premature, Charged, Early, Exposed, OnTime, AwaitsRecord, Stray,
                Current, DueInv, ShouldExecute
  <2>2. CASE Tick \/ \E op \in Ops : ManualCall(op)
    BY <2>2, EnvironmentBudget
  <2>3. CASE Mine
    BY <2>3, MineBudget
  <2>4. CASE ReadHead(r) \/ Step(r)
    BY <2>4, ReadingBudget, SaveNewEventBudget, SubmitBudget, RecordBudget DEF Step
  <2>5. CASE SubmitUnderpriced(r) \/ Timeout(r) \/ Fail(r)
    BY <2>5, SubmitUnderpricedBudget, FaultBudget
  <2> QED
    BY <2>1, <2>2, <2>3, <2>4, <2>5 DEF Next
<1> QED
  BY <1>1, <1>2 DEF IndInv

\* Runs of mint-executor that follow one another call Minter before its
\* interval is over at most once for each fault, whatever an administrator
\* calls in between and however far the node that answers is behind.
THEOREM PrematureIsBounded ==
    ASSUME NEW r, Jobs = {r}
    PROVE  Spec => []PrematureBounded
<1>1. Init => IndInv
  BY InitTypes, InitBudget DEF IndInv
<1>2. IndInv /\ [Next]_vars => IndInv'
  BY NextInd
<1>3. IndInv => PrematureBounded
  <2> SUFFICES ASSUME IndInv PROVE PrematureBounded
    OBVIOUS
  <2>1. Cardinality(Premature) \in Nat /\ faults \in Nat
    BY PrematureFinite, BoundsAssumption DEF IndInv, TypeInv, TypeOK
  <2> QED
    BY <2>1 DEF IndInv, Budget, Cost, PrematureBounded
<1> QED
  BY <1>1, <1>2, <1>3, PTL DEF Spec
=============================================================================
