------------------------- MODULE MessageRelayProofs -------------------------
(***************************************************************************)
(* Safety of the relayers for any number of messages, items and runs that  *)
(* overlap, and any bounds: the type invariant, the inductive invariant    *)
(* IndInv, and from it CursorBehindExecuted and ImplementsDelivery.        *)
(***************************************************************************)
EXTENDS MessageRelay, CollectionLemmas

-----------------------------------------------------------------------------
(* The inductive invariant.                                                *)

Runs == [pc : PCs, from : 0..MaxMessages, cur : 0..MaxMessages, type : Types,
         page : Nat \ {0}, todo : Seq(Calls) \cup Seq(1..MaxMessages),
         attempt : 0..MaxAttempts - 1]
Receipts == {"none", "success", "failed"}

TypeInv ==
    /\ kind \in Kinds
    /\ typeOf \in TypeMaps
    /\ reverting \in CanRevert
    /\ sent \in 0..MaxMessages
    /\ executed \in Seq(Calls)
    /\ indexed \in 0..Len(executed)
    /\ pending \in Txs \cup {None}
    /\ cursor \in 0..MaxMessages
    /\ job \in [Jobs -> Runs]
    /\ receipt \in [Jobs -> Receipts]
    /\ faults \in 0..MaxFaults
    /\ dropped \subseteq 1..MaxMessages

\* The calls of all messages, and their order.
AllCalls == {c \in Calls : c.k \in 1..NumCalls(c.msg)}
Precedes(a, b) == a.msg < b.msg \/ (a.msg = b.msg /\ a.k < b.k)
Order == {p \in Calls \X Calls : Precedes(p[1], p[2])}

\* What lets a relayer go on to the next call.
Passed(c) == Executed(c) \/ (kind = "undecoded" /\ c.msg \in reverting \cup dropped)
PassedUpTo(m) == \A c \in AllCalls : c.msg <= m => Passed(c)
PassedBefore(call) == \A c \in AllCalls : Precedes(c, call) => Passed(c)

\* The calls of a run with a cursor are in order, and those missing of the
\* messages up to its `cur` are passed.
TodoInv(r) ==
    /\ RespectsOrder(r.todo, Order)
    /\ \A c \in ToSet(r.todo) : c \in AllCalls /\ c.msg <= r.cur
    /\ \A c \in AllCalls : c.msg <= r.cur => Passed(c) \/ c \in ToSet(r.todo)

\* A run r with receipt q.
RunInv(r, q) ==
    /\ r.todo \in Seq(IF r.pc = "paging" THEN 1..MaxMessages ELSE Calls)
    /\ r.pc \in {"submitting", "waiting"} => r.todo # <<>>
    /\ r.pc \in {"head", "cursor", "closing"} => r.todo = <<>> /\ kind # "messenger"
    /\ r.pc = "paging" => kind = "messenger"
    /\ r.pc = "cursor" => PassedUpTo(r.from)
    /\ r.pc \in {"submitting", "waiting", "closing"} /\ kind # "messenger" => TodoInv(r)
    /\ q # "none" => r.pc = "waiting"
    /\ q = "success" => Executed(Head(r.todo))
    /\ q = "failed" => Executed(Head(r.todo)) \/ Head(r.todo).msg \in reverting

\* The transaction in the mempool is the one its owner waits for, and what
\* comes before it is passed.
PendingInv ==
    pending # None =>
        /\ pending.owner # None =>
             /\ job[pending.owner].pc = "waiting"
             /\ receipt[pending.owner] = "none"
             /\ pending.call = Head(job[pending.owner].todo)
        /\ kind # "messenger" => pending.call \in AllCalls /\ PassedBefore(pending.call)

CursorInv == IF kind = "messenger" THEN cursor = 0 ELSE PassedUpTo(cursor)

\* The target executes the calls in their order.
ExecutedInv ==
    kind \in {"decoded", "l2"} => \A e \in ToSet(executed) : e \in AllCalls /\ PassedBefore(e)

IndInv ==
    /\ TypeInv
    /\ \A j \in Jobs : RunInv(job[j], receipt[j])
    /\ PendingInv
    /\ CursorInv
    /\ ExecutedInv

-----------------------------------------------------------------------------
(* Calls.                                                                  *)

LEMMA NumCallsType == ASSUME NEW m \in 1..MaxMessages PROVE NumCalls(m) \in Nat
<1>1. ItemsOf[m] \in Nat /\ BatchSize \in Nat \ {0}
  BY RelayAssumption DEF MaxMessages
<1>2. Batches(m) \in Nat
  <2>1. ItemsOf[m] + BatchSize - 1 \in Nat
    BY <1>1
  <2>2. \A n \in Nat, b \in Nat \ {0} : n \div b \in Nat
    OBVIOUS
  <2> QED
    BY <1>1, <2>1, <2>2 DEF Batches
<1> QED
  BY <1>2 DEF NumCalls, WithdrawalCalls, ClaimCalls, DepositCalls

LEMMA CallsOfMessage ==
    ASSUME NEW m \in 1..MaxMessages
    PROVE  /\ CallsOf(m) \in Seq(Calls)
           /\ ToSet(CallsOf(m)) = {c \in AllCalls : c.msg = m}
           /\ RespectsOrder(CallsOf(m), Order)
<1> DEFINE n == NumCalls(m)
           s == CallsOf(m)
<1>1. n \in Nat
  BY NumCallsType
<1>2. s = [k \in 1..n |-> [msg |-> m, k |-> k]]
  BY DEF CallsOf
<1> HIDE DEF n, s
<1>3. \A k \in 1..n : s[k] \in Calls /\ s[k].msg = m /\ s[k].k = k
  BY <1>1, <1>2 DEF Calls
<1>4. s \in Seq(Calls) /\ Len(s) = n /\ DOMAIN s = 1..n
  BY <1>1, <1>2, <1>3
<1>5. ASSUME NEW c \in ToSet(s) PROVE c \in AllCalls /\ c.msg = m
  BY <1>3, <1>4, <1>5 DEF ToSet, AllCalls, n
<1>6. ASSUME NEW c \in AllCalls, c.msg = m PROVE c \in ToSet(s)
  <2>1. c.k \in 1..n /\ c = [msg |-> m, k |-> c.k]
    BY <1>6 DEF AllCalls, Calls, n
  <2>2. c = s[c.k]
    BY <1>2, <2>1
  <2> QED
    BY <1>4, <2>1, <2>2 DEF ToSet
<1>7. RespectsOrder(s, Order)
  <2> SUFFICES ASSUME NEW k \in 1..n, NEW l \in 1..n, k < l PROVE <<s[k], s[l]>> \in Order
    BY <1>4 DEF RespectsOrder
  <2>1. Precedes(s[k], s[l]) /\ s[k] \in Calls /\ s[l] \in Calls
    BY <1>3 DEF Precedes
  <2> QED
    BY <2>1 DEF Order
<1> QED
  BY <1>4, <1>5, <1>6, <1>7 DEF s

\* The calls of a list of messages: those of each message.
CallsOfAll(msgs) == FlattenSeq([i \in DOMAIN msgs |-> CallsOf(msgs[i])])

LEMMA CallsOfAllType ==
    ASSUME NEW msgs \in Seq(1..MaxMessages)
    PROVE  /\ [i \in DOMAIN msgs |-> CallsOf(msgs[i])] \in Seq(Seq(Calls))
           /\ CallsOfAll(msgs) \in Seq(Calls)
<1> DEFINE s == [i \in DOMAIN msgs |-> CallsOf(msgs[i])]
<1>1. DOMAIN msgs = 1..Len(msgs) /\ Len(msgs) \in Nat /\ \A i \in 1..Len(msgs) : msgs[i] \in 1..MaxMessages
  BY LenProperties, ElementOfSeq
<1>2. \A i \in 1..Len(msgs) : CallsOf(msgs[i]) \in Seq(Calls)
  BY <1>1, CallsOfMessage
<1>3. s \in Seq(Seq(Calls))
  BY <1>1, <1>2
<1> QED
  BY <1>3, FlattenType DEF CallsOfAll

\* The calls of the logs of a range are those of its messages, in order.
LEMMA CallsOfLogs ==
    ASSUME NEW from \in 0..MaxMessages, NEW cur \in 0..MaxMessages, from <= cur
    PROVE  /\ Logs(from, cur) \in Seq(1..MaxMessages)
           /\ ToSet(CallsOfAll(Logs(from, cur))) = {c \in AllCalls : from < c.msg /\ c.msg <= cur}
           /\ RespectsOrder(CallsOfAll(Logs(from, cur)), Order)
<1> DEFINE msgs == Logs(from, cur)
           s == [i \in DOMAIN msgs |-> CallsOf(msgs[i])]
           n == cur - from
<1>1. MaxMessages \in Nat /\ n \in Nat
  BY RelayAssumption DEF MaxMessages
<1>2. \A i \in 1..n : from + i \in 1..MaxMessages
  BY <1>1
<1>3. msgs \in Seq(1..MaxMessages) /\ DOMAIN msgs = 1..n /\ Len(msgs) = n
      /\ \A i \in 1..n : msgs[i] = from + i
  BY <1>1, <1>2 DEF Logs
<1> HIDE DEF msgs, n
<1>4. s \in Seq(Seq(Calls)) /\ Len(s) = n /\ \A i \in 1..n : s[i] = CallsOf(from + i)
  <2>1. s \in Seq(Seq(Calls))
    BY <1>3, CallsOfAllType
  <2>2. DOMAIN s = 1..n /\ \A i \in 1..n : s[i] = CallsOf(msgs[i])
    BY <1>3
  <2>3. Len(s) = n
    BY <1>1, <2>1, <2>2, LenProperties DEF n
  <2> QED
    BY <1>3, <2>1, <2>2, <2>3
<1>5. \A i \in 1..n : /\ ToSet(s[i]) = {c \in AllCalls : c.msg = from + i}
                      /\ RespectsOrder(s[i], Order)
  BY <1>2, <1>4, CallsOfMessage
<1>6. CallsOfAll(msgs) = FlattenSeq(s)
  BY DEF CallsOfAll
<1> HIDE DEF s
<1>7. ToSet(FlattenSeq(s)) = UNION {ToSet(s[i]) : i \in 1..n}
  BY <1>4, FlattenElements
<1>8. UNION {ToSet(s[i]) : i \in 1..n} = {c \in AllCalls : from < c.msg /\ c.msg <= cur}
  <2>1. ASSUME NEW c \in AllCalls, from < c.msg, c.msg <= cur
        PROVE  \E i \in 1..n : c \in ToSet(s[i])
    <3>1. c.msg - from \in 1..n /\ from + (c.msg - from) = c.msg
      BY <2>1 DEF AllCalls, Calls, n
    <3> QED
      BY <1>5, <3>1
  <2>2. ASSUME NEW i \in 1..n, NEW c \in ToSet(s[i])
        PROVE  c \in AllCalls /\ from < c.msg /\ c.msg <= cur
    <3>1. c \in AllCalls /\ c.msg = from + i
      BY <1>5
    <3> QED
      BY <1>1, <3>1 DEF n
  <2> QED
    BY <2>1, <2>2
<1>9. ASSUME NEW i \in 1..n, NEW j \in 1..n, i < j, NEW x \in ToSet(s[i]), NEW y \in ToSet(s[j])
      PROVE  <<x, y>> \in Order
  <2>1. x \in Calls /\ y \in Calls /\ x.msg = from + i /\ y.msg = from + j
    BY <1>5 DEF AllCalls
  <2> QED
    BY <1>1, <1>9, <2>1 DEF Order, Precedes
<1>10. RespectsOrder(FlattenSeq(s), Order)
  BY <1>4, <1>5, <1>9, FlattenSorted
<1> QED
  BY <1>3, <1>6, <1>7, <1>8, <1>10 DEF msgs

-----------------------------------------------------------------------------
(* What is passed stays passed.                                            *)

Grows ==
    /\ kind' = kind /\ reverting' = reverting
    /\ \A c \in Calls : (Executed(c) => Executed(c)') /\ (Passed(c) => Passed(c)')

LEMMA SameCalls ==
    ASSUME kind' = kind
    PROVE  AllCalls' = AllCalls
<1>1. \A m : NumCalls(m)' = NumCalls(m)
  BY DEF NumCalls, DepositCalls, WithdrawalCalls, ClaimCalls
<1> QED
  BY <1>1 DEF AllCalls

LEMMA GrowsBy ==
    ASSUME TypeInv, kind' = kind, reverting' = reverting, dropped \subseteq dropped',
           executed' = executed \/ \E c \in Calls : executed' = Append(executed, c)
    PROVE  Grows
<1>1. ToSet(executed) \subseteq ToSet(executed)'
  <2>1. CASE executed' = executed
    BY <2>1
  <2>2. CASE \E c \in Calls : executed' = Append(executed, c)
    <3>1. PICK c \in Calls : executed' = Append(executed, c)
      BY <2>2
    <3>2. executed \in Seq(Calls)
      BY DEF TypeInv
    <3>3. ToSet(Append(executed, c)) = ToSet(executed) \cup {c}
      BY <3>2, AppendElements
    <3> QED
      BY <3>1, <3>3
  <2> QED
    BY <2>1, <2>2
<1>2. \A c : Executed(c) => Executed(c)'
  BY <1>1 DEF Executed
<1> QED
  BY <1>2 DEF Grows, Passed

LEMMA GrowsAlong ==
    ASSUME Grows
    PROVE  /\ AllCalls' = AllCalls
           /\ \A m : PassedUpTo(m) => PassedUpTo(m)'
           /\ \A c : PassedBefore(c) => PassedBefore(c)'
<1>1. AllCalls' = AllCalls /\ AllCalls \subseteq Calls
  BY SameCalls DEF Grows, AllCalls
<1> QED
  BY <1>1 DEF Grows, PassedUpTo, PassedBefore

LEMMA TodoForward ==
    ASSUME Grows, NEW r \in Runs, TodoInv(r) PROVE TodoInv(r)'
<1>1. AllCalls' = AllCalls /\ AllCalls \subseteq Calls
  BY SameCalls DEF Grows, AllCalls
<1> QED
  BY <1>1 DEF Grows, TodoInv

LEMMA RunInvForward ==
    ASSUME Grows, NEW r \in Runs, NEW q \in Receipts, RunInv(r, q)
    PROVE  RunInv(r, q)'
<1>1. q # "none" => r.pc = "waiting" /\ r.todo # <<>> /\ r.todo \in Seq(Calls)
  BY DEF RunInv
<1>2. q # "none" => Head(r.todo) \in Calls
  BY <1>1
<1>3. /\ q = "success" => Executed(Head(r.todo))'
      /\ q = "failed" => Executed(Head(r.todo))' \/ Head(r.todo).msg \in reverting'
  BY <1>2 DEF RunInv, Grows
<1>4. kind' = kind
  BY DEF Grows
<1>5. TodoInv(r) => TodoInv(r)'
  BY TodoForward
<1>6. PassedUpTo(r.from) => PassedUpTo(r.from)'
  BY GrowsAlong
<1> QED
  BY <1>3, <1>4, <1>5, <1>6 DEF RunInv

\* A step of the environment.
LEMMA EnvironmentInd ==
    ASSUME IndInv, TypeInv', Grows, UNCHANGED <<job, receipt, cursor>>, PendingInv', ExecutedInv'
    PROVE  IndInv'
<1>1. ASSUME NEW j \in Jobs PROVE RunInv(job[j], receipt[j])'
  <2>1. job[j] \in Runs /\ receipt[j] \in Receipts /\ RunInv(job[j], receipt[j])
    BY DEF IndInv, TypeInv
  <2>2. \A r \in Runs, q \in Receipts : RunInv(r, q) => RunInv(r, q)'
    BY RunInvForward
  <2>3. \A x, y : x = job[j] /\ y = receipt[j] => RunInv(x, y)'
    BY <2>1, <2>2
  <2> QED
    BY <2>3 DEF RunInv
<1>2. CursorInv'
  BY GrowsAlong DEF IndInv, CursorInv, Grows
<1> QED
  BY <1>1, <1>2 DEF IndInv

\* Run j becomes r with receipt q.
LEMMA RunStepInd ==
    ASSUME IndInv, NEW j \in Jobs, NEW r \in Runs, NEW q \in Receipts,
           job' = [job EXCEPT ![j] = r], receipt' = [receipt EXCEPT ![j] = q], RunInv(r, q)',
           UNCHANGED chainVars, faults' \in {faults, faults + 1}, faults' <= MaxFaults,
           dropped \subseteq dropped', dropped' \subseteq 1..MaxMessages,
           pending' \in Txs \cup {None}, PendingInv',
           cursor' \in 0..MaxMessages, CursorInv'
    PROVE  IndInv'
<1> USE DEF chainVars
<1>1. TypeInv'
  <2>1. faults' \in 0..MaxFaults
    BY RelayAssumption DEF IndInv, TypeInv
  <2> QED
    BY <2>1 DEF IndInv, TypeInv
<1>2. Grows
  BY GrowsBy DEF IndInv
<1>3. ASSUME NEW i \in Jobs PROVE RunInv(job[i], receipt[i])'
  <2>1. job[i] \in Runs /\ receipt[i] \in Receipts /\ RunInv(job[i], receipt[i])
    BY DEF IndInv, TypeInv
  <2>2. CASE i = j
    <3>1. job'[i] = r /\ receipt'[i] = q
      BY <2>2 DEF IndInv, TypeInv
    <3> QED
      BY <3>1 DEF RunInv
  <2>3. CASE i # j
    <3>1. job'[i] = job[i] /\ receipt'[i] = receipt[i]
      BY <2>3 DEF IndInv, TypeInv
    <3>2. \A x \in Runs, y \in Receipts : RunInv(x, y) => RunInv(x, y)'
      BY <1>2, RunInvForward
    <3>3. \A x, y : x = job[i] /\ y = receipt[i] => RunInv(x, y)'
      BY <2>1, <3>2
    <3> QED
      BY <3>1, <3>3 DEF RunInv
  <2> QED
    BY <2>2, <2>3
<1>4. ExecutedInv'
  BY <1>2, GrowsAlong DEF IndInv, ExecutedInv
<1> QED
  BY <1>1, <1>3, <1>4 DEF IndInv

\* The transaction in the mempool is not the one run j waits for.
LEMMA PendingKept ==
    ASSUME IndInv, Grows, NEW j \in Jobs, NEW r \in Runs, NEW q \in Receipts,
           job' = [job EXCEPT ![j] = r], receipt' = [receipt EXCEPT ![j] = q],
           pending' = pending,
           job[j].pc # "waiting" \/ receipt[j] # "none" \/ (pending # None => pending.owner # j)
    PROVE  PendingInv'
<1>1. pending # None => pending.owner # j
  BY NoneAssumption DEF IndInv, PendingInv
<1>2. pending # None => pending.owner \in Jobs \cup {None}
  BY DEF IndInv, TypeInv, Txs
<1>3. pending # None /\ kind # "messenger" => (pending.call \in AllCalls /\ PassedBefore(pending.call))'
  BY GrowsAlong DEF IndInv, PendingInv, Grows
<1> QED
  BY <1>1, <1>2, <1>3 DEF IndInv, TypeInv, PendingInv, Grows

LEMMA PendingForgotten ==
    ASSUME IndInv, Grows, NEW j \in Jobs, NEW r \in Runs,
           job' = [job EXCEPT ![j] = r], Forget(j)
    PROVE  PendingInv' /\ pending' \in Txs \cup {None}
<1>1. pending # None => pending.owner \in Jobs \cup {None} /\ pending \in Txs
  BY DEF IndInv, TypeInv, Txs
<1>2. /\ pending' = None <=> pending = None
      /\ pending # None => /\ pending' \in Txs /\ pending'.call = pending.call
                           /\ pending'.owner = IF pending.owner = j THEN None ELSE pending.owner
  BY <1>1, NoneAssumption DEF Forget, Txs
<1>3. pending # None /\ kind # "messenger" => (pending.call \in AllCalls /\ PassedBefore(pending.call))'
  <2>1. \A c : pending # None /\ kind # "messenger" /\ c = pending.call => c \in AllCalls' /\ PassedBefore(c)'
    BY GrowsAlong DEF IndInv, PendingInv
  <2> QED
    BY <1>2, <2>1 DEF PassedBefore
<1> QED
  BY <1>1, <1>2, <1>3 DEF IndInv, TypeInv, PendingInv, Forget, Grows

-----------------------------------------------------------------------------
(* Steps of a run.                                                         *)

LEMMA IdleRun == Idle \in Runs /\ "none" \in Receipts /\ RunInv(Idle, "none") /\ RunInv(Idle, "none")'
<1>1. Idle \in Runs
  BY RelayAssumption DEF Idle, Runs, PCs, Types, MaxMessages
<1>2. Idle.pc = "idle" /\ Idle.todo = <<>>
  BY DEF Idle
<1> QED
  BY <1>1, <1>2 DEF RunInv, Receipts

\* A run in the loop over its calls.
LEMMA AtCall ==
    ASSUME IndInv, NEW j \in Jobs, job[j].pc \in {"submitting", "waiting"}
    PROVE  /\ job[j] \in Runs /\ job[j].todo \in Seq(Calls) /\ job[j].todo # <<>>
           /\ Call(j) = Head(job[j].todo) /\ Call(j) \in Calls
           /\ RunInv(job[j], receipt[j]) /\ receipt[j] \in Receipts
           /\ kind # "messenger" => TodoInv(job[j])
<1>1. job[j] \in Runs /\ receipt[j] \in Receipts /\ RunInv(job[j], receipt[j])
  BY DEF IndInv, TypeInv
<1>2. job[j].todo \in Seq(Calls) /\ job[j].todo # <<>>
  BY <1>1 DEF RunInv
<1> QED
  BY <1>1, <1>2 DEF RunInv, Call

\* What comes before the call of a run is passed.
LEMMA CallInOrder ==
    ASSUME IndInv, NEW j \in Jobs, job[j].pc \in {"submitting", "waiting"}, kind # "messenger"
    PROVE  Call(j) \in AllCalls /\ PassedBefore(Call(j))
<1> DEFINE todo == job[j].todo
           h == Head(todo)
<1>1. todo \in Seq(Calls) /\ todo # <<>> /\ TodoInv(job[j]) /\ Call(j) = h /\ h \in Calls
  BY AtCall
<1>2. /\ h \in ToSet(todo)
      /\ ToSet(todo) = {h} \cup ToSet(Tail(todo))
      /\ RespectsOrder(todo, Order) => \A x \in ToSet(Tail(todo)) : <<h, x>> \in Order
  BY <1>1, TailElements
<1>3. \A x \in ToSet(Tail(todo)) : <<h, x>> \in Order
  BY <1>1, <1>2 DEF TodoInv
<1>4. h \in AllCalls /\ h.msg <= job[j].cur
  BY <1>1, <1>2 DEF TodoInv
<1>5. ASSUME NEW c \in AllCalls, Precedes(c, h) PROVE Passed(c)
  <2>1. c \in Calls /\ h \in Calls /\ job[j].cur \in Nat
    BY <1>1, RelayAssumption, AtCall DEF AllCalls, Runs, MaxMessages
  <2>2. c.msg <= job[j].cur
    BY <1>4, <1>5, <2>1 DEF Precedes, Calls
  <2>3. ~ Precedes(h, c) /\ c # h
    BY <1>5, <2>1 DEF Precedes, Calls
  <2>4. c \notin ToSet(todo)
    BY <1>2, <1>3, <2>3 DEF Order
  <2> QED
    BY <1>1, <2>2, <2>4 DEF TodoInv
<1> QED
  BY <1>1, <1>4, <1>5 DEF PassedBefore

\* A run r that goes on as n, without its first call, which is passed.
LEMMA TodoTail ==
    ASSUME NEW r \in Runs, NEW n \in Runs, r.todo \in Seq(Calls), r.todo # <<>>,
           TodoInv(r)', Passed(Head(r.todo))', n.todo = Tail(r.todo), n.cur = r.cur
    PROVE  TodoInv(n)'
<1>1. /\ ToSet(r.todo) = {Head(r.todo)} \cup ToSet(n.todo)
      /\ RespectsOrder(r.todo, Order) => RespectsOrder(n.todo, Order)
  BY TailElements
<1>2. Order' = Order
  BY DEF Order, Precedes
<1> QED
  BY <1>1, <1>2 DEF TodoInv

\* A run that has come to another step of the loop.
Changed(run, pc, todo, attempt) == [run EXCEPT !.pc = pc, !.todo = todo, !.attempt = attempt]

LEMMA ChangedRun ==
    ASSUME NEW run \in Runs, NEW pc \in PCs, NEW todo \in Seq(Calls), NEW attempt \in 0..MaxAttempts - 1
    PROVE  /\ Changed(run, pc, todo, attempt) \in Runs
           /\ Changed(run, pc, todo, attempt).pc = pc
           /\ Changed(run, pc, todo, attempt).todo = todo
           /\ Changed(run, pc, todo, attempt).cur = run.cur
<1> DEFINE Todos == Seq(Calls) \cup Seq(1..MaxMessages)
           Attempts == 0..MaxAttempts - 1
           Froms == 0..MaxMessages
<1>1. todo \in Todos /\ attempt \in Attempts
  OBVIOUS
<1>2. Runs = [pc : PCs, from : Froms, cur : Froms, type : Types, page : Nat \ {0},
              todo : Todos, attempt : Attempts]
  BY DEF Runs
<1> HIDE DEF Todos, Attempts, Froms
<1> QED
  BY <1>1, <1>2 DEF Changed

LEMMA AdvanceRun ==
    ASSUME IndInv, Grows, NEW j \in Jobs, job[j].pc \in {"submitting", "waiting"}, Advance(j),
           \A c : c = Call(j) /\ kind # "messenger" => Passed(c)'
    PROVE  \E r \in Runs : RunInv(r, "none")' /\ job' = [job EXCEPT ![j] = r]
<1>1. PICK run \in Runs : run = job[j]
  BY AtCall
<1>2. /\ run.todo \in Seq(Calls) /\ run.todo # <<>> /\ Call(j) = Head(run.todo)
      /\ kind # "messenger" => TodoInv(run)
  BY <1>1, AtCall
<1> DEFINE rest == Tail(run.todo)
           next == [run EXCEPT !.pc = IF rest # <<>> THEN "submitting" ELSE "closing",
                               !.todo = rest, !.attempt = 0]
<1>3. rest \in Seq(Calls)
  BY <1>2, HeadTailProperties
<1>4. kind # "messenger" => TodoInv(run)' /\ Passed(Head(run.todo))'
  BY <1>2, TodoForward
<1> HIDE DEF rest
<1>5. /\ next \in Runs /\ next.pc = IF rest # <<>> THEN "submitting" ELSE "closing"
      /\ next.todo = rest /\ next.cur = run.cur
  <2> DEFINE goal == IF rest # <<>> THEN "submitting" ELSE "closing"
  <2>1. goal \in PCs /\ 0 \in 0..MaxAttempts - 1
    BY RelayAssumption DEF PCs
  <2>2. next = Changed(run, goal, rest, 0)
    BY DEF Changed
  <2> HIDE DEF next, goal
  <2>3. next \in Runs /\ next.pc = goal /\ next.todo = rest /\ next.cur = run.cur
    BY <1>3, <2>1, <2>2, ChangedRun
  <2> QED
    BY <2>3 DEF goal
<1>6. job' = [job EXCEPT ![j] = IF rest = <<>> /\ kind = "messenger" THEN Idle ELSE next]
  BY <1>1 DEF Advance, rest
<1> HIDE DEF next
<1>7. kind # "messenger" => TodoInv(next)'
  BY <1>2, <1>4, <1>5, TodoTail DEF rest
<1>8. CASE rest = <<>> /\ kind = "messenger"
  BY <1>6, <1>8, IdleRun
<1>9. CASE ~(rest = <<>> /\ kind = "messenger")
  <2>1. RunInv(next, "none")'
    BY <1>3, <1>5, <1>7, <1>9 DEF RunInv, Grows
  <2> QED
    BY <1>5, <1>6, <1>9, <2>1
<1> QED
  BY <1>8, <1>9

LEMMA RetryRun ==
    ASSUME IndInv, Grows, NEW j \in Jobs, job[j].pc \in {"submitting", "waiting"}, Retry(j)
    PROVE  \E r \in Runs : RunInv(r, "none")' /\ job' = [job EXCEPT ![j] = r]
<1>1. PICK run \in Runs : run = job[j]
  BY AtCall
<1> DEFINE next == [run EXCEPT !.pc = "submitting", !.attempt = run.attempt + 1]
<1>2. /\ run.todo \in Seq(Calls) /\ run.todo # <<>> /\ run.attempt \in 0..MaxAttempts - 1
      /\ kind # "messenger" => TodoInv(run)
  BY <1>1, AtCall DEF Runs
<1>3. CASE run.attempt + 1 = MaxAttempts
  BY <1>1, <1>3, IdleRun DEF Retry
<1>4. CASE run.attempt + 1 # MaxAttempts
  <2>1. /\ next \in Runs /\ next.pc = "submitting" /\ next.todo = run.todo /\ next.cur = run.cur
    <3>1. "submitting" \in PCs /\ run.attempt + 1 \in 0..MaxAttempts - 1
      BY <1>2, <1>4, RelayAssumption DEF PCs
    <3>2. next = Changed(run, "submitting", run.todo, run.attempt + 1)
      BY DEF Runs, Changed
    <3> HIDE DEF next
    <3> QED
      BY <1>2, <3>1, <3>2, ChangedRun
  <2>2. job' = [job EXCEPT ![j] = next]
    BY <1>1, <1>4 DEF Retry
  <2> HIDE DEF next
  <2>3. kind # "messenger" => TodoInv(next)
    BY <1>2, <2>1 DEF TodoInv
  <2>4. kind # "messenger" => TodoInv(next)'
    BY <2>1, <2>3, TodoForward
  <2>5. RunInv(next, "none")'
    BY <1>2, <2>1, <2>4 DEF RunInv, Grows
  <2> QED
    BY <2>1, <2>2, <2>5
<1> QED
  BY <1>3, <1>4

\* The call cannot be made: only without decoding the run goes on.
LEMMA RefuseRun ==
    ASSUME IndInv, Grows, NEW j \in Jobs, job[j].pc \in {"submitting", "waiting"}, Refuse(j),
           \A c : c = Call(j) /\ kind = "undecoded" => Passed(c)'
    PROVE  \E r \in Runs : RunInv(r, "none")' /\ job' = [job EXCEPT ![j] = r]
<1>1. \/ job' = [job EXCEPT ![j] = Idle]
      \/ kind = "undecoded" /\ Advance(j)
  BY DEF Refuse, RefuseToL1, RefuseToL2, RefuseClaim, PassesOver
<1> QED
  BY <1>1, IdleRun, AdvanceRun

\* A step of run j that touches nothing but its own record.
LEMMA QuietRunInd ==
    ASSUME IndInv, NEW j \in Jobs, UNCHANGED <<chainVars, pending, cursor, faults, dropped>>,
           receipt' = [receipt EXCEPT ![j] = "none"],
           \E r \in Runs : RunInv(r, "none")' /\ job' = [job EXCEPT ![j] = r],
           job[j].pc # "waiting" \/ receipt[j] # "none" \/ (pending # None => pending.owner # j)
    PROVE  IndInv'
<1>1. PICK r \in Runs : RunInv(r, "none")' /\ job' = [job EXCEPT ![j] = r]
  OBVIOUS
<1>2. Grows
  BY GrowsBy DEF IndInv, chainVars
<1>3. "none" \in Receipts
  BY DEF Receipts
<1>4. PendingInv'
  BY <1>1, <1>2, <1>3, PendingKept
<1>5. CursorInv'
  BY <1>2, GrowsAlong DEF IndInv, CursorInv, Grows
<1>6. /\ faults' <= MaxFaults /\ dropped' \subseteq 1..MaxMessages
      /\ pending' \in Txs \cup {None} /\ cursor' \in 0..MaxMessages
  BY RelayAssumption DEF IndInv, TypeInv
<1> QED
  BY <1>1, <1>3, <1>4, <1>5, <1>6, RunStepInd

\* A step of run j with a fault.
LEMMA FaultRunInd ==
    ASSUME IndInv, NEW j \in Jobs, UNCHANGED <<chainVars, cursor>>,
           faults < MaxFaults, faults' = faults + 1, Forget(j),
           dropped \subseteq dropped', dropped' \subseteq 1..MaxMessages,
           \E r \in Runs : RunInv(r, "none")' /\ job' = [job EXCEPT ![j] = r]
    PROVE  IndInv'
<1>1. PICK r \in Runs : RunInv(r, "none")' /\ job' = [job EXCEPT ![j] = r]
  OBVIOUS
<1>2. Grows
  BY GrowsBy DEF IndInv, chainVars
<1>3. "none" \in Receipts /\ receipt' = [receipt EXCEPT ![j] = "none"]
  BY DEF Receipts, Forget
<1>4. PendingInv' /\ pending' \in Txs \cup {None}
  BY <1>1, <1>2, PendingForgotten
<1>5. CursorInv'
  BY <1>2, GrowsAlong DEF IndInv, CursorInv, Grows
<1>6. faults' <= MaxFaults /\ cursor' \in 0..MaxMessages
  BY RelayAssumption DEF IndInv, TypeInv
<1> QED
  BY <1>1, <1>3, <1>4, <1>5, <1>6, RunStepInd

-----------------------------------------------------------------------------
(* The environment.                                                        *)

\* What a step that leaves the calls, the wallet and the runs alone keeps.
LEMMA KeepsOthers ==
    ASSUME IndInv, Grows
    PROVE  /\ UNCHANGED <<pending, job, receipt>> => PendingInv'
           /\ UNCHANGED executed => ExecutedInv'
<1>1. ASSUME UNCHANGED <<pending, job, receipt>> PROVE PendingInv'
  <2>1. \A c : pending # None /\ kind # "messenger" /\ c = pending.call => c \in AllCalls' /\ PassedBefore(c)'
    BY GrowsAlong DEF IndInv, PendingInv
  <2>2. pending # None /\ kind # "messenger" => (pending.call \in AllCalls /\ PassedBefore(pending.call))'
    BY <1>1, <2>1 DEF PassedBefore
  <2> QED
    BY <1>1, <2>2 DEF IndInv, PendingInv, Grows
<1>2. ASSUME UNCHANGED executed PROVE ExecutedInv'
  BY <1>2, GrowsAlong DEF IndInv, ExecutedInv, Grows
<1> QED
  BY <1>1, <1>2

LEMMA SendMessageInd == ASSUME IndInv, SendMessage PROVE IndInv'
<1>1. Grows
  BY GrowsBy DEF IndInv, SendMessage
<1>2. TypeInv'
  <2>1. sent' \in 0..MaxMessages
    BY RelayAssumption DEF IndInv, TypeInv, SendMessage, MaxMessages
  <2> QED
    BY <2>1 DEF IndInv, TypeInv, SendMessage
<1> QED
  BY <1>1, <1>2, KeepsOthers, EnvironmentInd DEF SendMessage

LEMMA IndexInd == ASSUME IndInv, Index PROVE IndInv'
<1>1. Grows
  BY GrowsBy DEF IndInv, Index
<1>2. TypeInv'
  <2>1. indexed' \in 0..Len(executed')
    BY LenProperties DEF IndInv, TypeInv, Index
  <2> QED
    BY <2>1 DEF IndInv, TypeInv, Index
<1> QED
  BY <1>1, <1>2, KeepsOthers, EnvironmentInd DEF Index

\* One more call is executed.
LEMMA ExecuteType ==
    ASSUME TypeInv, NEW c \in Calls, executed' = Append(executed, c)
    PROVE  /\ executed' \in Seq(Calls)
           /\ indexed \in 0..Len(executed')
           /\ ToSet(executed') = ToSet(executed) \cup {c}
<1>1. executed \in Seq(Calls) /\ indexed \in 0..Len(executed) /\ Len(executed) \in Nat
  BY LenProperties DEF TypeInv
<1>2. Append(executed, c) \in Seq(Calls) /\ Len(Append(executed, c)) = Len(executed) + 1
  BY <1>1, AppendProperties
<1>3. indexed \in 0..Len(executed) + 1
  BY <1>1
<1> QED
  BY <1>1, <1>2, <1>3, AppendElements

LEMMA DeliverInd == ASSUME IndInv, NEW m \in 1..MaxMessages, Deliver(m) PROVE IndInv'
<1> DEFINE c == [msg |-> m, k |-> 1]
<1>1. c \in Calls
  BY DEF Calls
<1>2. executed' = Append(executed, c) /\ kind = "messenger"
  BY DEF Deliver
<1> HIDE DEF c
<1>3. Grows
  BY <1>1, <1>2, GrowsBy DEF IndInv, Deliver
<1>4. TypeInv'
  <2>1. executed' \in Seq(Calls) /\ indexed \in 0..Len(executed')
    BY <1>1, <1>2, ExecuteType DEF IndInv
  <2> QED
    BY <2>1 DEF IndInv, TypeInv, Deliver
<1>5. ExecutedInv'
  BY <1>2 DEF ExecutedInv, Deliver
<1> QED
  BY <1>3, <1>4, <1>5, KeepsOthers, EnvironmentInd DEF Deliver

\* The owner of the transaction gets its receipt.
LEMMA MineInd == ASSUME IndInv, Mine PROVE IndInv'
<1>1. PICK tx \in Txs : tx = pending
  BY DEF IndInv, TypeInv, Mine
<1>2. tx.call \in Calls
  BY DEF Txs
<1> DEFINE ok == Succeeds(tx.call)
           q == IF ok THEN "success" ELSE "failed"
<1>3. executed' = IF ok THEN Append(executed, tx.call) ELSE executed
  BY <1>1 DEF Mine
<1>4. receipt' = [j \in Jobs |-> IF j # tx.owner THEN receipt[j] ELSE q]
  BY <1>1 DEF Mine
<1>5. UNCHANGED <<kind, typeOf, reverting, sent, indexed, cursor, job, faults, dropped>>
      /\ pending' = None
  BY DEF Mine
<1>6. ok \/ Executed(tx.call) \/ tx.call.msg \in reverting
  BY DEF Succeeds
<1> HIDE DEF ok
<1>7. Grows
  BY <1>2, <1>3, <1>5, GrowsBy DEF IndInv
<1>8. ok => ToSet(executed') = ToSet(executed) \cup {tx.call}
  BY <1>2, <1>3, ExecuteType DEF IndInv
<1>9. TypeInv'
  <2>1. executed' \in Seq(Calls) /\ indexed \in 0..Len(executed')
    BY <1>2, <1>3, ExecuteType DEF IndInv, TypeInv
  <2>2. receipt' \in [Jobs -> Receipts]
    BY <1>4 DEF IndInv, TypeInv, Receipts
  <2> QED
    BY <1>5, <2>1, <2>2 DEF IndInv, TypeInv
<1>10. ASSUME NEW j \in Jobs PROVE RunInv(job[j], receipt[j])'
  <2>1. PICK r \in Runs : r = job[j]
    BY DEF IndInv, TypeInv
  <2>2. receipt[j] \in Receipts /\ RunInv(r, receipt[j])
    BY <2>1 DEF IndInv, TypeInv
  <2>3. CASE j # tx.owner
    <3>1. receipt'[j] = receipt[j] /\ job'[j] = r
      BY <1>4, <1>5, <2>1, <2>3
    <3>2. \A y \in Receipts : RunInv(r, y) => RunInv(r, y)'
      BY <1>7, RunInvForward
    <3>3. \A y : y = receipt[j] => RunInv(r, y)'
      BY <2>2, <3>2
    <3> QED
      BY <3>1, <3>3 DEF RunInv
  <2>4. CASE j = tx.owner
    <3>1. r.pc = "waiting" /\ tx.call = Head(r.todo) /\ receipt[j] = "none"
      BY <1>1, <2>1, <2>4, NoneAssumption DEF IndInv, PendingInv, Mine
    <3>2. PICK y \in {"success", "failed"} : y = q
      OBVIOUS
    <3>3. receipt'[j] = y /\ job'[j] = r
      BY <1>4, <1>5, <2>1, <2>4, <3>2
    <3>4. RunInv(r, "none")'
      <4>1. "none" \in Receipts /\ RunInv(r, "none")
        BY <2>2, <3>1 DEF Receipts
      <4> QED
        BY <1>7, <4>1, RunInvForward
    <3>5. y = "success" => tx.call \in ToSet(executed')
      BY <1>8, <3>2
    <3>6. y = "failed" => tx.call \in ToSet(executed') \/ tx.call.msg \in reverting'
      <4>1. \A c \in Calls : Executed(c) => c \in ToSet(executed')
        BY <1>7 DEF Grows, Executed
      <4> QED
        BY <1>2, <1>5, <1>6, <3>2, <4>1
    <3>7. RunInv(r, y)'
      BY <1>5, <3>1, <3>4, <3>5, <3>6 DEF RunInv, Executed
    <3> QED
      BY <3>3, <3>7 DEF RunInv
  <2> QED
    BY <2>3, <2>4
<1>11. PendingInv'
  BY <1>5 DEF PendingInv
<1>12. CursorInv'
  BY <1>5, <1>7, GrowsAlong DEF IndInv, CursorInv
<1>13. ExecutedInv'
  <2> SUFFICES ASSUME kind \in {"decoded", "l2"}, NEW e \in ToSet(executed')
               PROVE  e \in AllCalls' /\ PassedBefore(e)'
    BY <1>5 DEF ExecutedInv
  <2>1. e \in ToSet(executed) \/ e = tx.call
    BY <1>3, <1>8
  <2>2. e \in AllCalls /\ PassedBefore(e)
    BY <1>1, <2>1 DEF IndInv, ExecutedInv, PendingInv, Mine
  <2> QED
    BY <1>7, <2>2, GrowsAlong
<1> QED
  BY <1>9, <1>10, <1>11, <1>12, <1>13 DEF IndInv

-----------------------------------------------------------------------------
(* What a run has to relay.                                                *)

LEMMA NoReceipt ==
    ASSUME IndInv, NEW j \in Jobs, job[j].pc # "waiting"
    PROVE  receipt[j] = "none" /\ receipt = [receipt EXCEPT ![j] = "none"]
<1>1. receipt \in [Jobs -> Receipts] /\ RunInv(job[j], receipt[j])
  BY DEF IndInv, TypeInv
<1>2. receipt[j] = "none"
  BY <1>1 DEF RunInv
<1> QED
  BY <1>1, <1>2

\* A step of run j that waits for nothing, and only reads.
LEMMA ReadInd ==
    ASSUME IndInv, NEW j \in Jobs, job[j].pc # "waiting",
           UNCHANGED <<chainVars, pending, cursor, receipt, faults, dropped>>,
           \E r \in Runs : RunInv(r, "none")' /\ job' = [job EXCEPT ![j] = r]
    PROVE  IndInv'
<1>1. receipt' = [receipt EXCEPT ![j] = "none"]
  BY NoReceipt
<1> QED
  BY <1>1, QuietRunInd

LEMMA ReadHeadInd == ASSUME IndInv, NEW j \in Jobs, ReadHead(j) PROVE IndInv'
<1>1. PICK b \in Heads : job' = [job EXCEPT ![j] = [Idle EXCEPT !.pc = "head", !.cur = b]]
  BY DEF ReadHead
<1> DEFINE r == [Idle EXCEPT !.pc = "head", !.cur = b]
<1>2. b \in 0..MaxMessages
  BY RelayAssumption DEF Heads, IndInv, TypeInv, MaxMessages
<1>3. r \in Runs /\ r.pc = "head" /\ r.todo = <<>>
  <2>1. Idle \in Runs /\ Idle.todo = <<>>
    BY IdleRun DEF Idle
  <2>2. "head" \in PCs
    BY DEF PCs
  <2> QED
    BY <1>2, <2>1, <2>2 DEF Runs
<1> HIDE DEF r
<1>4. RunInv(r, "none")'
  BY <1>3 DEF RunInv, ReadHead, CursorKinds, chainVars
<1> QED
  BY <1>1, <1>3, <1>4, ReadInd DEF ReadHead, r

LEMMA ReadCursorInd == ASSUME IndInv, NEW j \in Jobs, ReadCursor(j) PROVE IndInv'
<1>1. PICK m \in 0..MaxMessages : m = cursor
  BY DEF IndInv, TypeInv
<1> DEFINE r == [Idle EXCEPT !.pc = "cursor", !.from = m]
<1>2. r \in Runs /\ r.pc = "cursor" /\ r.from = m /\ r.todo = <<>>
  <2>1. Idle \in Runs /\ Idle.todo = <<>>
    BY IdleRun DEF Idle
  <2>2. "cursor" \in PCs
    BY DEF PCs
  <2> QED
    BY <2>1, <2>2 DEF Runs
<1>3. Grows
  BY GrowsBy DEF IndInv, ReadCursor, chainVars
<1>4. PassedUpTo(m)'
  BY <1>1, <1>3, GrowsAlong DEF IndInv, CursorInv, ReadCursor
<1>5. job' = [job EXCEPT ![j] = r]
  BY <1>1 DEF ReadCursor
<1> HIDE DEF r
<1>6. RunInv(r, "none")'
  BY <1>2, <1>4 DEF RunInv, ReadCursor, chainVars
<1> QED
  BY <1>2, <1>5, <1>6, ReadInd DEF ReadCursor

LEMMA StartPagingInd == ASSUME IndInv, NEW j \in Jobs, NEW type \in Types, StartPaging(j, type) PROVE IndInv'
<1> DEFINE r == [Idle EXCEPT !.pc = "paging", !.type = type]
<1>1. r \in Runs /\ r.pc = "paging" /\ r.todo = <<>>
  <2>1. Idle \in Runs /\ Idle.todo = <<>>
    BY IdleRun DEF Idle
  <2>2. "paging" \in PCs
    BY DEF PCs
  <2> QED
    BY <2>1, <2>2 DEF Runs
<1>2. job' = [job EXCEPT ![j] = r]
  BY DEF StartPaging
<1> HIDE DEF r
<1>3. RunInv(r, "none")'
  BY <1>1 DEF RunInv, StartPaging, chainVars
<1> QED
  BY <1>1, <1>2, <1>3, ReadInd DEF StartPaging

\* A run without calls begins with those of a list of messages.
LEMMA BeginRun ==
    ASSUME NEW run \in Runs, run.todo = <<>>, NEW msgs \in Seq(1..MaxMessages)
    PROVE  LET todo == CallsOfAll(msgs)
               next == Begin(run, msgs)
           IN  /\ todo \in Seq(Calls) /\ next \in Runs
               /\ todo = <<>> /\ kind = "messenger" => next = Idle
               /\ ~(todo = <<>> /\ kind = "messenger") =>
                    /\ next.pc = IF todo # <<>> THEN "submitting" ELSE "closing"
                    /\ next.todo = todo /\ next.cur = run.cur
<1> DEFINE todo == CallsOfAll(msgs)
           goal == IF todo # <<>> THEN "submitting" ELSE "closing"
           next == Changed(run, goal, todo, run.attempt)
<1>1. todo \in Seq(Calls)
  BY CallsOfAllType
<1>2. Begin(run, msgs) = IF todo # <<>> THEN [run EXCEPT !.pc = "submitting", !.todo = todo]
                         ELSE IF kind = "messenger" THEN Idle ELSE [run EXCEPT !.pc = "closing"]
  BY DEF Begin, CallsOfAll
<1> HIDE DEF todo
<1>3. Begin(run, msgs) = IF todo = <<>> /\ kind = "messenger" THEN Idle ELSE next
  BY <1>2 DEF Changed, Runs
<1>4. goal \in PCs /\ run.attempt \in 0..MaxAttempts - 1
  BY DEF PCs, Runs
<1> HIDE DEF goal, next
<1>5. next \in Runs /\ next.pc = goal /\ next.todo = todo /\ next.cur = run.cur
  BY <1>1, <1>4, ChangedRun DEF next
<1> QED
  BY <1>1, <1>3, <1>5, IdleRun DEF todo, goal

\* A run with a cursor begins with the calls of a range.
LEMMA FetchRun ==
    ASSUME IndInv, Grows, NEW j \in Jobs, job[j].pc \in {"head", "cursor"},
           NEW from \in 0..MaxMessages, NEW cur \in 0..MaxMessages, PassedUpTo(from),
           Fetch(j, from, cur)
    PROVE  \E r \in Runs : RunInv(r, "none")' /\ job' = [job EXCEPT ![j] = r]
<1>1. PICK run \in Runs : run = job[j]
  BY DEF IndInv, TypeInv
<1>2. run.todo = <<>> /\ kind # "messenger"
  BY <1>1 DEF IndInv, RunInv
<1> DEFINE base == [run EXCEPT !.from = 0, !.cur = cur]
           msgs == Logs(from, cur)
           todo == CallsOfAll(msgs)
<1>3. base \in Runs /\ base.todo = <<>> /\ base.cur = cur
  <2>1. 0 \in 0..MaxMessages
    BY RelayAssumption DEF MaxMessages
  <2> QED
    BY <1>2, <2>1 DEF Runs
<1>4. CASE job' = [job EXCEPT ![j] = Idle]
  BY <1>4, IdleRun
<1>5. CASE from <= cur /\ job' = [job EXCEPT ![j] = Begin(base, msgs)]
  <2> HIDE DEF base
  <2>1. /\ msgs \in Seq(1..MaxMessages)
        /\ ToSet(todo) = {c \in AllCalls : from < c.msg /\ c.msg <= cur}
        /\ RespectsOrder(todo, Order)
    BY <1>5, CallsOfLogs
  <2> HIDE DEF msgs
  <2>2. PICK next \in Runs : next = Begin(base, msgs)
    BY <1>3, <2>1, BeginRun
  <2>3. /\ todo \in Seq(Calls) /\ next.todo = todo /\ next.cur = cur
        /\ next.pc = IF todo # <<>> THEN "submitting" ELSE "closing"
    BY <1>2, <1>3, <2>1, <2>2, BeginRun
  <2> HIDE DEF todo
  <2>4. ASSUME NEW c \in AllCalls, c.msg <= cur PROVE Passed(c) \/ c \in ToSet(todo)
    <3>1. c.msg \in Int
      BY DEF AllCalls, Calls
    <3> QED
      BY <2>1, <2>4, <3>1 DEF PassedUpTo
  <2>5. TodoInv(next)
    BY <2>1, <2>3, <2>4 DEF TodoInv
  <2>6. TodoInv(next)'
    BY <2>5, TodoForward
  <2>7. RunInv(next, "none")'
    BY <1>2, <2>3, <2>6 DEF RunInv, Grows
  <2> QED
    BY <1>5, <2>2, <2>7
<1>6. job' = [job EXCEPT ![j] = Idle] \/ (from <= cur /\ job' = [job EXCEPT ![j] = Begin(base, msgs)])
  BY <1>1 DEF Fetch, IndInv, TypeInv
<1> QED
  BY <1>4, <1>5, <1>6

LEMMA StartInd == ASSUME IndInv, NEW j \in Jobs, StartL1ToL2(j) \/ StartL2ToL1(j) PROVE IndInv'
<1>1. UNCHANGED <<chainVars, pending, cursor, receipt, faults, dropped>> /\ job[j].pc \in {"head", "cursor"}
  BY DEF StartL1ToL2, StartL2ToL1
<1>2. Grows
  BY <1>1, GrowsBy DEF IndInv, chainVars
<1>3. RunInv(job[j], receipt[j]) /\ job[j] \in Runs /\ cursor \in 0..MaxMessages
  BY DEF IndInv, TypeInv
<1>4. kind # "messenger" /\ (job[j].pc = "cursor" => PassedUpTo(job[j].from)) /\ PassedUpTo(cursor)
  BY <1>1, <1>3 DEF RunInv, IndInv, CursorInv
<1>5. job[j].cur \in 0..MaxMessages /\ job[j].from \in 0..MaxMessages /\ Heads \subseteq 0..MaxMessages
  BY <1>3, RelayAssumption DEF Runs, Heads, IndInv, TypeInv, MaxMessages
<1>6. \E from \in 0..MaxMessages, cur \in 0..MaxMessages : PassedUpTo(from) /\ Fetch(j, from, cur)
  BY <1>3, <1>4, <1>5 DEF StartL1ToL2, StartL2ToL1
<1>7. \E r \in Runs : RunInv(r, "none")' /\ job' = [job EXCEPT ![j] = r]
  BY <1>1, <1>2, <1>6, FetchRun
<1> QED
  BY <1>1, <1>7, ReadInd

\* The list of the Scroll API is one of messages.
Claimable(m, type) == typeOf[m] = type /\ [msg |-> m, k |-> 1] \notin ToSet(SubSeq(executed, 1, indexed))
Own(m, type) == IF Claimable(m, type) THEN <<m>> ELSE <<>>
IsListing(f, type) == f = [m \in 0..sent |-> IF m = 0 THEN <<>> ELSE Own(m, type) \o f[m-1]]

LEMMA ListedType == ASSUME TypeInv, NEW type PROVE Listed(type) \in Seq(1..MaxMessages)
<1>1. Listed(type) = (CHOOSE f : IsListing(f, type))[sent]
  BY DEF Listed, IsListing, Own, Claimable
<1> DEFINE own == [m \in 1..sent |-> Own(m, type)]
           S == Seq(1..MaxMessages)
           step == [m \in 1..sent |-> [x \in S |-> own[m] \o x]]
<1>2. sent \in Nat /\ <<>> \in S
  BY RelayAssumption DEF TypeInv, MaxMessages
<1>3. \A m \in 1..sent : own[m] = Own(m, type) /\ own[m] \in S
  <2>1. TAKE m \in 1..sent
  <2>2. m \in 1..MaxMessages
    BY RelayAssumption DEF TypeInv, MaxMessages
  <2>3. <<m>> \in S
    BY <2>2
  <2>4. own[m] = Own(m, type)
    OBVIOUS
  <2> HIDE DEF S, own
  <2> QED
    BY <1>2, <2>3, <2>4 DEF Own
<1> HIDE DEF own
<1>4. \A m \in 1..sent, x \in S : own[m] \o x \in S
  BY <1>3, ConcatProperties
<1> HIDE DEF S
<1>5. PICK f : IsUnfolding(f, sent, <<>>, step)
  BY <1>2, UnfoldingExists
<1>6. \A m \in 1..sent : f[m-1] \in S => f[m] = own[m] \o f[m-1]
  BY <1>5 DEF IsUnfolding
<1>7. f[0] = <<>> /\ f = [m \in 0..sent |-> f[m]]
  BY <1>5 DEF IsUnfolding
<1> HIDE DEF step
<1>8. \A m \in 0..sent : f[m] \in S
  <2> DEFINE Good == {m \in 0..sent : f[m] \in S}
  <2>1. 0 \in Good
    BY <1>2, <1>7
  <2>2. ASSUME NEW m \in 1..sent, m - 1 \in Good PROVE m \in Good
    <3>1. f[m-1] \in S /\ m \in 0..sent
      BY <1>2, <2>2
    <3>2. f[m] = own[m] \o f[m-1]
      BY <1>6, <3>1
    <3>3. f[m] \in S
      BY <1>4, <3>1, <3>2
    <3> QED
      BY <3>1, <3>3
  <2> HIDE DEF Good
  <2>3. \A m \in 0..sent : m \in Good
    BY <1>2, <2>1, <2>2, SetInduction
  <2> QED
    BY <2>3 DEF Good
<1>9. IsListing(f, type)
  <2>1. ASSUME NEW m \in 0..sent, m # 0 PROVE f[m] = Own(m, type) \o f[m-1]
    <3>1. m \in 1..sent /\ m - 1 \in 0..sent
      BY <1>2, <2>1
    <3> QED
      BY <1>3, <1>6, <1>8, <3>1
  <2> QED
    BY <1>7, <2>1 DEF IsListing
<1> DEFINE g == CHOOSE h : IsListing(h, type)
<1>10. IsListing(g, type)
  BY <1>9
<1> HIDE DEF g
<1>11. \A m \in 0..sent : g[m] \in S
  <2> DEFINE Good == {m \in 0..sent : g[m] \in S}
  <2>1. 0 \in Good
    BY <1>2, <1>10 DEF IsListing
  <2>2. ASSUME NEW m \in 1..sent, m - 1 \in Good PROVE m \in Good
    <3>1. m \in 0..sent /\ m # 0
      BY <1>2
    <3>2. g[m] = own[m] \o g[m-1]
      BY <1>3, <1>10, <3>1 DEF IsListing
    <3>3. g[m-1] \in S
      BY <2>2
    <3> QED
      BY <1>4, <3>1, <3>2, <3>3
  <2> HIDE DEF Good
  <2>3. \A m \in 0..sent : m \in Good
    BY <1>2, <2>1, <2>2, SetInduction
  <2> QED
    BY <2>3 DEF Good
<1>12. g[sent] \in S
  BY <1>2, <1>11
<1> QED
  BY <1>1, <1>12 DEF g, S

LEMMA FetchPageInd == ASSUME IndInv, NEW j \in Jobs, FetchPage(j) PROVE IndInv'
<1>1. PICK run \in Runs : run = job[j]
  BY DEF IndInv, TypeInv
<1>2. run.pc = "paging" /\ kind = "messenger" /\ run.todo \in Seq(1..MaxMessages) /\ run.page \in Nat \ {0}
  BY <1>1 DEF IndInv, RunInv, FetchPage, Runs
<1> DEFINE list == Listed(run.type)
           upTo == run.page * PageSize
           slice == SubSeq(list, upTo - PageSize + 1, Min({upTo, Len(list)}))
           found == run.todo \o slice
<1>3. \/ job' = [job EXCEPT ![j] = Idle]
      \/ job' = [job EXCEPT ![j] = [run EXCEPT !.todo = found, !.page = run.page + 1]]
      \/ job' = [job EXCEPT ![j] = Begin([run EXCEPT !.todo = <<>>, !.page = 1], found)]
  BY <1>1 DEF FetchPage
<1>4. slice \in Seq(1..MaxMessages)
  <2>1. list \in Seq(1..MaxMessages) /\ Len(list) \in Nat
    BY ListedType, LenProperties DEF IndInv
  <2>2. \A i \in 1..Len(list) : list[i] \in 1..MaxMessages
    BY <2>1, ElementOfSeq
  <2> HIDE DEF list
  <2>3. upTo \in Nat /\ upTo - PageSize + 1 \in Nat \ {0}
    <3>1. \A a \in Nat, b \in Nat \ {0} : (a + 1) * b = a * b + b /\ a * b \in Nat
      OBVIOUS
    <3>2. PICK a \in Nat : run.page = a + 1
      <4>1. run.page - 1 \in Nat /\ run.page = (run.page - 1) + 1
        BY <1>2
      <4> QED
        BY <4>1
    <3>3. a * PageSize \in Nat /\ upTo = a * PageSize + PageSize
      BY <3>1, <3>2, RelayAssumption
    <3> DEFINE b == a * PageSize
    <3> HIDE DEF b, upTo
    <3>4. b \in Nat /\ upTo = b + PageSize
      BY <3>3 DEF b
    <3> QED
      BY <3>4, RelayAssumption
  <2>4. Min({upTo, Len(list)}) \in Nat /\ Min({upTo, Len(list)}) <= Len(list)
    <3>1. {upTo, Len(list)} \subseteq Nat /\ {upTo, Len(list)} # {}
      BY <2>1, <2>3
    <3> QED
      BY <3>1, MinIsSmallest
  <2> DEFINE from == upTo - PageSize + 1
             to == Min({upTo, Len(list)})
  <2> HIDE DEF from, to, upTo
  <2>5. from \in Nat \ {0} /\ to \in Nat /\ to <= Len(list)
    BY <2>3, <2>4 DEF from, to
  <2>6. \A i \in from..to : list[i] \in 1..MaxMessages
    BY <2>1, <2>2, <2>5
  <2>7. SubSeq(list, from, to) \in Seq(1..MaxMessages)
    BY <2>5, <2>6, SubSeqProperties
  <2> QED
    BY <2>7 DEF from, to
<1> HIDE DEF slice
<1>5. found \in Seq(1..MaxMessages)
  BY <1>2, <1>4, ConcatProperties
<1> HIDE DEF found, list, upTo
<1>6. PICK msgs \in Seq(1..MaxMessages) : msgs = found
  BY <1>5
<1>7. UNCHANGED <<chainVars, pending, cursor, receipt, faults, dropped>> /\ kind' = "messenger"
  BY <1>2 DEF FetchPage, chainVars
<1> DEFINE further == [run EXCEPT !.todo = msgs, !.page = run.page + 1]
           base == [run EXCEPT !.todo = <<>>, !.page = 1]
           Todos == Seq(Calls) \cup Seq(1..MaxMessages)
<1>8. further \in Runs /\ further.pc = "paging" /\ further.todo = msgs /\ base \in Runs /\ base.todo = <<>>
  <2>1. msgs \in Todos /\ <<>> \in Todos /\ run.page + 1 \in Nat \ {0} /\ 1 \in Nat \ {0}
    BY <1>2
  <2>2. Runs = [pc : PCs, from : 0..MaxMessages, cur : 0..MaxMessages, type : Types, page : Nat \ {0},
                todo : Todos, attempt : 0..MaxAttempts - 1]
    BY DEF Runs
  <2> HIDE DEF Todos
  <2> QED
    BY <1>2, <2>1, <2>2
<1>9. PICK next \in Runs : next = Begin(base, msgs)
  <2> HIDE DEF base
  <2> QED
    BY <1>8, BeginRun
<1>10. next = Idle \/ (next.pc = "submitting" /\ next.todo # <<>> /\ next.todo \in Seq(Calls))
  <2> HIDE DEF base
  <2> QED
    BY <1>2, <1>8, <1>9, BeginRun
<1>11. job' = [job EXCEPT ![j] = Idle] \/ job' = [job EXCEPT ![j] = further] \/ job' = [job EXCEPT ![j] = next]
  BY <1>3, <1>6, <1>9
<1> HIDE DEF further, base
<1>12. RunInv(Idle, "none")' /\ Idle \in Runs
  BY IdleRun
<1>13. RunInv(further, "none")'
  BY <1>7, <1>8 DEF RunInv
<1>14. RunInv(next, "none")'
  BY <1>7, <1>10, <1>12 DEF RunInv
<1>15. \E r \in Runs : RunInv(r, "none")' /\ job' = [job EXCEPT ![j] = r]
  BY <1>8, <1>9, <1>11, <1>12, <1>13, <1>14
<1> QED
  BY <1>1, <1>2, <1>7, <1>15, ReadInd

-----------------------------------------------------------------------------
(* The loop over the calls.                                                *)

LEMMA SendInd ==
    ASSUME IndInv, NEW j \in Jobs, Send(j)
    PROVE  IndInv'
<1> USE DEF Send
<1>1. PICK run \in Runs : run = job[j]
  BY DEF IndInv, TypeInv
<1>2. PICK c \in Calls : c = Call(j)
  BY AtCall
<1>3. /\ run.todo \in Seq(Calls) /\ run.todo # <<>> /\ c = Head(run.todo)
      /\ kind # "messenger" => TodoInv(run)
  BY <1>1, <1>2, AtCall
<1> DEFINE next == Changed(run, "waiting", run.todo, run.attempt)
<1>4. next \in Runs /\ next.pc = "waiting" /\ next.todo = run.todo /\ next.cur = run.cur
  <2>1. "waiting" \in PCs /\ run.attempt \in 0..MaxAttempts - 1
    BY DEF PCs, Runs
  <2> QED
    BY <1>3, <2>1, ChangedRun
<1>5. job' = [job EXCEPT ![j] = next]
  BY <1>1 DEF Changed, Runs, IndInv, TypeInv
<1> HIDE DEF next
<1>6. Grows
  BY GrowsBy DEF IndInv, chainVars
<1>7. receipt[j] = "none" /\ receipt' = [receipt EXCEPT ![j] = "none"] /\ "none" \in Receipts
  BY NoReceipt DEF Receipts
<1>8. kind # "messenger" => TodoInv(next)'
  <2>1. kind # "messenger" => TodoInv(next)
    BY <1>3, <1>4 DEF TodoInv
  <2> QED
    BY <1>4, <1>6, <2>1, TodoForward
<1>9. RunInv(next, "none")'
  BY <1>3, <1>4, <1>8 DEF RunInv, chainVars
<1>10. PICK tx \in Txs : tx = [call |-> c, owner |-> j]
  BY DEF Txs
<1>11. pending' = tx /\ tx # None
  BY <1>2, <1>10, NoneAssumption
<1>12. PendingInv'
  <2>1. kind' # "messenger" => c \in AllCalls' /\ PassedBefore(c)'
    <3>1. kind # "messenger" => c \in AllCalls /\ PassedBefore(c)
      BY <1>2, CallInOrder
    <3> QED
      BY <1>6, <3>1, GrowsAlong DEF Grows
  <2>2. job'[j] = next /\ receipt'[j] = "none"
    BY <1>5, <1>7 DEF IndInv, TypeInv
  <2>3. kind' # "messenger" => (pending.call \in AllCalls /\ PassedBefore(pending.call))'
    BY <1>10, <1>11, <2>1 DEF PassedBefore
  <2>4. job'[pending'.owner].pc = "waiting" /\ receipt'[pending'.owner] = "none"
        /\ pending'.call = Head(job'[pending'.owner].todo)
    <3>1. pending'.owner = j /\ pending'.call = c
      BY <1>10, <1>11
    <3>2. next.pc = "waiting" /\ c = Head(next.todo)
      BY <1>3, <1>4
    <3> QED
      BY <2>2, <3>1, <3>2
  <2> QED
    BY <2>3, <2>4 DEF PendingInv
<1>13. CursorInv'
  BY <1>6, GrowsAlong DEF IndInv, CursorInv, chainVars
<1>14. /\ faults' \in {faults, faults + 1} /\ faults' <= MaxFaults
       /\ dropped \subseteq dropped' /\ dropped' \subseteq 1..MaxMessages
       /\ cursor' \in 0..MaxMessages
  BY RelayAssumption DEF IndInv, TypeInv
<1> QED
  BY <1>4, <1>5, <1>7, <1>9, <1>11, <1>12, <1>13, <1>14, RunStepInd

LEMMA SubmitInd ==
    ASSUME IndInv, NEW j \in Jobs, SubmitToL2(j) \/ SubmitToL1(j) \/ SubmitClaim(j)
    PROVE  IndInv'
BY SendInd DEF SubmitToL2, SubmitToL1, SubmitClaim

LEMMA AlreadyExecutedInd == ASSUME IndInv, NEW j \in Jobs, AlreadyExecuted(j) PROVE IndInv'
<1> USE DEF AlreadyExecuted
<1>1. Grows
  BY GrowsBy DEF IndInv, chainVars
<1>2. Call(j) \in Calls
  BY AtCall
<1>3. \A c : c = Call(j) => Passed(c)'
  BY <1>1, <1>2 DEF Grows, Passed
<1>4. \E r \in Runs : RunInv(r, "none")' /\ job' = [job EXCEPT ![j] = r]
  BY <1>1, <1>3, AdvanceRun
<1> QED
  BY <1>4, ReadInd

LEMMA EstimateRevertsInd == ASSUME IndInv, NEW j \in Jobs, EstimateReverts(j) PROVE IndInv'
<1> USE DEF EstimateReverts
<1>1. Grows
  BY GrowsBy DEF IndInv, chainVars
<1>2. Call(j) \in Calls
  BY AtCall
<1>3. \A c : c = Call(j) /\ kind = "undecoded" => Passed(c)'
  BY <1>1, <1>2 DEF Grows, Passed
<1>4. \E r \in Runs : RunInv(r, "none")' /\ job' = [job EXCEPT ![j] = r]
  BY <1>1, <1>3, RefuseRun
<1> QED
  BY <1>4, ReadInd

LEMMA SubmitUnderpricedInd == ASSUME IndInv, NEW j \in Jobs, SubmitUnderpriced(j) PROVE IndInv'
<1> USE DEF SubmitUnderpriced
<1>1. Grows
  BY GrowsBy DEF IndInv, chainVars
<1>2. \E r \in Runs : RunInv(r, "none")' /\ job' = [job EXCEPT ![j] = r]
  BY <1>1, RetryRun
<1> QED
  BY <1>2, ReadInd

LEMMA ConfirmInd == ASSUME IndInv, NEW j \in Jobs, Confirm(j) PROVE IndInv'
<1> USE DEF Confirm
<1>1. Grows
  BY GrowsBy DEF IndInv, chainVars
<1>2. PICK c \in Calls : c = Call(j)
  BY AtCall
<1>3. /\ receipt[j] = "success" => Executed(c)
      /\ receipt[j] = "failed" => Executed(c) \/ c.msg \in reverting
      /\ receipt[j] \in {"success", "failed"}
  BY <1>2, AtCall DEF RunInv, Receipts
<1>4. Executed(c) => Passed(c)'
  BY <1>1 DEF Grows, Passed
<1>5. Executed(c) \/ c.msg \in reverting => (kind = "undecoded" => Passed(c)')
  BY <1>1 DEF Grows, Passed
<1>6. CASE receipt[j] = "success"
  <2>1. \A x : x = Call(j) => Passed(x)'
    BY <1>2, <1>3, <1>4, <1>6
  <2>2. \E r \in Runs : RunInv(r, "none")' /\ job' = [job EXCEPT ![j] = r]
    BY <1>1, <1>6, <2>1, AdvanceRun
  <2> QED
    BY <2>2, QuietRunInd
<1>7. CASE receipt[j] = "failed"
  <2>1. \A x : x = Call(j) /\ kind = "undecoded" => Passed(x)'
    BY <1>2, <1>3, <1>5, <1>7
  <2>2. \E r \in Runs : RunInv(r, "none")' /\ job' = [job EXCEPT ![j] = r]
    BY <1>1, <1>7, <2>1, RefuseRun
  <2> QED
    BY <2>2, QuietRunInd
<1> QED
  BY <1>3, <1>6, <1>7

LEMMA WaitInVainInd == ASSUME IndInv, NEW j \in Jobs, WaitInVain(j) PROVE IndInv'
<1> USE DEF WaitInVain
<1>1. Grows
  BY GrowsBy DEF IndInv, chainVars
<1>2. \E r \in Runs : RunInv(r, "none")' /\ job' = [job EXCEPT ![j] = r]
  BY <1>1, RetryRun
<1>3. receipt' = [receipt EXCEPT ![j] = "none"]
  BY DEF IndInv, TypeInv
<1> QED
  BY <1>2, <1>3, QuietRunInd

LEMMA TimeoutInd == ASSUME IndInv, NEW j \in Jobs, Timeout(j) PROVE IndInv'
<1> USE DEF Timeout
<1>1. Grows
  BY GrowsBy DEF IndInv, chainVars
<1>2. \E r \in Runs : RunInv(r, "none")' /\ job' = [job EXCEPT ![j] = r]
  BY <1>1, RetryRun
<1>3. dropped' \subseteq 1..MaxMessages
  BY DEF IndInv, TypeInv
<1> QED
  BY <1>2, <1>3, FaultRunInd

LEMMA RequestFailsInd == ASSUME IndInv, NEW j \in Jobs, RequestFails(j) PROVE IndInv'
<1> USE DEF RequestFails
<1>1. Grows
  BY GrowsBy DEF IndInv, chainVars
<1>2. PICK c \in Calls : c = Call(j)
  BY AtCall
<1>3. c.msg \in 1..MaxMessages
  BY DEF Calls
<1>4. dropped' \subseteq 1..MaxMessages
  BY <1>2, <1>3 DEF IndInv, TypeInv
<1>5. CASE PassesOver(j)
  <2>1. \A x : x = Call(j) /\ kind = "undecoded" => Passed(x)'
    BY <1>2, <1>5 DEF Passed, chainVars
  <2>2. \E r \in Runs : RunInv(r, "none")' /\ job' = [job EXCEPT ![j] = r]
    BY <1>1, <2>1, RefuseRun
  <2> QED
    BY <1>4, <2>2, FaultRunInd
<1>6. CASE ~PassesOver(j)
  <2>1. job' = [job EXCEPT ![j] = Idle]
    BY <1>6 DEF Refuse, RefuseToL1, RefuseToL2, RefuseClaim
  <2> QED
    BY <1>4, <2>1, IdleRun, FaultRunInd
<1> QED
  BY <1>5, <1>6

LEMMA FailInd == ASSUME IndInv, NEW j \in Jobs, Fail(j) PROVE IndInv'
<1>1. dropped' \subseteq 1..MaxMessages
  BY DEF Fail, IndInv, TypeInv
<1> QED
  BY <1>1, IdleRun, FaultRunInd DEF Fail

\* A run at its end has passed all calls of the messages up to `cur`.
LEMMA SaveCursorInd == ASSUME IndInv, NEW j \in Jobs, SaveCursor(j) PROVE IndInv'
<1> USE DEF SaveCursor
<1>1. PICK run \in Runs : run = job[j]
  BY DEF IndInv, TypeInv
<1>2. RunInv(run, receipt[j]) /\ run.cur \in 0..MaxMessages
  BY <1>1 DEF IndInv, Runs
<1>3. kind # "messenger" /\ PassedUpTo(run.cur)
  BY <1>1, <1>2 DEF RunInv, TodoInv, PassedUpTo, ToSet
<1>4. Grows
  BY GrowsBy DEF IndInv, chainVars
<1>5. cursor' = run.cur
  BY <1>1
<1>6. CursorInv'
  <2>1. PassedUpTo(run.cur)'
    BY <1>3, <1>4, GrowsAlong
  <2>2. PassedUpTo(cursor)'
    BY <1>5, <2>1 DEF PassedUpTo
  <2> QED
    BY <1>3, <2>2 DEF CursorInv, chainVars
<1>7. receipt' = [receipt EXCEPT ![j] = "none"] /\ "none" \in Receipts
  BY NoReceipt DEF Receipts
<1>8. Idle \in Runs /\ RunInv(Idle, "none")'
  BY IdleRun
<1>9. PendingInv'
  BY <1>4, <1>7, <1>8, PendingKept
<1>10. /\ faults' \in {faults, faults + 1} /\ faults' <= MaxFaults
       /\ dropped \subseteq dropped' /\ dropped' \subseteq 1..MaxMessages
       /\ pending' \in Txs \cup {None}
  BY RelayAssumption DEF IndInv, TypeInv
<1> QED
  BY <1>2, <1>5, <1>6, <1>7, <1>8, <1>9, <1>10, RunStepInd

-----------------------------------------------------------------------------
(* The items of a call: from after Before(c) to Upto(c), of all.           *)

Cut(k) == k * BatchSize
Before(c) == LastItem[c.msg - 1] + Cut(c.k - 1)
Upto(c) == LastItem[c.msg - 1] + Min({Cut(c.k), ItemsOf[c.msg]})
Numbers(n) == [i \in 1..n |-> i]

LEMMA CutProperties ==
    /\ Cut(0) = 0
    /\ \A k \in Nat : Cut(k) \in Nat /\ k <= Cut(k) /\ Cut(k + 1) = Cut(k) + BatchSize
    /\ \A k, l \in Nat : k <= l => Cut(k) <= Cut(l)
    /\ \A k, a \in Nat : k <= a \div BatchSize <=> Cut(k) <= a
<1> DEFINE b == BatchSize
<1>1. b \in Nat \ {0}
  BY RelayAssumption
<1>2. \A x, y, z \in Int : (x + y) * z = x * z + y * z
  OBVIOUS
<1>3. \A k, z \in Nat : k * z \in Nat
  OBVIOUS
<1>4. ASSUME NEW k \in Nat
      PROVE  k * b \in Nat /\ k <= k * b /\ (k + 1) * b = k * b + b
  <2>1. k * b \in Nat
    BY <1>1, <1>3
  <2>2. k * (b - 1) \in Nat /\ k * b = k * (b - 1) + k
    BY <1>1, <1>3
  <2>3. (k + 1) * b = k * b + b
    BY <1>1, <1>2
  <2> QED
    BY <2>1, <2>2, <2>3
<1>5. ASSUME NEW k \in Nat, NEW l \in Nat, k <= l PROVE k * b <= l * b
  <2>1. (l - k) * b \in Nat /\ l * b = (l - k) * b + k * b
    BY <1>1, <1>3, <1>5
  <2>2. k * b \in Nat /\ l * b \in Nat
    BY <1>1, <1>3
  <2> QED
    BY <2>1, <2>2
<1>6. ASSUME NEW k \in Nat, NEW a \in Nat PROVE k <= a \div b <=> k * b <= a
  <2> DEFINE q == a \div b
  <2>1. q \in Nat /\ q * b <= a /\ a < (q + 1) * b
    BY <1>1
  <2> HIDE DEF q
  <2>2. k <= q => k * b <= q * b
    BY <1>5, <2>1
  <2>3. q + 1 <= k => (q + 1) * b <= k * b
    BY <1>5, <2>1
  <2>4. q * b \in Nat /\ k * b \in Nat /\ (q + 1) * b \in Nat
    BY <1>1, <1>3, <2>1
  <2> QED
    BY <2>1, <2>2, <2>3, <2>4 DEF q
<1>7. Cut(0) = 0
  BY <1>1 DEF Cut
<1>8. \A k \in Nat : Cut(k) \in Nat /\ k <= Cut(k) /\ Cut(k + 1) = Cut(k) + BatchSize
  BY <1>4 DEF Cut
<1>9. \A k, l \in Nat : k <= l => Cut(k) <= Cut(l)
  BY <1>5 DEF Cut
<1>10. \A k, a \in Nat : k <= a \div BatchSize <=> Cut(k) <= a
  BY <1>6 DEF Cut
<1> QED
  BY <1>7, <1>8, <1>9, <1>10

LEMMA LastItemProperties ==
    /\ LastItem[0] = 0
    /\ \A m \in 0..MaxMessages : LastItem[m] \in Nat
    /\ \A m \in 1..MaxMessages : LastItem[m] = LastItem[m-1] + ItemsOf[m] /\ ItemsOf[m] \in Nat
    /\ \A m, l \in 0..MaxMessages : m <= l => LastItem[m] <= LastItem[l]
<1> DEFINE n == MaxMessages
           IsLast(f) == f = [m \in 0..n |-> IF m = 0 THEN 0 ELSE f[m-1] + ItemsOf[m]]
           step == [m \in 1..n |-> [x \in Nat |-> x + ItemsOf[m]]]
<1>1. n \in Nat /\ \A m \in 1..n : ItemsOf[m] \in Nat
  BY RelayAssumption DEF MaxMessages
<1>2. LastItem = CHOOSE f : IsLast(f)
  BY DEF LastItem
<1> HIDE DEF n
<1>3. PICK f : IsUnfolding(f, n, 0, step)
  BY <1>1, UnfoldingExists
<1>4. /\ f[0] = 0 /\ f = [m \in 0..n |-> f[m]]
      /\ \A m \in 1..n : f[m-1] \in Nat => f[m] = f[m-1] + ItemsOf[m]
  BY <1>3 DEF IsUnfolding
<1> HIDE DEF step
<1>5. \A m \in 0..n : f[m] \in Nat
  <2> DEFINE Good == {m \in 0..n : f[m] \in Nat}
  <2>1. 0 \in Good
    BY <1>1, <1>4
  <2>2. ASSUME NEW m \in 1..n, m - 1 \in Good PROVE m \in Good
    <3>1. f[m-1] \in Nat /\ m \in 0..n
      BY <1>1, <2>2
    <3>2. f[m] = f[m-1] + ItemsOf[m]
      BY <1>4, <3>1
    <3> QED
      BY <1>1, <3>1, <3>2
  <2> HIDE DEF Good
  <2>3. \A m \in 0..n : m \in Good
    BY <1>1, <2>1, <2>2, SetInduction
  <2> QED
    BY <2>3 DEF Good
<1>6. IsLast(f)
  <2>1. ASSUME NEW m \in 0..n, m # 0 PROVE f[m] = f[m-1] + ItemsOf[m]
    <3>1. m \in 1..n /\ m - 1 \in 0..n
      BY <1>1, <2>1
    <3>2. f[m-1] \in Nat
      BY <1>5, <3>1
    <3> QED
      BY <1>4, <3>1, <3>2
  <2> QED
    BY <1>4, <2>1
<1>7. IsLast(LastItem)
  BY <1>2, <1>6
<1>8. /\ LastItem[0] = 0
      /\ \A m \in 1..n : LastItem[m] = LastItem[m-1] + ItemsOf[m]
  BY <1>1, <1>7
<1>9. \A m \in 0..n : LastItem[m] \in Nat
  <2> DEFINE Good == {m \in 0..n : LastItem[m] \in Nat}
  <2>1. 0 \in Good
    BY <1>1, <1>8
  <2>2. ASSUME NEW m \in 1..n, m - 1 \in Good PROVE m \in Good
    BY <1>1, <1>8, <2>2
  <2> HIDE DEF Good
  <2>3. \A m \in 0..n : m \in Good
    BY <1>1, <2>1, <2>2, SetInduction
  <2> QED
    BY <2>3 DEF Good
<1>10. ASSUME NEW m \in 0..n, NEW l \in 0..n, m <= l PROVE LastItem[m] <= LastItem[l]
  <2> DEFINE Good == {i \in 0..n : m <= i => LastItem[m] <= LastItem[i]}
  <2>1. 0 \in Good
    BY <1>1, <1>9
  <2>2. ASSUME NEW i \in 1..n, i - 1 \in Good PROVE i \in Good
    <3>1. LastItem[i] = LastItem[i-1] + ItemsOf[i] /\ LastItem[i-1] \in Nat /\ ItemsOf[i] \in Nat
      BY <1>1, <1>8, <1>9
    <3>2. CASE m = i
      BY <1>9, <3>2
    <3>3. CASE m # i
      BY <1>9, <2>2, <3>1, <3>3
    <3> QED
      BY <3>2, <3>3
  <2> HIDE DEF Good
  <2>3. \A i \in 0..n : i \in Good
    BY <1>1, <2>1, <2>2, SetInduction
  <2> QED
    BY <1>10, <2>3 DEF Good
<1> QED
  BY <1>1, <1>8, <1>9, <1>10 DEF n

\* A call of batches and its bounds.
LEMMA BatchBounds ==
    ASSUME kind \in {"decoded", "l2"}, NEW c \in AllCalls
    PROVE  /\ c.msg \in 1..MaxMessages /\ c.k \in Nat \ {0} /\ c.k <= Batches(c.msg)
           /\ ItemsOf[c.msg] \in Nat /\ LastItem[c.msg - 1] \in Nat
           /\ Cut(c.k - 1) \in Nat /\ Cut(c.k) = Cut(c.k - 1) + BatchSize
           /\ Cut(c.k - 1) < ItemsOf[c.msg]
           /\ Before(c) \in Nat /\ Upto(c) \in Nat /\ Before(c) < Upto(c)
           /\ Upto(c) <= LastItem[c.msg] /\ LastItem[c.msg] <= LastItem[MaxMessages]
           /\ Upto(c) <= LastItem[c.msg - 1] + Cut(c.k)
<1>1. c.msg \in 1..MaxMessages /\ c.k \in 1..NumCalls(c.msg)
  BY DEF AllCalls, Calls
<1> DEFINE m == c.msg
           n == ItemsOf[m]
           b == LastItem[m - 1]
<1>2. NumCalls(m) = Batches(m) /\ Batches(m) \in Nat
  <2>1. NumCalls(m) = Batches(m)
    BY DEF NumCalls, WithdrawalCalls, DepositCalls
  <2> QED
    BY <1>1, <2>1, NumCallsType
<1>3. PICK k \in Nat : c.k = k + 1 /\ c.k - 1 = k
  <2>1. c.k - 1 \in Nat /\ c.k = (c.k - 1) + 1
    BY <1>1, <1>2
  <2> QED
    BY <2>1
<1>4. n \in Nat /\ b \in Nat /\ LastItem[m] = b + n /\ LastItem[m] <= LastItem[MaxMessages]
  <2>1. m - 1 \in 0..MaxMessages /\ m \in 0..MaxMessages /\ MaxMessages \in 0..MaxMessages /\ m <= MaxMessages
    BY <1>1, RelayAssumption DEF MaxMessages
  <2> QED
    BY <1>1, <2>1, LastItemProperties
<1>5. Cut(k) \in Nat /\ Cut(k + 1) = Cut(k) + BatchSize /\ BatchSize \in Nat \ {0}
  BY RelayAssumption, CutProperties
<1>6. Cut(k) < n
  <2>1. n + BatchSize - 1 \in Nat
    BY <1>4, <1>5
  <2>2. k + 1 <= (n + BatchSize - 1) \div BatchSize
    BY <1>1, <1>2, <1>3 DEF Batches
  <2>3. Cut(k + 1) <= n + BatchSize - 1
    BY <1>3, <2>1, <2>2, CutProperties
  <2> QED
    BY <1>4, <1>5, <2>3
<1>7. PICK u \in Nat : u = Min({Cut(k + 1), n}) /\ u <= Cut(k + 1) /\ u <= n /\ (u = Cut(k + 1) \/ u = n)
  <2>1. {Cut(k + 1), n} \subseteq Nat /\ {Cut(k + 1), n} # {}
    BY <1>4, <1>5
  <2> HIDE DEF n
  <2> QED
    BY <2>1, MinIsSmallest
<1>8. Before(c) = b + Cut(k) /\ Upto(c) = b + u
  BY <1>3, <1>7 DEF Before, Upto
<1> HIDE DEF n, b
<1>9. /\ b + Cut(k) \in Nat /\ b + u \in Nat /\ b + Cut(k) < b + u
      /\ b + u <= b + n /\ b + u <= b + Cut(k + 1)
  BY <1>4, <1>5, <1>6, <1>7
<1>10. c.k \in Nat \ {0} /\ c.k <= Batches(m)
  BY <1>1, <1>2
<1> QED
  BY <1>1, <1>3, <1>4, <1>5, <1>6, <1>8, <1>9, <1>10 DEF n, b

\* A call carries the items between its bounds.
LEMMA ItemsOfCall ==
    ASSUME kind \in {"decoded", "l2"}, NEW c \in AllCalls
    PROVE  /\ ItemsIn(c) \in Seq(Nat)
           /\ Len(ItemsIn(c)) = Upto(c) - Before(c)
           /\ \A i \in 1..Upto(c) - Before(c) : ItemsIn(c)[i] = Before(c) + i
<1> DEFINE n == ItemsOf[c.msg]
           b == LastItem[c.msg - 1]
           items == ItemsOfMessage(c.msg)
           from == c.k * BatchSize - BatchSize + 1
           to == Min({c.k * BatchSize, Len(items)})
<1>1. /\ n \in Nat /\ b \in Nat /\ LastItem[c.msg] = b + n
      /\ Cut(c.k - 1) \in Nat /\ Cut(c.k) = Cut(c.k - 1) + BatchSize
      /\ BatchSize \in Nat \ {0}
      /\ Before(c) \in Nat /\ Upto(c) \in Nat /\ Before(c) < Upto(c) /\ Upto(c) <= b + n
  BY BatchBounds, LastItemProperties, RelayAssumption
<1>2. items = [i \in 1..n |-> b + i]
  <2>1. \A i \in 1..n : LastItem[c.msg] - n + i = b + i
    BY <1>1
  <2> QED
    BY <2>1 DEF ItemsOfMessage
<1>3. items \in Seq(Nat) /\ Len(items) = n
  BY SMTT(30), <1>1, <1>2
<1>4. ItemsIn(c) = SubSeq(items, from, to)
  BY DEF ItemsIn
<1>5. from = Cut(c.k - 1) + 1 /\ to = Min({Cut(c.k), n})
  BY <1>1, <1>3 DEF Cut
<1>6. Upto(c) = b + to /\ Before(c) = b + (from - 1)
  BY <1>1, <1>5 DEF Upto, Before
<1>7. to \in Nat
  <2>1. {Cut(c.k), n} \subseteq Nat /\ {Cut(c.k), n} # {}
    BY <1>1
  <2>2. Min({Cut(c.k), n}) \in {Cut(c.k), n}
    BY <2>1, MinIsSmallest
  <2> QED
    BY <1>5, <2>1, <2>2
<1>8. from \in Nat \ {0}
  BY <1>1, <1>5
<1> HIDE DEF n, b, items, from, to
<1>9. from <= to /\ to <= n
  BY <1>1, <1>6, <1>7, <1>8
<1>10. \A i \in from..to : items[i] \in Nat /\ items[i] = b + i
  BY <1>1, <1>2, <1>7, <1>8, <1>9
<1>11. /\ SubSeq(items, from, to) \in Seq(Nat)
       /\ Len(SubSeq(items, from, to)) = to - from + 1
       /\ \A i \in 1..to - from + 1 : SubSeq(items, from, to)[i] = items[from + i - 1]
  <2>1. from \in Int /\ to \in Int
    BY <1>7, <1>8
  <2>2. Len(SubSeq(items, from, to)) = IF from <= to THEN to - from + 1 ELSE 0
    BY <1>10, <2>1, SubSeqProperties
  <2> QED
    BY <1>8, <1>10, <1>9, <2>1, <2>2, SubSeqProperties
<1>12. Upto(c) - Before(c) = to - from + 1
  BY <1>1, <1>6, <1>7, <1>8, <1>9
<1>13. ASSUME NEW i \in 1..to - from + 1 PROVE items[from + i - 1] = Before(c) + i
  <2>1. from + i - 1 \in from..to
    BY <1>7, <1>8
  <2> QED
    BY <1>1, <1>6, <1>8, <1>10, <2>1
<1> QED
  BY <1>4, <1>11, <1>12, <1>13

\* The items of a call are before those of a later one, ...
LEMMA CallsApart ==
    ASSUME kind \in {"decoded", "l2"}, NEW e \in AllCalls, NEW c \in AllCalls, Precedes(e, c)
    PROVE  Upto(e) <= Before(c)
<1>1. CASE e.msg < c.msg
  <2>1. /\ Upto(e) \in Nat /\ Upto(e) <= LastItem[e.msg] /\ e.msg \in 1..MaxMessages
        /\ LastItem[c.msg - 1] \in Nat /\ Cut(c.k - 1) \in Nat /\ c.msg \in 1..MaxMessages
    BY BatchBounds
  <2>2. e.msg \in 0..MaxMessages /\ c.msg - 1 \in 0..MaxMessages /\ e.msg <= c.msg - 1
    BY SMTT(30), <1>1, <2>1, RelayAssumption DEF MaxMessages
  <2>3. LastItem[e.msg] <= LastItem[c.msg - 1] /\ LastItem[e.msg] \in Nat
    BY <2>2, LastItemProperties
  <2> QED
    BY <2>1, <2>3 DEF Before
<1>2. CASE e.msg = c.msg /\ e.k < c.k
  <2>1. /\ Upto(e) <= LastItem[c.msg - 1] + Cut(e.k) /\ Upto(e) \in Nat
        /\ e.k \in Nat \ {0} /\ c.k \in Nat \ {0} /\ LastItem[c.msg - 1] \in Nat
    BY <1>2, BatchBounds
  <2>2. e.k \in Nat /\ c.k - 1 \in Nat /\ e.k <= c.k - 1
    BY <1>2, <2>1
  <2>3. Cut(e.k) <= Cut(c.k - 1) /\ Cut(e.k) \in Nat /\ Cut(c.k - 1) \in Nat
    BY <2>2, CutProperties
  <2> QED
    BY <2>1, <2>3 DEF Before
<1> QED
  BY <1>1, <1>2 DEF Precedes

\* ... and every item has its call.
LEMMA CallOfItem ==
    ASSUME kind \in {"decoded", "l2"}, NEW x \in 1..LastItem[MaxMessages]
    PROVE  \E p \in AllCalls : Before(p) < x /\ x <= Upto(p)
<1>1. MaxMessages \in Nat /\ LastItem[MaxMessages] \in Nat /\ x \in Nat \ {0}
  <2>1. MaxMessages \in Nat
    BY RelayAssumption DEF MaxMessages
  <2> QED
    BY <2>1, LastItemProperties
<1> DEFINE Far == {m \in 0..MaxMessages : x <= LastItem[m]}
<1>2. PICK m \in Far : \A l \in Far : m <= l
  <2>1. Far \subseteq Nat /\ MaxMessages \in Far
    BY <1>1
  <2> HIDE DEF Far
  <2> QED
    BY <2>1, LeastElement
<1>3. m \in 1..MaxMessages /\ x <= LastItem[m]
  BY <1>1, <1>2, LastItemProperties
<1>4. m - 1 \in 0..MaxMessages /\ m - 1 \notin Far
  <2>1. m - 1 \in 0..MaxMessages /\ m - 1 < m
    BY <1>1, <1>3
  <2> HIDE DEF Far
  <2> QED
    BY <1>2, <1>3, <2>1
<1> DEFINE n == ItemsOf[m]
           b == LastItem[m - 1]
           y == x - b
<1>5. LastItem[m] = b + n /\ n \in Nat /\ b \in Nat /\ b < x
  BY <1>1, <1>3, <1>4, LastItemProperties
<1>6. y \in Nat \ {0} /\ y <= n /\ x = b + y
  BY <1>1, <1>3, <1>5
<1> HIDE DEF Far, n, b, y
<1> DEFINE Enough == {k \in Nat : y <= Cut(k)}
<1>7. PICK k \in Enough : \A l \in Enough : k <= l
  <2>1. Enough \subseteq Nat /\ y \in Enough
    BY <1>6, CutProperties
  <2> HIDE DEF Enough
  <2> QED
    BY <2>1, LeastElement
<1>8. k \in Nat /\ y <= Cut(k) /\ k # 0
  BY <1>6, <1>7, CutProperties
<1>9. k - 1 \in Nat /\ k - 1 \notin Enough
  BY <1>7, <1>8
<1>10. Cut(k - 1) < y /\ Cut(k - 1) \in Nat /\ Cut(k) = Cut(k - 1) + BatchSize /\ BatchSize \in Nat \ {0}
  <2>1. Cut(k - 1) \in Nat /\ Cut((k - 1) + 1) = Cut(k - 1) + BatchSize
    BY <1>9, CutProperties
  <2>2. (k - 1) + 1 = k
    BY <1>8
  <2> QED
    BY <1>6, <1>9, <2>1, <2>2, RelayAssumption
<1> HIDE DEF Enough
<1> DEFINE p == [msg |-> m, k |-> k]
<1>11. p \in AllCalls
  <2>1. Cut(k) <= n + BatchSize - 1 /\ n + BatchSize - 1 \in Nat
    BY <1>5, <1>6, <1>10
  <2>2. k <= (n + BatchSize - 1) \div BatchSize
    BY <1>8, <2>1, CutProperties
  <2>3. k <= Batches(m)
    BY <2>2 DEF Batches, n
  <2>4. NumCalls(m) = Batches(m) /\ NumCalls(m) \in Nat
    BY <1>3, NumCallsType DEF NumCalls, WithdrawalCalls, DepositCalls
  <2> QED
    BY <1>3, <1>8, <2>3, <2>4 DEF AllCalls, Calls
<1>12. Before(p) = b + Cut(k - 1) /\ Upto(p) = b + Min({Cut(k), n})
  BY DEF Before, Upto, b, n
<1>13. y <= Min({Cut(k), n}) /\ Min({Cut(k), n}) \in Nat
  <2>1. {Cut(k), n} \subseteq Nat /\ {Cut(k), n} # {}
    BY <1>5, <1>10
  <2>2. Min({Cut(k), n}) \in {Cut(k), n}
    BY <2>1, MinIsSmallest
  <2> QED
    BY <1>6, <1>8, <2>1, <2>2
<1>14. Before(p) < x /\ x <= Upto(p)
  BY <1>5, <1>6, <1>10, <1>12, <1>13
<1> QED
  BY <1>11, <1>14

\* What the executed calls carried are the items up to that of the furthest.
Carried == [i \in DOMAIN executed |-> ItemsIn(executed[i])]

ItemsInv ==
    kind \in {"decoded", "l2"} =>
        \E n \in Nat :
            /\ FlattenSeq(Carried) = Numbers(n)
            /\ \A e \in ToSet(executed) : Upto(e) <= n
            /\ n = 0 \/ \E e \in ToSet(executed) : Upto(e) = n

\* A call whose turn it is begins where the last one ended.
LEMMA NextCallBegins ==
    ASSUME IndInv, kind \in {"decoded", "l2"}, NEW c \in AllCalls, ~Executed(c), PassedBefore(c),
           NEW n \in Nat, \A e \in ToSet(executed) : Upto(e) <= n,
           n = 0 \/ \E e \in ToSet(executed) : Upto(e) = n
    PROVE  Before(c) = n
<1>1. Before(c) \in Nat /\ Upto(c) \in Nat /\ Before(c) < Upto(c) /\ c \in Calls
  BY BatchBounds DEF AllCalls
<1>2. \A a, b \in Calls : a = b \/ Precedes(a, b) \/ Precedes(b, a)
  BY RelayAssumption DEF Calls, Precedes, MaxMessages
<1>3. n <= Before(c)
  <2>1. CASE n = 0
    BY <1>1, <2>1
  <2>2. ASSUME NEW e \in ToSet(executed), Upto(e) = n PROVE n <= Before(c)
    <3>1. e \in AllCalls /\ PassedBefore(e) /\ e \in Calls /\ e # c
      BY DEF IndInv, ExecutedInv, AllCalls, Executed
    <3>2. ~Precedes(c, e)
      BY <3>1 DEF PassedBefore, Passed
    <3>3. Precedes(e, c)
      BY <1>1, <1>2, <3>1, <3>2
    <3> QED
      BY <2>2, <3>1, <3>3, CallsApart
  <2> QED
    BY <2>1, <2>2
<1>4. Before(c) <= n
  <2> SUFFICES ASSUME n < Before(c) PROVE FALSE
    BY <1>1
  <2>1. n + 1 \in 1..LastItem[MaxMessages]
    <3>1. /\ Upto(c) <= LastItem[c.msg] /\ LastItem[c.msg] <= LastItem[MaxMessages]
          /\ c.msg \in 1..MaxMessages
      BY BatchBounds
    <3>2. c.msg \in 0..MaxMessages /\ MaxMessages \in 0..MaxMessages
      BY RelayAssumption, <3>1 DEF MaxMessages
    <3>3. LastItem[c.msg] \in Nat /\ LastItem[MaxMessages] \in Nat
      BY <3>2, LastItemProperties
    <3> QED
      BY <1>1, <3>1, <3>3
  <2>2. PICK p \in AllCalls : Before(p) < n + 1 /\ n + 1 <= Upto(p)
    BY <2>1, CallOfItem
  <2>3. Before(p) \in Nat /\ Upto(p) \in Nat /\ p \in Calls
    BY BatchBounds DEF AllCalls
  <2>4. p # c
    BY <1>1, <2>2, <2>3
  <2>5. ~Precedes(c, p)
    <3>1. Precedes(c, p) => Upto(c) <= Before(p)
      BY CallsApart
    <3> QED
      BY <1>1, <2>2, <2>3, <3>1
  <2>6. Precedes(p, c)
    BY <1>1, <1>2, <2>3, <2>4, <2>5
  <2>7. p \in ToSet(executed)
    BY <2>6 DEF PassedBefore, Passed, Executed
  <2> QED
    BY <2>2, <2>3, <2>7
<1> QED
  BY <1>1, <1>3, <1>4

LEMMA ExecuteItems ==
    ASSUME IndInv, ItemsInv, kind \in {"decoded", "l2"}, kind' = kind,
           NEW c \in AllCalls, ~Executed(c), PassedBefore(c), executed' = Append(executed, c)
    PROVE  ItemsInv'
<1>1. PICK n \in Nat : /\ FlattenSeq(Carried) = Numbers(n)
                       /\ \A e \in ToSet(executed) : Upto(e) <= n
                       /\ n = 0 \/ \E e \in ToSet(executed) : Upto(e) = n
  BY DEF ItemsInv
<1>2. Before(c) = n
  BY <1>1, NextCallBegins
<1> DEFINE u == Upto(c)
           own == ItemsIn(c)
<1>3. u \in Nat /\ n < u
  BY <1>2, BatchBounds
<1>4. own \in Seq(Nat) /\ Len(own) = u - n /\ \A i \in 1..u - n : own[i] = n + i
  BY <1>2, ItemsOfCall
<1> HIDE DEF u, own
<1>5. PICK e \in Seq(Calls) : e = executed
  BY DEF IndInv, TypeInv
<1>6. c \in Calls
  BY DEF AllCalls
<1>7. /\ Len(e) \in Nat /\ DOMAIN e = 1..Len(e)
      /\ Append(e, c) \in Seq(Calls) /\ Len(Append(e, c)) = Len(e) + 1
      /\ DOMAIN Append(e, c) = 1..Len(e) + 1
      /\ \A i \in 1..Len(e) : Append(e, c)[i] = e[i]
      /\ Append(e, c)[Len(e) + 1] = c
  BY <1>6, LenProperties, AppendProperties
<1> DEFINE s == [i \in DOMAIN e |-> ItemsIn(e[i])]
           k == Len(e)
<1>8. s \in Seq(Seq(Nat)) /\ Len(s) = k
  <2>1. ASSUME NEW i \in 1..k PROVE ItemsIn(e[i]) \in Seq(Nat)
    <3>1. e[i] \in ToSet(executed)
      BY <1>5, <1>7 DEF ToSet
    <3>2. e[i] \in AllCalls
      BY <3>1 DEF IndInv, ExecutedInv
    <3> QED
      BY <3>2, ItemsOfCall
  <2> HIDE DEF k
  <2> QED
    BY <1>7, <2>1 DEF k
<1>9. Carried' = Append(s, own)
  <2>1. Carried' = [i \in 1..k + 1 |-> ItemsIn(Append(e, c)[i])]
    BY <1>5, <1>7 DEF Carried
  <2>2. /\ Append(s, own) = [i \in 1..k + 1 |-> Append(s, own)[i]]
        /\ \A i \in 1..k : Append(s, own)[i] = s[i]
        /\ Append(s, own)[k + 1] = own
    <3> HIDE DEF s, k
    <3>1. /\ Append(s, own) \in Seq(Seq(Nat)) /\ Len(Append(s, own)) = k + 1
          /\ \A i \in 1..k : Append(s, own)[i] = s[i]
          /\ Append(s, own)[k + 1] = own
      BY <1>4, <1>8, AppendProperties
    <3>2. DOMAIN Append(s, own) = 1..k + 1 /\ Append(s, own) = [i \in DOMAIN Append(s, own) |-> Append(s, own)[i]]
      <4> DEFINE t == Append(s, own)
      <4>1. t \in Seq(Seq(Nat)) /\ Len(t) = k + 1
        BY <3>1
      <4> HIDE DEF t
      <4>2. DOMAIN t = 1..k + 1 /\ t = [i \in DOMAIN t |-> t[i]]
        BY <4>1, LenProperties
      <4> QED
        BY <4>2 DEF t
    <3> QED
      BY <3>1, <3>2
  <2>3. ASSUME NEW i \in 1..k + 1 PROVE ItemsIn(Append(e, c)[i]) = Append(s, own)[i]
    <3>1. CASE i \in 1..k
      <4>1. Append(s, own)[i] = s[i] /\ s[i] = ItemsIn(e[i]) /\ Append(e, c)[i] = e[i]
        BY <1>7, <2>2, <3>1
      <4> QED
        BY <4>1
    <3>2. CASE i = k + 1
      BY <1>7, <2>2, <3>2 DEF own
    <3> QED
      BY <1>7, <3>1, <3>2
  <2> QED
    BY <2>1, <2>2, <2>3
<1>10. FlattenSeq(s) = Numbers(n)
  BY <1>1, <1>5 DEF Carried
<1> HIDE DEF s
<1>11. FlattenSeq(Carried') = Numbers(n) \o own
  BY <1>4, <1>8, <1>9, <1>10, FlattenAppend
<1>12. Numbers(n) \o own = Numbers(u)
  <2>1. Numbers(n) \in Seq(Nat) /\ Len(Numbers(n)) = n /\ \A i \in 1..n : Numbers(n)[i] = i
    BY DEF Numbers
  <2>2. /\ Numbers(n) \o own \in Seq(Nat) /\ Len(Numbers(n) \o own) = n + (u - n)
        /\ \A i \in 1..n + (u - n) :
             (Numbers(n) \o own)[i] = IF i <= n THEN Numbers(n)[i] ELSE own[i - n]
    <3> DEFINE a == Numbers(n)
    <3>1. a \in Seq(Nat) /\ Len(a) = n
      BY <2>1
    <3> HIDE DEF a
    <3>2. /\ a \o own \in Seq(Nat) /\ Len(a \o own) = Len(a) + Len(own)
          /\ \A i \in 1..Len(a) + Len(own) : (a \o own)[i] = IF i <= Len(a) THEN a[i] ELSE own[i - Len(a)]
      BY <1>4, <3>1, ConcatProperties
    <3> QED
      BY <1>4, <3>1, <3>2 DEF a
  <2>3. n + (u - n) = u
    BY <1>3
  <2>4. \A i \in 1..u : (Numbers(n) \o own)[i] = i
    BY SMTT(30), <1>3, <1>4, <2>1, <2>2, <2>3
  <2> DEFINE t == Numbers(n) \o own
  <2>5. t \in Seq(Nat) /\ Len(t) = u /\ \A i \in 1..u : t[i] = i
    BY <2>2, <2>3, <2>4
  <2> HIDE DEF t
  <2>6. t = [i \in 1..u |-> i]
    BY <2>5
  <2> QED
    BY <2>6 DEF t, Numbers
<1>13. ToSet(executed') = ToSet(executed) \cup {c}
  BY <1>6, ExecuteType DEF IndInv
<1>14. \A x \in ToSet(executed') : Upto(x) <= u
  <2>1. \A x \in ToSet(executed) : Upto(x) \in Nat
    BY BatchBounds DEF IndInv, ExecutedInv
  <2> QED
    BY <1>1, <1>3, <1>13, <2>1 DEF u
<1>15. \E x \in ToSet(executed') : Upto(x) = u
  BY <1>13 DEF u
<1> QED
  BY <1>3, <1>11, <1>12, <1>14, <1>15 DEF ItemsInv

LEMMA NextItems == ASSUME IndInv, ItemsInv, [Next]_vars PROVE ItemsInv'
<1>1. kind' = kind
  BY DEF Next, Step, SendMessage, Mine, Index, Deliver, ReadHead, ReadCursor, StartPaging,
         StartL1ToL2, StartL2ToL1, FetchPage, SubmitToL2, SubmitToL1, SubmitClaim, Send,
         AlreadyExecuted, EstimateReverts, SubmitUnderpriced, Confirm, WaitInVain,
         Timeout, RequestFails, Fail, SaveCursor, chainVars, vars
<1>2. CASE executed' = executed
  <2>1. Carried' = Carried
    BY <1>2 DEF Carried
  <2> QED
    BY <1>1, <1>2, <2>1 DEF ItemsInv
<1>3. CASE kind \notin {"decoded", "l2"}
  BY <1>1, <1>3 DEF ItemsInv
<1>4. CASE executed' # executed /\ kind \in {"decoded", "l2"}
  <2>1. Mine
    BY ZenonT(60), <1>4 DEF Next, Step, SendMessage, Index, Deliver, ReadHead, ReadCursor, StartPaging,
         StartL1ToL2, StartL2ToL1, FetchPage, SubmitToL2, SubmitToL1, SubmitClaim, Send,
         AlreadyExecuted, EstimateReverts, SubmitUnderpriced, Confirm, WaitInVain,
         Timeout, RequestFails, Fail, SaveCursor, chainVars, vars
  <2>2. PICK c \in AllCalls : c = pending.call /\ PassedBefore(c)
    BY <1>4, <2>1 DEF IndInv, PendingInv, Mine
  <2>3. ~Executed(c) /\ executed' = Append(executed, c)
    BY <1>4, <2>1, <2>2 DEF Mine, Succeeds
  <2> QED
    BY <1>1, <1>4, <2>2, <2>3, ExecuteItems
<1> QED
  BY <1>2, <1>3, <1>4

-----------------------------------------------------------------------------
(* Nothing is relayed before it was sent.                                  *)

SentInv ==
    /\ \A j \in Jobs : job[j].cur <= sent
    /\ kind # "messenger" /\ pending # None => pending.call.msg <= sent
    /\ kind # "messenger" => \A e \in ToSet(executed) : e.msg <= sent

\* Where the `cur` of a run comes from.
LEMMA CurOfRecord ==
    ASSUME NEW run \in Runs
    PROVE  /\ Idle.cur = 0
           /\ \A pc : [run EXCEPT !.pc = pc].cur = run.cur
           /\ \A pc, todo : [run EXCEPT !.pc = pc, !.todo = todo].cur = run.cur
           /\ \A pc, attempt : [run EXCEPT !.pc = pc, !.attempt = attempt].cur = run.cur
           /\ \A pc, todo, attempt :
                [run EXCEPT !.pc = pc, !.todo = todo, !.attempt = attempt].cur = run.cur
           /\ \A todo, page : [run EXCEPT !.todo = todo, !.page = page].cur = run.cur
           /\ \A cur : [run EXCEPT !.from = 0, !.cur = cur].cur = cur
           /\ \A msgs : Begin(run, msgs).cur \in {0, run.cur}
<1>1. Idle.cur = 0
  BY DEF Idle
<1>2. \A pc, todo : /\ [run EXCEPT !.pc = pc].cur = run.cur
                    /\ [run EXCEPT !.pc = pc, !.todo = todo].cur = run.cur
  BY DEF Runs
<1>3. \A pc, attempt : [run EXCEPT !.pc = pc, !.attempt = attempt].cur = run.cur
  BY DEF Runs
<1>4. \A pc, todo, attempt : [run EXCEPT !.pc = pc, !.todo = todo, !.attempt = attempt].cur = run.cur
  BY DEF Runs
<1>5. \A todo, page : [run EXCEPT !.todo = todo, !.page = page].cur = run.cur
  BY DEF Runs
<1>6. \A cur : [run EXCEPT !.from = 0, !.cur = cur].cur = cur
  BY DEF Runs
<1>7. \A msgs : Begin(run, msgs).cur \in {0, run.cur}
  BY <1>1, <1>2 DEF Begin
<1> QED
  BY <1>1, <1>2, <1>3, <1>4, <1>5, <1>6, <1>7

\* Run j goes on with the `cur` it had, a head it just read, or none.
Follows(j) ==
    \E r : job' = [job EXCEPT ![j] = r] /\ r.cur \in {0, job[j].cur} \cup Heads

LEMMA EndFollows == ASSUME NEW j, job' = [job EXCEPT ![j] = Idle] PROVE Follows(j)
<1>1. Idle.cur = 0
  BY DEF Idle
<1> QED
  BY <1>1 DEF Follows

LEMMA AdvanceFollows == ASSUME IndInv, NEW j \in Jobs, Advance(j) PROVE Follows(j)
<1> PICK run \in Runs : run = job[j]
  BY DEF IndInv, TypeInv
<1> DEFINE rest == Tail(run.todo)
           r == IF rest # <<>> THEN [run EXCEPT !.pc = "submitting", !.todo = rest, !.attempt = 0]
                ELSE IF kind = "messenger" THEN Idle
                ELSE [run EXCEPT !.pc = "closing", !.todo = <<>>, !.attempt = 0]
<1>1. job' = [job EXCEPT ![j] = r]
  BY DEF Advance, IndInv, TypeInv
<1>2. r.cur \in {0, run.cur}
  <2> HIDE DEF rest
  <2> QED
    BY CurOfRecord
<1> HIDE DEF r
<1> QED
  BY <1>1, <1>2 DEF Follows

LEMMA RetryFollows == ASSUME IndInv, NEW j \in Jobs, Retry(j) PROVE Follows(j)
<1> PICK run \in Runs : run = job[j]
  BY DEF IndInv, TypeInv
<1> DEFINE next == run.attempt + 1
           r == IF next = MaxAttempts THEN Idle
                ELSE [run EXCEPT !.pc = "submitting", !.attempt = next]
<1>1. job' = [job EXCEPT ![j] = r]
  BY DEF Retry, IndInv, TypeInv
<1>2. r.cur \in {0, run.cur}
  <2> HIDE DEF next
  <2> QED
    BY CurOfRecord
<1> HIDE DEF r
<1> QED
  BY <1>1, <1>2 DEF Follows

LEMMA RefuseFollows == ASSUME IndInv, NEW j \in Jobs, Refuse(j) PROVE Follows(j)
<1>1. job' = [job EXCEPT ![j] = Idle] \/ Advance(j)
  BY DEF Refuse, RefuseToL1, RefuseToL2, RefuseClaim
<1> QED
  BY <1>1, EndFollows, AdvanceFollows

LEMMA FetchFollows ==
    ASSUME IndInv, NEW j \in Jobs, NEW from, NEW cur \in Heads \cup {job[j].cur}, Fetch(j, from, cur)
    PROVE  Follows(j)
<1> PICK run \in Runs : run = job[j]
  BY DEF IndInv, TypeInv
<1> DEFINE base == [run EXCEPT !.from = 0, !.cur = cur]
           r == Begin(base, Logs(from, cur))
<1>1. job' = [job EXCEPT ![j] = Idle] \/ job' = [job EXCEPT ![j] = r]
  BY DEF Fetch, IndInv, TypeInv
<1>2. cur \in 0..MaxMessages
  <2>1. Heads \subseteq 0..MaxMessages /\ run.cur \in 0..MaxMessages
    BY RelayAssumption DEF Heads, IndInv, TypeInv, Runs, MaxMessages
  <2> QED
    BY <2>1
<1>3. base \in Runs /\ base.cur = cur
  <2>1. 0 \in 0..MaxMessages
    BY RelayAssumption DEF MaxMessages
  <2> QED
    BY <1>2, <2>1 DEF Runs
<1> HIDE DEF base
<1>4. r.cur \in {0, cur}
  BY <1>3, CurOfRecord
<1> HIDE DEF r
<1> QED
  BY <1>1, <1>4, EndFollows DEF Follows

LEMMA FetchPageFollows == ASSUME IndInv, NEW j \in Jobs, FetchPage(j) PROVE Follows(j)
<1> PICK run \in Runs : run = job[j]
  BY DEF IndInv, TypeInv
<1> DEFINE list == Listed(run.type)
           upTo == run.page * PageSize
           found == run.todo \o SubSeq(list, upTo - PageSize + 1, Min({upTo, Len(list)}))
           base == [run EXCEPT !.todo = <<>>, !.page = 1]
           more == [run EXCEPT !.todo = found, !.page = run.page + 1]
           r == IF list = <<>> THEN Idle ELSE IF upTo < Len(list) THEN more ELSE Begin(base, found)
<1>1. job' = [job EXCEPT ![j] = r]
  BY DEF FetchPage, Runs
<1>2. base \in Runs /\ base.cur = run.cur
  <2> DEFINE Todos == Seq(Calls) \cup Seq(1..MaxMessages)
             Pages == Nat \ {0}
  <2>1. <<>> \in Todos /\ 1 \in Pages
    OBVIOUS
  <2>2. Runs = [pc : PCs, from : 0..MaxMessages, cur : 0..MaxMessages, type : Types,
                page : Pages, todo : Todos, attempt : 0..MaxAttempts - 1]
    BY DEF Runs
  <2> HIDE DEF Todos, Pages
  <2> QED
    BY <2>1, <2>2
<1> HIDE DEF list, upTo, found, base
<1>3. more.cur = run.cur
  BY CurOfRecord
<1>4. Begin(base, found).cur \in {0, run.cur}
  BY <1>2, CurOfRecord
<1>5. Idle.cur = 0
  BY CurOfRecord
<1>6. r.cur \in {0, run.cur}
  <2> HIDE DEF more
  <2> QED
    BY <1>3, <1>4, <1>5
<1> HIDE DEF r
<1> QED
  BY <1>1, <1>6 DEF Follows

LEMMA RunFollows ==
    ASSUME IndInv, NEW j \in Jobs,
             \/ ReadHead(j) \/ ReadCursor(j) \/ \E type \in Types : StartPaging(j, type)
             \/ Step(j) \/ SubmitUnderpriced(j) \/ Timeout(j) \/ RequestFails(j) \/ Fail(j)
    PROVE  Follows(j)
<1>1. CASE ReadHead(j)
  <2>1. PICK b \in Heads : job' = [job EXCEPT ![j] = [Idle EXCEPT !.pc = "head", !.cur = b]]
    BY <1>1 DEF ReadHead
  <2>2. [Idle EXCEPT !.pc = "head", !.cur = b].cur = b
    BY DEF Idle
  <2> QED
    BY <2>1, <2>2 DEF Follows
<1>2. CASE ReadCursor(j)
  <2>1. [Idle EXCEPT !.pc = "cursor", !.from = cursor].cur = 0
    BY DEF Idle
  <2> QED
    BY <1>2, <2>1 DEF Follows, ReadCursor
<1>3. ASSUME NEW type \in Types, StartPaging(j, type) PROVE Follows(j)
  <2>1. [Idle EXCEPT !.pc = "paging", !.type = type].cur = 0
    BY DEF Idle
  <2> QED
    BY <1>3, <2>1 DEF Follows, StartPaging
<1>4. CASE StartL1ToL2(j) \/ StartL2ToL1(j)
  BY <1>4, FetchFollows DEF StartL1ToL2, StartL2ToL1
<1>5. CASE FetchPage(j)
  BY <1>5, FetchPageFollows
<1>6. CASE SubmitToL2(j) \/ SubmitToL1(j) \/ SubmitClaim(j)
  <2> PICK run \in Runs : run = job[j]
    BY DEF IndInv, TypeInv
  <2>1. job' = [job EXCEPT ![j] = [run EXCEPT !.pc = "waiting"]]
    BY <1>6 DEF SubmitToL2, SubmitToL1, SubmitClaim, Send, IndInv, TypeInv
  <2>2. [run EXCEPT !.pc = "waiting"].cur = run.cur
    BY CurOfRecord
  <2> QED
    BY <2>1, <2>2 DEF Follows
<1>7. CASE AlreadyExecuted(j) \/ EstimateReverts(j) \/ Confirm(j) \/ RequestFails(j)
  BY <1>7, AdvanceFollows, RefuseFollows DEF AlreadyExecuted, EstimateReverts, Confirm, RequestFails
<1>8. CASE WaitInVain(j) \/ SubmitUnderpriced(j) \/ Timeout(j)
  BY <1>8, RetryFollows DEF WaitInVain, SubmitUnderpriced, Timeout
<1>9. CASE SaveCursor(j) \/ Fail(j)
  BY <1>9, EndFollows DEF SaveCursor, Fail
<1> QED
  BY <1>1, <1>2, <1>3, <1>4, <1>5, <1>6, <1>7, <1>8, <1>9 DEF Step

\* What a run does to the wallet: its call is sent, or the owner forgotten.
LEMMA RunSends ==
    ASSUME IndInv, NEW j \in Jobs,
             \/ ReadHead(j) \/ ReadCursor(j) \/ \E type \in Types : StartPaging(j, type)
             \/ Step(j) \/ SubmitUnderpriced(j) \/ Timeout(j) \/ RequestFails(j) \/ Fail(j)
    PROVE  /\ UNCHANGED chainVars
           /\ \/ pending' = pending
              \/ pending # None /\ pending'.call = pending.call
              \/ job[j].pc = "submitting" /\ pending' = [call |-> Call(j), owner |-> j]
<1>1. CASE Timeout(j) \/ RequestFails(j) \/ Fail(j)
  <2>1. UNCHANGED chainVars /\ Forget(j)
    BY <1>1 DEF Timeout, RequestFails, Fail
  <2>2. pending # None => pending \in Txs
    BY DEF IndInv, TypeInv
  <2> QED
    BY <2>1, <2>2 DEF Forget, Txs
<1>2. CASE ~(Timeout(j) \/ RequestFails(j) \/ Fail(j))
  BY <1>2 DEF Step, ReadHead, ReadCursor, StartPaging, StartL1ToL2, StartL2ToL1, FetchPage,
     SubmitToL2, SubmitToL1, SubmitClaim, Send, AlreadyExecuted, EstimateReverts,
     SubmitUnderpriced, Confirm, WaitInVain, SaveCursor
<1> QED
  BY <1>1, <1>2

LEMMA NextSent == ASSUME IndInv, IndInv', SentInv, [Next]_vars PROVE SentInv'
<1>1. sent \in Nat /\ sent' \in Nat /\ executed \in Seq(Calls)
  BY RelayAssumption DEF IndInv, TypeInv, MaxMessages
<1>2. /\ \A j \in Jobs : job[j] \in Runs
      /\ \A r \in Runs : r.cur \in Nat
  <2>1. \A r \in Runs : r.cur \in 0..MaxMessages
    BY DEF Runs
  <2>2. 0..MaxMessages \subseteq Nat
    BY RelayAssumption DEF MaxMessages
  <2>3. \A j \in Jobs : job[j] \in Runs
    BY DEF IndInv, TypeInv
  <2> QED
    BY <2>1, <2>2, <2>3
<1>3. pending # None => pending.call \in Calls
  BY DEF IndInv, TypeInv, Txs
<1>4. \A c \in Calls : c.msg \in Nat
  BY RelayAssumption DEF Calls, MaxMessages
<1>5. \A e \in ToSet(executed) : e \in Calls
  BY <1>1 DEF ToSet
<1>6. CASE UNCHANGED <<kind, sent, job, executed, pending>>
  BY <1>6 DEF SentInv
<1>7. CASE SendMessage
  BY <1>1, <1>2, <1>3, <1>4, <1>5, <1>7 DEF SentInv, SendMessage
<1>8. CASE Mine
  <2>1. /\ pending # None /\ pending' = None
        /\ executed' = executed \/ executed' = Append(executed, pending.call)
        /\ UNCHANGED <<kind, sent, job>>
    BY <1>8 DEF Mine
  <2>2. PICK c \in Calls : c = pending.call
    BY <1>3, <2>1
  <2>3. \A e \in ToSet(executed') : e \in ToSet(executed) \/ e = c
    BY <2>1, <2>2, ExecuteType DEF IndInv
  <2>4. kind # "messenger" => c.msg <= sent
    BY <2>1, <2>2 DEF SentInv
  <2> QED
    BY <2>1, <2>3, <2>4 DEF SentInv
<1>9. CASE \E m \in 1..MaxMessages : Deliver(m)
  BY <1>9 DEF SentInv, Deliver
<1>10. ASSUME NEW j \in Jobs,
             \/ ReadHead(j) \/ ReadCursor(j) \/ \E type \in Types : StartPaging(j, type)
             \/ Step(j) \/ SubmitUnderpriced(j) \/ Timeout(j) \/ RequestFails(j) \/ Fail(j)
       PROVE  SentInv'
  <2>1. PICK r : job' = [job EXCEPT ![j] = r] /\ r.cur \in {0, job[j].cur} \cup Heads
    BY <1>10, RunFollows DEF Follows
  <2>2. /\ UNCHANGED chainVars
        /\ \/ pending' = pending
           \/ pending # None /\ pending'.call = pending.call
           \/ job[j].pc = "submitting" /\ pending' = [call |-> Call(j), owner |-> j]
    BY <1>10, RunSends
  <2>3. \A i \in Jobs : job'[i].cur <= sent
    <3>1. \A b \in Heads : b <= sent
      BY <1>1 DEF Heads
    <3>2. r.cur <= sent
      BY <1>1, <2>1, <3>1 DEF SentInv
    <3>3. \A i \in Jobs : job'[i] = IF i = j THEN r ELSE job[i]
      BY <2>1 DEF IndInv, TypeInv
    <3> QED
      BY <3>2, <3>3 DEF SentInv
  <2>4. kind # "messenger" /\ pending' # None => pending'.call.msg <= sent
    <3>1. CASE pending' = pending
      BY <3>1 DEF SentInv
    <3>2. CASE pending # None /\ pending'.call = pending.call
      BY <3>2 DEF SentInv
    <3>3. CASE job[j].pc = "submitting" /\ pending'.call = Call(j) /\ kind # "messenger"
      <4>1. PICK run \in Runs : run = job[j]
        BY <1>2
      <4>2. run.todo \in Seq(Calls) /\ run.todo # <<>> /\ Call(j) = Head(run.todo) /\ TodoInv(run)
        BY <3>3, <4>1, AtCall
      <4>3. Call(j) \in ToSet(run.todo)
        BY <4>2, TailElements
      <4>4. Call(j).msg <= run.cur /\ Call(j) \in Calls
        BY <4>2, <4>3 DEF TodoInv, AllCalls
      <4>5. run.cur <= sent /\ run.cur \in Nat
        BY <1>2, <4>1 DEF SentInv
      <4> QED
        BY <1>1, <1>4, <3>3, <4>4, <4>5
    <3> QED
      BY <2>2, <3>1, <3>2, <3>3
  <2>5. UNCHANGED <<kind, sent, executed>>
    BY <2>2 DEF chainVars
  <2> QED
    BY <2>3, <2>4, <2>5 DEF SentInv
<1>11. CASE Index \/ UNCHANGED vars
  BY <1>6, <1>11 DEF Index, vars
<1> QED
  BY <1>7, <1>8, <1>9, <1>10, <1>11 DEF Next

-----------------------------------------------------------------------------
(* The theorems.                                                           *)

LEMMA InitInd == Init => IndInv
<1> SUFFICES ASSUME Init PROVE IndInv
  OBVIOUS
<1> USE DEF Init
<1>1. job = [j \in Jobs |-> Idle] /\ receipt = [j \in Jobs |-> "none"]
  OBVIOUS
<1>2. executed \in Seq(Calls) /\ ToSet(executed) = {} /\ Len(executed) = 0
  BY DEF ToSet
<1>3. TypeInv
  BY <1>1, <1>2, IdleRun, RelayAssumption DEF TypeInv, MaxMessages
<1>4. \A j \in Jobs : RunInv(job[j], receipt[j])
  BY <1>1, IdleRun
<1>5. PendingInv
  BY DEF PendingInv
<1>6. CursorInv
  BY DEF CursorInv, PassedUpTo, AllCalls, Calls
<1>7. ExecutedInv
  BY <1>2 DEF ExecutedInv
<1> QED
  BY <1>3, <1>4, <1>5, <1>6, <1>7 DEF IndInv

LEMMA StutterInd == ASSUME IndInv, UNCHANGED vars PROVE IndInv'
<1> USE DEF vars
<1>1. Grows
  BY GrowsBy DEF IndInv
<1>2. TypeInv'
  BY DEF IndInv, TypeInv
<1> QED
  BY <1>1, <1>2, KeepsOthers, EnvironmentInd

LEMMA NextInd == ASSUME IndInv, [Next]_vars PROVE IndInv'
<1>1. CASE SendMessage
  BY <1>1, SendMessageInd
<1>2. CASE Mine
  BY <1>2, MineInd
<1>3. CASE Index
  BY <1>3, IndexInd
<1>4. CASE \E m \in 1..MaxMessages : Deliver(m)
  BY <1>4, DeliverInd
<1>5. ASSUME NEW j \in Jobs,
             \/ ReadHead(j) \/ ReadCursor(j) \/ \E type \in Types : StartPaging(j, type)
             \/ Step(j) \/ SubmitUnderpriced(j) \/ Timeout(j) \/ RequestFails(j) \/ Fail(j)
      PROVE  IndInv'
  <2>1. CASE ReadHead(j) \/ ReadCursor(j) \/ \E type \in Types : StartPaging(j, type)
    BY <2>1, ReadHeadInd, ReadCursorInd, StartPagingInd
  <2>2. CASE Step(j)
    BY <2>2, StartInd, FetchPageInd, SubmitInd, AlreadyExecutedInd, EstimateRevertsInd,
       ConfirmInd, WaitInVainInd, SaveCursorInd DEF Step
  <2>3. CASE SubmitUnderpriced(j) \/ Timeout(j) \/ RequestFails(j) \/ Fail(j)
    BY <2>3, SubmitUnderpricedInd, TimeoutInd, RequestFailsInd, FailInd
  <2> QED
    BY <1>5, <2>1, <2>2, <2>3
<1>6. CASE UNCHANGED vars
  BY <1>6, StutterInd
<1> QED
  BY <1>1, <1>2, <1>3, <1>4, <1>5, <1>6 DEF Next

\* The inductive invariant holds in every state of the relayers.
THEOREM Invariance == Spec => []IndInv
BY InitInd, NextInd, PTL DEF Spec

\* Every variable keeps its type: a run holds calls only, or messages while
\* it pages, and fewer attempts than TRANSACTION_MAX_RETRIES.
THEOREM TypeCorrect == Spec => []TypeOK
<1>1. IndInv => TypeOK
  <2> SUFFICES ASSUME IndInv PROVE TypeOK
    OBVIOUS
  <2>1. ASSUME NEW j \in Jobs
        PROVE  /\ job[j].pc \in PCs /\ job[j].attempt \in 0..MaxAttempts - 1
               /\ job[j].todo \in Seq(IF job[j].pc = "paging" THEN 1..MaxMessages ELSE Calls)
    BY DEF IndInv, TypeInv, Runs, RunInv
  <2> QED
    BY <2>1 DEF IndInv, TypeInv, TypeOK, Receipts
<1> QED
  BY <1>1, Invariance, PTL

\* The cursor passes a message only when the target has executed all of its
\* calls, or, without decoding, where the relayer passes over what is refused
\* and what a request failed for: for any number of runs that overlap, retry and are killed.
THEOREM CursorIsBehind == Spec => []CursorBehindExecuted
<1>1. IndInv => CursorBehindExecuted
  <2> SUFFICES ASSUME IndInv, NEW m \in 1..cursor
               PROVE  Done(m) \/ (kind = "undecoded" /\ m \in reverting \cup dropped)
    BY DEF CursorBehindExecuted
  <2>1. m \in 1..MaxMessages /\ PassedUpTo(cursor)
    BY RelayAssumption DEF IndInv, TypeInv, CursorInv, MaxMessages
  <2> SUFFICES ASSUME ~(kind = "undecoded" /\ m \in reverting \cup dropped),
                      NEW k \in 1..NumCalls(m)
               PROVE  Executed(CallsOf(m)[k])
    BY DEF Done
  <2>2. NumCalls(m) \in Nat
    BY <2>1, NumCallsType
  <2>3. CallsOf(m)[k] = [msg |-> m, k |-> k]
    BY DEF CallsOf
  <2>4. [msg |-> m, k |-> k] \in AllCalls
    BY <2>1, <2>2 DEF AllCalls, Calls
  <2>5. Passed([msg |-> m, k |-> k])
    BY <2>1, <2>4, RelayAssumption DEF PassedUpTo, IndInv, TypeInv, MaxMessages
  <2> QED
    BY <2>3, <2>5 DEF Passed
<1> QED
  BY <1>1, Invariance, PTL

\* What has arrived after a step is as much or more, and never more than sent.
LEMMA ArrivedGrows ==
    ASSUME IndInv, IndInv', ItemsInv, ItemsInv', SentInv', kind \in Deliveries, [Next]_vars,
           UNCHANGED <<kind, sent>>
    PROVE  \E n, u \in Nat : /\ n <= u /\ u <= LastItem[sent]
                             /\ ArrivedItems = Numbers(n) /\ ArrivedItems' = Numbers(u)
<1>1. PICK n \in Nat : /\ FlattenSeq(Carried) = Numbers(n)
                       /\ n = 0 \/ \E e \in ToSet(executed) : Upto(e) = n
  BY DEF ItemsInv, Deliveries
<1>2. PICK u \in Nat : /\ FlattenSeq(Carried') = Numbers(u)
                       /\ \A e \in ToSet(executed') : Upto(e) <= u
                       /\ u = 0 \/ \E e \in ToSet(executed') : Upto(e) = u
  BY DEF ItemsInv, Deliveries
<1>3. ToSet(executed) \subseteq ToSet(executed')
  <2>1. executed' = executed \/ \E c \in Calls : executed' = Append(executed, c)
    <3>1. CASE Mine
      BY <3>1 DEF Mine, IndInv, TypeInv, Txs
    <3>2. CASE ~Mine
      BY ZenonT(60), <3>2 DEF Deliveries, Next, Step, SendMessage, Index, Deliver, ReadHead, ReadCursor, StartPaging,
         StartL1ToL2, StartL2ToL1, FetchPage, SubmitToL2, SubmitToL1, SubmitClaim, Send,
         AlreadyExecuted, EstimateReverts, SubmitUnderpriced, Confirm, WaitInVain,
         Timeout, RequestFails, Fail, SaveCursor, chainVars, vars
    <3> QED
      BY <3>1, <3>2
  <2> QED
    BY <2>1, ExecuteType DEF IndInv
<1>4. n <= u
  BY <1>1, <1>2, <1>3
<1>5. u <= LastItem[sent]
  <2>1. sent \in 0..MaxMessages
    BY DEF IndInv, TypeInv
  <2>2. LastItem[sent] \in Nat
    BY <2>1, LastItemProperties
  <2>3. ASSUME NEW e \in ToSet(executed') PROVE Upto(e) <= LastItem[sent]
    <3>1. e \in AllCalls
      BY SameCalls DEF IndInv, ExecutedInv, Deliveries
    <3>2. e.msg <= sent
      BY DEF SentInv, Deliveries
    <3>3. /\ Upto(e) \in Nat /\ Upto(e) <= LastItem[e.msg] /\ e.msg \in 1..MaxMessages
      BY <3>1, BatchBounds DEF Deliveries
    <3>4. e.msg \in 0..MaxMessages
      BY <3>3, RelayAssumption DEF MaxMessages
    <3>5. LastItem[e.msg] <= LastItem[sent] /\ LastItem[e.msg] \in Nat
      BY <2>1, <3>2, <3>4, LastItemProperties
    <3> QED
      BY <2>2, <3>3, <3>5
  <2> QED
    BY <1>2, <2>2, <2>3
<1>6. ArrivedItems = FlattenSeq(Carried) /\ ArrivedItems' = FlattenSeq(Carried')
  BY DEF ArrivedItems, Carried
<1> QED
  BY <1>1, <1>2, <1>4, <1>5, <1>6

\* Every step of the relayers is one of OrderedDelivery, or none.
LEMMA DeliveryStep ==
    ASSUME IndInv, IndInv', ItemsInv, ItemsInv', SentInv, SentInv', [Next]_vars
    PROVE  [Delivery!Next]_(Delivery!deliveryVars)
<1> USE DEF Deliveries
<1> SUFFICES ASSUME ~UNCHANGED <<SentItems, ArrivedItems>>
             PROVE  Delivery!Post \/ Delivery!Arrive
  BY DEF Delivery!Next, Delivery!deliveryVars
<1>1. kind' = kind
  BY DEF Next, Step, SendMessage, Mine, Index, Deliver, ReadHead, ReadCursor, StartPaging,
         StartL1ToL2, StartL2ToL1, FetchPage, SubmitToL2, SubmitToL1, SubmitClaim, Send,
         AlreadyExecuted, EstimateReverts, SubmitUnderpriced, Confirm, WaitInVain,
         Timeout, RequestFails, Fail, SaveCursor, chainVars, vars
<1>2. CASE kind \notin Deliveries
  <2>1. SentItems = 0 /\ ArrivedItems = <<>> /\ SentItems' = 0 /\ ArrivedItems' = <<>>
    BY <1>1, <1>2 DEF SentItems, ArrivedItems
  <2> QED
    BY <2>1
<1>3. CASE kind \in Deliveries /\ SendMessage
  <2>1. sent \in 0..MaxMessages /\ sent' \in 0..MaxMessages /\ sent < sent'
    BY <1>3, RelayAssumption DEF IndInv, TypeInv, SendMessage, MaxMessages
  <2>2. LastItem[sent] <= LastItem[sent'] /\ LastItem[sent] \in Nat /\ LastItem[sent'] \in Nat
    BY <2>1, LastItemProperties
  <2>3. SentItems = LastItem[sent] /\ SentItems' = LastItem[sent']
    BY <1>1, <1>3 DEF SentItems
  <2>4. ArrivedItems' = ArrivedItems
    BY <1>3 DEF ArrivedItems, SendMessage
  <2>5. SentItems' \in Nat /\ SentItems' > SentItems
    BY <2>2, <2>3, <2>4
  <2> QED
    BY <2>4, <2>5 DEF Delivery!Post
<1>4. CASE kind \in Deliveries /\ ~SendMessage
  <2>1. sent' = sent
    BY ZenonT(60), <1>4 DEF Next, Step, Mine, Index, Deliver, ReadHead, ReadCursor, StartPaging,
         StartL1ToL2, StartL2ToL1, FetchPage, SubmitToL2, SubmitToL1, SubmitClaim, Send,
         AlreadyExecuted, EstimateReverts, SubmitUnderpriced, Confirm, WaitInVain,
         Timeout, RequestFails, Fail, SaveCursor, chainVars, vars
  <2>2. PICK n, u \in Nat : /\ n <= u /\ u <= LastItem[sent]
                            /\ ArrivedItems = Numbers(n) /\ ArrivedItems' = Numbers(u)
    BY <1>1, <1>4, <2>1, ArrivedGrows
  <2>3. SentItems' = SentItems /\ SentItems = LastItem[sent]
    BY <1>1, <1>4, <2>1 DEF SentItems
  <2>4. n # u
    BY <2>2, <2>3
  <2>5. Len(ArrivedItems) = n
    BY <2>2 DEF Numbers
  <2>6. LastItem[sent] \in Nat
    BY LastItemProperties DEF IndInv, TypeInv
  <2>7. u \in Len(ArrivedItems) + 1..SentItems
    BY <2>2, <2>3, <2>4, <2>5, <2>6
  <2>8. ArrivedItems' = [i \in 1..u |-> i]
    BY <2>2 DEF Numbers
  <2> QED
    BY <2>3, <2>7, <2>8 DEF Delivery!Arrive
<1> QED
  BY <1>2, <1>3, <1>4

\* The deposits reach the Rollup contract, and the withdrawals Liquidity, in
\* the order of their ids, each once and none before it was sent, however the
\* messages are cut into batches and whichever runs send them again: the
\* relayers implement OrderedDelivery.
THEOREM RelayImplementsDelivery == Spec => ImplementsDelivery
<1>1. Init => ItemsInv
  <2> SUFFICES ASSUME Init PROVE \E n \in Nat :
                   /\ FlattenSeq(Carried) = Numbers(n)
                   /\ \A e \in ToSet(executed) : Upto(e) <= n
                   /\ n = 0
    BY DEF ItemsInv
  <2>1. executed = <<>> /\ ToSet(executed) = {} /\ Carried = <<>> /\ Numbers(0) = <<>>
    BY DEF Init, ToSet, Carried, Numbers
  <2>2. FlattenSeq(<<>>) = <<>>
    BY EmptyFlattened
  <2> QED
    BY <2>1, <2>2
<1>2. Init => SentInv
  BY DEF Init, SentInv, Idle, ToSet
<1>3. Init => Delivery!Init
  <2> SUFFICES ASSUME Init PROVE SentItems = 0 /\ ArrivedItems = <<>>
    BY DEF Delivery!Init
  <2>1. sent = 0 /\ executed = <<>>
    BY DEF Init
  <2>2. LastItem[0] = 0 /\ FlattenSeq(<<>>) = <<>>
    BY LastItemProperties, EmptyFlattened
  <2>3. [i \in DOMAIN executed |-> ItemsIn(executed[i])] = <<>>
    BY <2>1
  <2> QED
    BY <2>1, <2>2, <2>3 DEF SentItems, ArrivedItems
<1>4. Spec => []ItemsInv
  BY <1>1, NextItems, Invariance, PTL DEF Spec
<1>5. Spec => []SentInv
  BY <1>2, NextSent, Invariance, PTL DEF Spec
<1> QED
  BY <1>3, <1>4, <1>5, Invariance, DeliveryStep, PTL DEF Spec, ImplementsDelivery, Delivery!Spec
=============================================================================
