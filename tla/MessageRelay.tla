---------------------------- MODULE MessageRelay ----------------------------
(***************************************************************************)
(* The three relayers of messages between L1 and L2 that share one loop:   *)
(* mock-l1-to-l2-relayer ("decoded", or "undecoded" with                   *)
(* MOCK_L1_SENDER_EVENT_DECODE_ENABLED off), mock-l2-to-l1-relayer ("l2")  *)
(* and messenger-relayer ("messenger").  A run lists the messages it owes, *)
(* the mock relayers by a cursor over SentMessage logs, messenger-relayer  *)
(* by the pages of the Scroll API; it cuts the items of each message into  *)
(* calls and sends one call after the other from one wallet.  The cursor   *)
(* is saved after the last call only, so a later run sends the first calls *)
(* again and leans on the contract's "already executed".                   *)
(*                                                                         *)
(* The messenger contracts, the Scroll API and the chains are external.    *)
(* Positions in the log stand for blocks: a range without a log may be     *)
(* empty or not.  The messages messenger-relayer sees fit one batch.       *)
(***************************************************************************)
EXTENDS Integers, SequencesExt

CONSTANTS
    Jobs,         \* executions of the job that can be in flight together
    None,         \* no transaction, no run
    Kinds,        \* the relayers to look at
    ItemsOf,      \* ItemsOf[m]: deposits or withdrawals in message m
    TypeMaps,     \* the types messages may have: "withdrawal" or "claim"
    BatchSize,    \* MAX_RELAYER_BATCH_SIZE of the mock relayers
    PageSize,     \* DEFAULT_PAGE_SIZE
    MaxAttempts,  \* TRANSACTION_MAX_RETRIES
    CanRevert,    \* the sets of messages whose call may revert for ever
    RpcLag,       \* logs by which the node that answers may be behind
    MaxFaults     \* bound: failed requests, timed out waits, killed runs

ASSUME RelayAssumption ==
    /\ ItemsOf \in Seq(Nat)
    /\ Kinds \subseteq {"decoded", "undecoded", "l2", "messenger"}
    /\ BatchSize \in Nat \ {0}
    /\ PageSize \in Nat \ {0}
    /\ MaxAttempts \in Nat \ {0}
    /\ RpcLag \in Nat
    /\ MaxFaults \in Nat

MaxMessages == Len(ItemsOf)
Calls == [msg : 1..MaxMessages, k : Nat]
Txs == [call : Calls, owner : Jobs \cup {None}]

ASSUME NoneAssumption == None \notin Jobs \cup Txs

VARIABLES
    kind,      \* the relayer
    typeOf,    \* the type of each message, for messenger-relayer
    reverting, \* the messages the target contract refuses
    sent,      \* the SentMessage logs are 1..sent
    executed,  \* the calls the target contract has executed, in order
    indexed,   \* how many of them the Scroll API knows of
    pending,   \* the wallet's transaction in the mempool
    cursor,    \* the log up to which the cursor document has come
    job,       \* the local variables of each run
    receipt,   \* the receipt of the transaction a run waits for
    faults,
    dropped    \* history: the messages passed over because a request failed

vars == <<kind, typeOf, reverting, sent, executed, indexed, pending, cursor, job, receipt,
          faults, dropped>>

chainVars == <<kind, typeOf, reverting, sent, executed, indexed>>

Types == {"withdrawal", "claim"}
CursorKinds == {"decoded", "undecoded", "l2"}

Idle == [pc |-> "idle", from |-> 0, cur |-> 0, type |-> "withdrawal", page |-> 1,
         todo |-> <<>>, attempt |-> 0]

Init ==
    /\ kind \in Kinds
    /\ typeOf \in TypeMaps
    /\ kind # "messenger" => typeOf = CHOOSE map \in TypeMaps : TRUE
    /\ reverting \in CanRevert
    /\ sent = 0
    /\ executed = <<>>
    /\ indexed = 0
    /\ pending = None
    /\ cursor = 0
    /\ job = [j \in Jobs |-> Idle]
    /\ receipt = [j \in Jobs |-> "none"]
    /\ faults = 0
    /\ dropped = {}

-----------------------------------------------------------------------------
(* The calls of a message.                                                 *)

\* The items of all messages are numbered through, as deposit ids are.
LastItem[m \in 0..MaxMessages] == IF m = 0 THEN 0 ELSE LastItem[m - 1] + ItemsOf[m]

\* Mutant: the last, shorter batch is dropped.
Batches_FullOnly(m) == ItemsOf[m] \div BatchSize

Batches(m) == (ItemsOf[m] + BatchSize - 1) \div BatchSize

\* generateDepositsCalldata: undecoded, the message is passed on as it is.
DepositCalls(m) == IF kind = "undecoded" THEN 1 ELSE Batches(m)

\* generateCalldata of mock-l2-to-l1-relayer
WithdrawalCalls(m) == Batches(m)

\* generateCalldata of messenger-relayer
ClaimCalls(m) == IF ItemsOf[m] = 0 THEN 0 ELSE 1

NumCalls(m) ==
    CASE kind = "l2" -> WithdrawalCalls(m)
      [] kind = "messenger" -> ClaimCalls(m)
      [] OTHER -> DepositCalls(m)

CallsOf(m) == [k \in 1..NumCalls(m) |-> [msg |-> m, k |-> k]]

\* extractValidDeposits: a message says its last id and its hashes, and the
\* first id is counted back from them.
ItemsOfMessage(m) == [i \in 1..ItemsOf[m] |-> LastItem[m] - ItemsOf[m] + i]

\* generateBatchedCalldata
ItemsIn(call) ==
    LET items == ItemsOfMessage(call.msg)
        upTo == call.k * BatchSize
    IN  SubSeq(items, upTo - BatchSize + 1, Min({upTo, Len(items)}))

Executed(call) == call \in ToSet(executed)

Done(m) == \A i \in 1..NumCalls(m) : Executed(CallsOf(m)[i])

Call(j) == Head(job[j].todo)

-----------------------------------------------------------------------------
(* The environment: logs, the contract, the Scroll API and the mempool.    *)

SendMessage ==
    /\ sent < MaxMessages
    /\ sent' = sent + 1
    /\ UNCHANGED <<kind, typeOf, reverting, executed, indexed, pending, cursor,
                   job, receipt, faults, dropped>>

\* A call succeeds once, and never for a message that is refused.
Succeeds(call) == ~Executed(call) /\ call.msg \notin reverting

Mine ==
    /\ pending # None
    /\ executed' = IF Succeeds(pending.call) THEN Append(executed, pending.call) ELSE executed
    /\ receipt' = [j \in Jobs |-> IF j # pending.owner THEN receipt[j]
                                  ELSE IF Succeeds(pending.call) THEN "success" ELSE "failed"]
    /\ pending' = None
    /\ UNCHANGED <<kind, typeOf, reverting, sent, indexed, cursor, job, faults, dropped>>

\* Anybody may claim a withdrawal on L1.
Deliver(m) ==
    /\ kind = "messenger"
    /\ m <= sent
    /\ ItemsOf[m] > 0
    /\ Succeeds([msg |-> m, k |-> 1])
    /\ executed' = Append(executed, [msg |-> m, k |-> 1])
    /\ UNCHANGED <<kind, typeOf, reverting, sent, indexed, pending, cursor,
                   job, receipt, faults, dropped>>

\* What is claimed leaves the API's list some time later.
Index ==
    /\ indexed < Len(executed)
    /\ kind = "messenger"
    /\ indexed' = Len(executed)
    /\ UNCHANGED <<kind, typeOf, reverting, sent, executed, pending, cursor,
                   job, receipt, faults, dropped>>

\* The claimable messages of a contract, the latest first.
Listed(type) ==
    LET known == ToSet(SubSeq(executed, 1, indexed))
        claimable(m) == typeOf[m] = type /\ [msg |-> m, k |-> 1] \notin known
        upTo[m \in 0..sent] ==
            IF m = 0 THEN <<>> ELSE (IF claimable(m) THEN <<m>> ELSE <<>>) \o upTo[m - 1]
    IN  upTo[sent]

-----------------------------------------------------------------------------
(* What a run has to relay.                                                *)

\* On to the calls, or straight to the end: the messages of a run may hold
\* no call, and messenger-relayer has no cursor.
Begin(run, msgs) ==
    LET todo == FlattenSeq([i \in DOMAIN msgs |-> CallsOf(msgs[i])])
    IN  IF todo # <<>> THEN [run EXCEPT !.pc = "submitting", !.todo = todo]
        ELSE IF kind = "messenger" THEN Idle ELSE [run EXCEPT !.pc = "closing"]

Heads == {b \in 0..sent : sent - b <= RpcLag}

\* performJob of both mock relayers may see the head before the cursor, ...
ReadHead(j) ==
    /\ kind \in CursorKinds
    /\ job[j].pc = "idle"
    /\ \E b \in Heads : job' = [job EXCEPT ![j] = [Idle EXCEPT !.pc = "head", !.cur = b]]
    /\ UNCHANGED <<chainVars, pending, cursor, receipt, faults, dropped>>

\* ... mock-l1-to-l2-relayer, which asks for both at once, after it as well.
ReadCursor(j) ==
    /\ kind \in {"decoded", "undecoded"}
    /\ job[j].pc = "idle"
    /\ job' = [job EXCEPT ![j] = [Idle EXCEPT !.pc = "cursor", !.from = cursor]]
    /\ UNCHANGED <<chainVars, pending, cursor, receipt, faults, dropped>>

\* fetchSentMessages and getL2SentMessage: the logs in their order.
Logs(from, cur) == [i \in 1..cur - from |-> from + i]

\* validateBlockRange and the calls of the range; one without a log may be
\* invalid.
Fetch(j, from, cur) ==
    \/ from >= cur /\ job' = [job EXCEPT ![j] = Idle]
    \/ from <= cur /\ job' = [job EXCEPT ![j] = Begin([@ EXCEPT !.from = 0, !.cur = cur],
                                                     Logs(from, cur))]

\* performJob of mock-l1-to-l2-relayer, once it has both answers.
StartL1ToL2(j) ==
    /\ kind # "l2"
    /\ \/ job[j].pc = "head" /\ Fetch(j, cursor, job[j].cur)
       \/ job[j].pc = "cursor" /\ \E b \in Heads : Fetch(j, job[j].from, b)
    /\ UNCHANGED <<chainVars, pending, cursor, receipt, faults, dropped>>

\* performJob of mock-l2-to-l1-relayer
StartL2ToL1(j) ==
    /\ kind = "l2"
    /\ job[j].pc = "head"
    /\ Fetch(j, cursor, job[j].cur)
    /\ UNCHANGED <<chainVars, pending, cursor, receipt, faults, dropped>>

\* messenger-relayer takes its type from the command line.
StartPaging(j, type) ==
    /\ kind = "messenger"
    /\ job[j].pc = "idle"
    /\ job' = [job EXCEPT ![j] = [Idle EXCEPT !.pc = "paging", !.type = type]]
    /\ UNCHANGED <<chainVars, pending, cursor, receipt, faults, dropped>>

\* fetchAllClaimableScrollMessengerResults, one page: `todo` holds the
\* messages so far.  The list may change between two pages, and an empty
\* list makes it forget the pages before.
FetchPage(j) ==
    LET run == job[j]
        list == Listed(run.type)
        upTo == run.page * PageSize
        found == run.todo \o SubSeq(list, upTo - PageSize + 1, Min({upTo, Len(list)}))
    IN  /\ run.pc = "paging"
        /\ job' = [job EXCEPT ![j] =
             IF list = <<>> THEN Idle
             ELSE IF upTo < Len(list) THEN [run EXCEPT !.todo = found, !.page = @ + 1]
             ELSE Begin([run EXCEPT !.todo = <<>>, !.page = 1], found)]
        /\ UNCHANGED <<chainVars, pending, cursor, receipt, faults, dropped>>

-----------------------------------------------------------------------------
(* The loop over the calls.                                                *)

\* The run waits for its transaction no more; it stays in the mempool.
Forget(j) ==
    /\ receipt' = [receipt EXCEPT ![j] = "none"]
    /\ pending' = IF pending # None /\ pending.owner = j
                    THEN [pending EXCEPT !.owner = None] ELSE pending

\* The call is done with: the next one, or the end of the run.
Advance(j) ==
    LET rest == Tail(job[j].todo)
    IN  job' = [job EXCEPT ![j] =
          IF rest # <<>> THEN [@ EXCEPT !.pc = "submitting", !.todo = rest, !.attempt = 0]
          ELSE IF kind = "messenger" THEN Idle
          ELSE [@ EXCEPT !.pc = "closing", !.todo = <<>>, !.attempt = 0]]

\* Mutant: the attempts are counted after the check.
Retry_OneMore(j) ==
    job' = [job EXCEPT ![j] = IF @.attempt = MaxAttempts THEN Idle
                              ELSE [@ EXCEPT !.pc = "submitting", !.attempt = @ + 1]]

\* The catch block for an error worth a retry.
Retry(j) ==
    LET next == job[j].attempt + 1
    IN  job' = [job EXCEPT ![j] =
          IF next = MaxAttempts THEN Idle
          ELSE [@ EXCEPT !.pc = "submitting", !.attempt = next]]

\* Mutant: this relayer passes over a call that fails, too.
RefuseToL1_Skips(j) == Advance(j)

\* The catch block of relayMessageWithProof for any other error: it is thrown
\* and ends the run.
RefuseToL1(j) == job' = [job EXCEPT ![j] = Idle]

RefuseClaim(j) == job' = [job EXCEPT ![j] = Idle]

\* Without decoding mock-l1-to-l2-relayer passes over the call, whatever the
\* error, except by the last attempt.
PassesOver(j) == kind = "undecoded" /\ job[j].attempt < MaxAttempts - 1

RefuseToL2(j) ==
    IF PassesOver(j) THEN Advance(j)
    ELSE job' = [job EXCEPT ![j] = Idle]

Refuse(j) ==
    CASE kind = "l2" -> RefuseToL1(j)
      [] kind = "messenger" -> RefuseClaim(j)
      [] OTHER -> RefuseToL2(j)

\* The transaction takes the wallet's latest nonce and replaces the one in
\* the mempool, be it of another run or of the other messenger type.
Send(j) ==
    /\ job[j].pc = "submitting"
    /\ pending' = [call |-> Call(j), owner |-> j]
    /\ job' = [job EXCEPT ![j].pc = "waiting"]
    /\ UNCHANGED <<chainVars, cursor, receipt, faults, dropped>>

\* submitRelayMessagesToL2MockMessengerWithRetry: gas estimation passes.
SubmitToL2(j) == kind \in {"decoded", "undecoded"} /\ Send(j) /\ Succeeds(Call(j))

\* submitMessageToScroll of mock-l2-to-l1-relayer: the same with other fees.
SubmitToL1(j) == kind = "l2" /\ Send(j) /\ Succeeds(Call(j))

\* submitMessageToScroll of messenger-relayer fixes the gas limit, and with
\* it goes the estimate that would revert.
SubmitClaim(j) == kind = "messenger" /\ Send(j)

\* Mutant: a message that was relayed before is an error.
AlreadyExecuted_Throws(j) ==
    /\ job[j].pc = "submitting"
    /\ kind # "messenger"
    /\ Executed(Call(j))
    /\ job' = [job EXCEPT ![j] = Idle]
    /\ UNCHANGED <<chainVars, pending, cursor, receipt, faults, dropped>>

\* "Message was already successfully executed": on to the next call.
AlreadyExecuted(j) ==
    /\ job[j].pc = "submitting"
    /\ kind # "messenger"
    /\ Executed(Call(j))
    /\ Advance(j)
    /\ UNCHANGED <<chainVars, pending, cursor, receipt, faults, dropped>>

EstimateReverts(j) ==
    /\ job[j].pc = "submitting"
    /\ kind # "messenger"
    /\ Call(j).msg \in reverting
    /\ Refuse(j)
    /\ UNCHANGED <<chainVars, pending, cursor, receipt, faults, dropped>>

\* "replacement fee too low": the mempool keeps the transaction it has.
SubmitUnderpriced(j) ==
    /\ job[j].pc = "submitting"
    /\ pending # None
    /\ Retry(j)
    /\ UNCHANGED <<chainVars, pending, cursor, receipt, faults, dropped>>

\* A transaction that was mined without success is an error like others.
Confirm(j) ==
    /\ job[j].pc = "waiting"
    /\ receipt[j] # "none"
    /\ IF receipt[j] = "success" THEN Advance(j) ELSE Refuse(j)
    /\ receipt' = [receipt EXCEPT ![j] = "none"]
    /\ UNCHANGED <<chainVars, pending, cursor, faults, dropped>>

\* The transaction was replaced by another run: its receipt never comes.
WaitInVain(j) ==
    /\ job[j].pc = "waiting"
    /\ receipt[j] = "none"
    /\ pending # None => pending.owner # j
    /\ Retry(j)
    /\ UNCHANGED <<chainVars, pending, cursor, receipt, faults, dropped>>

\* A request or the wait times out, or a node leaves out why it refused.
Timeout(j) ==
    /\ job[j].pc \in {"submitting", "waiting"}
    /\ faults < MaxFaults
    /\ faults' = faults + 1
    /\ Retry(j)
    /\ Forget(j)
    /\ UNCHANGED <<chainVars, cursor, dropped>>

\* A request of the attempt fails in any other way.
RequestFails(j) ==
    /\ job[j].pc \in {"submitting", "waiting"}
    /\ faults < MaxFaults
    /\ faults' = faults + 1
    /\ Refuse(j)
    /\ Forget(j)
    /\ dropped' = IF PassesOver(j) THEN dropped \cup {Call(j).msg} ELSE dropped
    /\ UNCHANGED <<chainVars, cursor>>

\* A request outside of the loop fails, or the container is killed.
Fail(j) ==
    /\ job[j].pc # "idle"
    /\ faults < MaxFaults
    /\ faults' = faults + 1
    /\ job' = [job EXCEPT ![j] = Idle]
    /\ Forget(j)
    /\ UNCHANGED <<chainVars, cursor, dropped>>

SaveCursor(j) ==
    /\ job[j].pc = "closing"
    /\ cursor' = job[j].cur
    /\ job' = [job EXCEPT ![j] = Idle]
    /\ UNCHANGED <<chainVars, pending, receipt, faults, dropped>>

Step(j) ==
    \/ StartL1ToL2(j) \/ StartL2ToL1(j) \/ FetchPage(j)
    \/ SubmitToL2(j) \/ SubmitToL1(j) \/ SubmitClaim(j) \/ AlreadyExecuted(j) \/ EstimateReverts(j)
    \/ Confirm(j) \/ WaitInVain(j) \/ SaveCursor(j)

Next ==
    \/ SendMessage \/ Mine \/ Index \/ \E m \in 1..MaxMessages : Deliver(m)
    \/ \E j \in Jobs :
         \/ ReadHead(j) \/ ReadCursor(j) \/ \E type \in Types : StartPaging(j, type)
         \/ Step(j) \/ SubmitUnderpriced(j) \/ Timeout(j) \/ RequestFails(j) \/ Fail(j)

Spec == Init /\ [][Next]_vars

-----------------------------------------------------------------------------
(* Properties.                                                             *)

PCs == {"idle", "head", "cursor", "paging", "submitting", "waiting", "closing"}

\* Type invariant of the state above.
TypeOK ==
    /\ kind \in Kinds
    /\ typeOf \in TypeMaps
    /\ reverting \in CanRevert
    /\ sent \in 0..MaxMessages
    /\ executed \in Seq(Calls)
    /\ indexed \in 0..Len(executed)
    /\ pending \in Txs \cup {None}
    /\ cursor \in 0..MaxMessages
    /\ \A j \in Jobs :
         /\ job[j].pc \in PCs
         /\ job[j].attempt \in 0..MaxAttempts - 1
         /\ job[j].todo \in Seq(IF job[j].pc = "paging" THEN 1..MaxMessages ELSE Calls)
    /\ receipt \in [Jobs -> {"none", "success", "failed"}]
    /\ faults \in 0..MaxFaults
    /\ dropped \subseteq 1..MaxMessages

\* The cursor passes a message only when the target has executed all of it,
\* though it is saved by runs that overlap, skip and retry.  Without
\* decoding the messages that are refused are passed over, and those whose
\* request failed other than by a timeout.
CursorBehindExecuted ==
    \A m \in 1..cursor :
        Done(m) \/ (kind = "undecoded" /\ m \in reverting \cup dropped)

\* What the relayers promise the contract: the items of the messages sent
\* arrive in their order, each once, and none before it was sent.
Deliveries == {"decoded", "l2"}

SentItems == IF kind \in Deliveries THEN LastItem[sent] ELSE 0

ArrivedItems ==
    IF kind \in Deliveries
    THEN FlattenSeq([i \in DOMAIN executed |-> ItemsIn(executed[i])])
    ELSE <<>>

Delivery == INSTANCE OrderedDelivery WITH posted <- SentItems, arrived <- ArrivedItems

\* The deposits reach the Rollup contract in the order of their ids without
\* a gap or a repetition, and the withdrawals Liquidity, whatever runs send
\* the first calls again or replace each other's transactions: every step of
\* the relayers is a step of OrderedDelivery, or none.
ImplementsDelivery == Delivery!Spec

\* A message that is refused holds up what its relayer would send after it,
\* and on the wallet of both messengers its transaction can replace every
\* other, of whichever type.  Without decoding it is passed over alone, as is a
\* message whose request failed.
Blocked(m) ==
    CASE kind \in {"decoded", "l2"} -> \E r \in reverting : r <= m
      [] kind = "messenger" -> reverting # {}
      [] OTHER -> m \in reverting \cup dropped

\* Every message is relayed in the end, past timeouts, killed runs, pages
\* that shift while they are read and transactions that replace each other,
\* unless a message the target refuses is in its way, or the relayer that does
\* not decode gave it up after a failed request.
EveryMessageRelayed ==
    \A m \in 1..MaxMessages : m <= sent ~> Done(m) \/ Blocked(m)

\* The scheduler keeps starting runs of both types, answers are not behind
\* for ever, a run that does not fail goes on, and transactions are mined.
ReadLatestHead(j) == ReadHead(j) /\ job'[j].cur = sent

FairSpec ==
    /\ Spec
    /\ WF_vars(Mine)
    /\ WF_vars(Index)
    /\ \A j \in Jobs :
         /\ SF_vars(ReadLatestHead(j))
         /\ \A type \in Types : SF_vars(StartPaging(j, type))
         /\ WF_vars(Step(j))
=============================================================================
