---------------------------- MODULE TxSubmission ----------------------------
(***************************************************************************)
(* How every job sends a transaction (packages/shared, blockchain, with    *)
(* the submission loop all of them repeat): it asks for the latest nonce   *)
(* and the fees, raises the fees by the attempt and above those it used    *)
(* last, sends, waits, and tries again after a timeout.  The modules of    *)
(* the jobs leave the fees and a stale nonce out; this one has them.       *)
(*                                                                         *)
(* Fees are in wei.  A network node keeps one transaction for each nonce   *)
(* and takes another one only if it pays ten percent more.                 *)
(***************************************************************************)
EXTENDS Integers, Sequences, FiniteSetsExt

CONSTANTS
    EIP1559Estimates, \* what estimateFeesPerGas or getFeeData may answer
    ScrollFees,       \* the base fee, gas price and tip of the L2
    ScrollMultiplier, \* SCROLL_GAS_MULTIPLIER, in tenths
    IncrementRate,    \* TRANSACTION_INCREMENT_RATE, in tenths
    MaxAttempts,      \* TRANSACTION_MAX_RETRIES
    NonceLag,         \* transactions by which the node that answers is behind
    MaxCalls,         \* bound: calls of the contract
    MaxTimeouts       \* bound: waits and requests that time out

SubmissionAssumption ==
    /\ EIP1559Estimates \subseteq [fee : Nat, tip : Nat]
    /\ ScrollFees \subseteq [base : Nat, price : Nat, tip : Nat]
    /\ ScrollMultiplier \in Nat
    /\ IncrementRate \in Nat
    /\ MaxAttempts \in Nat \ {0}
    /\ NonceLag \in Nat
    /\ MaxCalls \in Nat
    /\ MaxTimeouts \in Nat

VARIABLES
    style,     \* "eip1559", or "legacy" for a transaction with a gas price
    mempool,   \* the wallet's transactions that are not mined
    mined,     \* those that are, by nonce
    sending,   \* the local variables of the run
    sends,     \* transactions sent so far; the last one names the next
    calls,     \* calls of the contract so far
    timeouts

vars == <<style, mempool, mined, sending, sends, calls, timeouts>>

NoCall == [pc |-> "idle", attempt |-> 0, nonce |-> 0, fee |-> 0, tip |-> 0,
           id |-> 0, estimate |-> [fee |-> 0, tip |-> 0], fell |-> FALSE]

Init ==
    /\ style \in {"eip1559", "legacy"}
    /\ mempool = {}
    /\ mined = <<>>
    /\ sending = NoCall
    /\ sends = 0
    /\ calls = 0
    /\ timeouts = 0

-----------------------------------------------------------------------------
(* Fees.                                                                   *)

\* Mutant: the rate is added once, whatever the attempt.
GasMultiplier_Once(attempt) == IF attempt = 0 THEN 10 ELSE 10 + IncrementRate

\* calculateGasMultiplier, in tenths.
GasMultiplier(attempt) == 10 + attempt * IncrementRate

Scaled(amount, tenths) == (amount * tenths) \div 10

\* calculateAdjustedGasPrices of viem and of ethers
AdjustedGasPrices(attempt, e) ==
    [fee |-> Scaled(e.fee, GasMultiplier(attempt)), tip |-> Scaled(e.tip, GasMultiplier(attempt))]

\* getGasPrice: the L2 price is multiplied by a factor of its own.
ScrollGasPrice(e) == Scaled(Max({e.base, e.price}), ScrollMultiplier) + e.tip

\* calculateScrollAdjustedGasPrices
ScrollAdjustedGasPrice(attempt, e) == Scaled(ScrollGasPrice(e), GasMultiplier(attempt))

\* calculateIncreasedGasFees: the fee by one wei at least if the estimates
\* fell, the tip not.
IncreasedGasFees(last, fees) ==
    [fee |-> IF last.fee > fees.fee THEN last.fee + 1 ELSE fees.fee,
     tip |-> Max({last.tip, fees.tip})]

\* calculateEthersIncreasedGasPrice
IncreasedGasPrice(last, price) == IF last > price THEN last + 1 ELSE price

\* The fees of an attempt; those of the last one count unless they are zero.
NextFees(run, e) ==
    LET fees == AdjustedGasPrices(run.attempt, e)
    IN  IF run.fee # 0 /\ run.tip # 0 THEN IncreasedGasFees(run, fees) ELSE fees

NextGasPrice(run, e) ==
    LET price == ScrollAdjustedGasPrice(run.attempt, e)
    IN  IF run.fee # 0 THEN IncreasedGasPrice(run.fee, price) ELSE price

-----------------------------------------------------------------------------
(* The network.                                                            *)

\* The rule for a replacement: more, and ten percent more, of both fees.
Outbids(new, old) ==
    /\ new.fee > old.fee /\ new.fee >= Scaled(old.fee, 11)
    /\ new.tip > old.tip /\ new.tip >= Scaled(old.tip, 11)

Rivals(nonce) == {t \in mempool : t.nonce = nonce}

Mine ==
    /\ \E t \in Rivals(Len(mined)) : mined' = Append(mined, t) /\ mempool' = mempool \ {t}
    /\ UNCHANGED <<style, sending, sends, calls, timeouts>>

Forget ==
    /\ \E t \in mempool : mempool' = mempool \ {t}
    /\ timeouts < MaxTimeouts
    /\ timeouts' = timeouts + 1
    /\ UNCHANGED <<style, mined, sending, sends, calls>>

-----------------------------------------------------------------------------
(* A call of the contract.                                                 *)

Start ==
    /\ sending.pc = "idle"
    /\ calls < MaxCalls
    /\ calls' = calls + 1
    /\ sending' = [NoCall EXCEPT !.pc = "asking"]
    /\ UNCHANGED <<style, mempool, mined, sends, timeouts>>

Learn(nonce, fees, e) ==
    sending' = [sending EXCEPT !.pc = "sending", !.nonce = nonce, !.fee = fees.fee,
                !.tip = fees.tip, !.estimate = e,
                !.fell = @ \/ e.fee < sending.estimate.fee \/ e.tip < sending.estimate.tip]

\* The pending count, or the latest one of a node that may be behind.
PendingNonce == Len(mined) + Cardinality(mempool)

\* Mutant: a retry takes the next free nonce.
LatestNonces_Pending == {PendingNonce}

\* getNonce: currentNonce is used, also to replace what is pending.
LatestNonces == {n \in 0..Len(mined) : Len(mined) - n <= NonceLag}

\* Promise.all of the nonce and the fees of L1, ...
AskL1 ==
    /\ sending.pc = "asking"
    /\ style = "eip1559"
    /\ \E nonce \in LatestNonces, e \in EIP1559Estimates : Learn(nonce, NextFees(sending, e), e)
    /\ UNCHANGED <<style, mempool, mined, sends, calls, timeouts>>

\* ... or getEthersScrollMaxGasMultiplier; a gas price is fee and tip in one.
AskL2 ==
    /\ sending.pc = "asking"
    /\ style = "legacy"
    /\ \E nonce \in LatestNonces, e \in ScrollFees :
         LET price == NextGasPrice(sending, e)
         IN  Learn(nonce, [fee |-> price, tip |-> price],
                   [fee |-> ScrollGasPrice(e), tip |-> ScrollGasPrice(e)])
    /\ UNCHANGED <<style, mempool, mined, sends, calls, timeouts>>

\* getEthersTxOptions
Transaction == [id |-> sends + 1, call |-> calls, nonce |-> sending.nonce,
                fee |-> sending.fee, tip |-> sending.tip]

Accepted ==
    /\ sending.nonce >= Len(mined)
    /\ \A t \in Rivals(sending.nonce) : Outbids(Transaction, t)

Broadcast ==
    /\ mempool' = (mempool \ Rivals(sending.nonce)) \cup {Transaction}
    /\ sends' = sends + 1

\* With its options, by executeEthersTransaction or, if the counts tell of a
\* pending one, replacedEthersTransaction, which does the same.
Send ==
    /\ sending.pc = "sending"
    /\ Accepted
    /\ Broadcast
    /\ sending' = [sending EXCEPT !.pc = "waiting", !.id = sends + 1]
    /\ UNCHANGED <<style, mined, calls, timeouts>>

\* The catch block for a timeout or a fee that is too low.
Retry ==
    sending' = IF sending.attempt + 1 = MaxAttempts THEN NoCall
               ELSE [sending EXCEPT !.pc = "asking", !.attempt = @ + 1]

\* "replacement fee too low"
Underpriced ==
    /\ sending.pc = "sending"
    /\ sending.nonce >= Len(mined)
    /\ ~Accepted
    /\ Retry
    /\ UNCHANGED <<style, mempool, mined, sends, calls, timeouts>>

\* The nonce was used up in between, or the node was behind: an error the
\* loop throws on, even if the transaction mined was its own.
NonceTooLow ==
    /\ sending.pc = "sending"
    /\ sending.nonce < Len(mined)
    /\ sending' = NoCall
    /\ UNCHANGED <<style, mempool, mined, sends, calls, timeouts>>

\* A request times out; the transaction may have arrived all the same.
RequestTimeout ==
    /\ sending.pc \in {"asking", "sending"}
    /\ timeouts < MaxTimeouts
    /\ timeouts' = timeouts + 1
    /\ \/ UNCHANGED <<mempool, sends>>
       \/ sending.pc = "sending" /\ Accepted /\ Broadcast
    /\ Retry
    /\ UNCHANGED <<style, mined, calls>>

\* ethersWaitForTransactionConfirmation gives up.
WaitTimeout ==
    /\ sending.pc = "waiting"
    /\ timeouts < MaxTimeouts
    /\ timeouts' = timeouts + 1
    /\ Retry
    /\ UNCHANGED <<style, mempool, mined, sends, calls>>

Confirm ==
    /\ sending.pc = "waiting"
    /\ \E n \in DOMAIN mined : mined[n].id = sending.id
    /\ sending' = NoCall
    /\ UNCHANGED <<style, mempool, mined, sends, calls, timeouts>>

Next ==
    \/ Mine \/ Forget \/ Start \/ AskL1 \/ AskL2 \/ Send \/ Underpriced
    \/ NonceTooLow \/ RequestTimeout \/ WaitTimeout \/ Confirm

Spec == Init /\ [][Next]_vars

-----------------------------------------------------------------------------
(* Properties.                                                             *)

Transactions == [id : Nat, call : Nat, nonce : Nat, fee : Nat, tip : Nat]

\* Type invariant of the state above.
TypeOK ==
    /\ mempool \subseteq Transactions
    /\ mined \in Seq(Transactions)
    /\ sending.attempt \in 0..MaxAttempts - 1
    /\ sending.nonce \in 0..Len(mined)
    /\ timeouts \in 0..MaxTimeouts

\* Two transactions of one call never wait together to be mined: a retry,
\* after whichever timeout, replaces what is left of the attempts before.
OneEffectPending ==
    \A c \in 1..calls : Cardinality({t \in mempool : t.call = c}) <= 1

\* The estimate from which a step of the multiplier outweighs rounding.
EnoughToRaise == 5

\* While the estimates of a call have not fallen, and are not next to zero,
\* the network takes each attempt as a replacement of the ones before: the
\* multipliers alone keep ten percent between them.
ReplacementAccepted ==
    /\ sending.pc = "sending"
    /\ ~sending.fell
    /\ sending.estimate.fee >= EnoughToRaise
    /\ sending.estimate.tip >= EnoughToRaise
    => \A t \in Rivals(sending.nonce) : t.call = calls => Outbids(Transaction, t)
=============================================================================
