----------------------------- MODULE HealthCheck -----------------------------
(***************************************************************************)
(* The check of one batch of block builders (packages/shared, monitor),    *)
(* which BuilderRegistry takes for one step: each builder is asked for its *)
(* fees, with retries, and what it answers is validated, then all balances *)
(* are read by one multicall, with retries of its own.                     *)
(*                                                                         *)
(* A profile is what there is to know about a builder: whether its URL is  *)
(* https, whether it answers, its version, its two lists of fees and its   *)
(* balance.                                                                *)
(***************************************************************************)
EXTENDS Integers

CONSTANTS
    Candidates,      \* the builders of the batch
    Trusted,         \* BLOCK_BUILDER_ALLOWLIST
    Profiles,        \* the profiles they may have
    RequiredVersion, \* BLOCK_BUILDER_REQUIRED_VERSION
    AllowedTokens,   \* BLOCK_BUILDER_ALLOWED_TOKEN_INDICES
    MaxFee,          \* BLOCK_BUILDER_MAX_FEE_AMOUNT
    MinBalance,      \* BLOCK_BUILDER_MIN_ETH_BALANCE
    Tries,           \* maxRetries of both requests
    MaxCheckFaults   \* bound: requests and single calls that fail

HealthAssumption ==
    /\ Profiles # {}
    /\ Trusted \subseteq Candidates
    /\ Tries \in Nat \ {0}
    /\ MaxCheckFaults \in Nat

VARIABLES
    profile,       \* of each builder
    check,         \* the answer of each builder's check
    reading,       \* the multicall
    available,     \* the result
    requestFaults, \* requests that failed though the other side was up
    unread         \* history: builders whose single call failed

vars == <<profile, check, reading, available, requestFaults, unread>>

NotAsked == [status |-> "asking", attempt |-> 1]

Init ==
    /\ profile = [b \in Candidates |-> CHOOSE p \in Profiles : TRUE]
    /\ check = [b \in Candidates |-> NotAsked]
    /\ reading = [pc |-> "idle", attempts |-> 0]
    /\ available = {}
    /\ requestFaults = 0
    /\ unread = {}

Fault == requestFaults < MaxCheckFaults /\ requestFaults' = requestFaults + 1

\* processMonitor comes to a batch.
Begin ==
    /\ reading.pc = "idle"
    /\ profile' \in [Candidates -> Profiles]
    /\ reading' = [reading EXCEPT !.pc = "fees"]
    /\ UNCHANGED <<check, available, requestFaults, unread>>

-----------------------------------------------------------------------------
(* The fees.                                                               *)

FeesValid(fees) ==
    \A i \in DOMAIN fees : fees[i].token \in AllowedTokens /\ fees[i].amount <= MaxFee

\* validateIndexerInfo; the two lists of collateral fees are not looked at.
InfoValid(p) ==
    /\ p.version >= RequiredVersion
    /\ FeesValid(p.registrationFee)
    /\ FeesValid(p.nonRegistrationFee)

Asking(b) == reading.pc = "fees" /\ check[b].status = "asking"

Answered(b, fine) ==
    check' = [check EXCEPT ![b].status = IF fine THEN "available" ELSE "error"]

\* A trusted builder is not asked, one without https is not either.
SkipRequest(b) ==
    /\ Asking(b)
    /\ b \in Trusted \/ ~profile[b].https
    /\ Answered(b, b \in Trusted)
    /\ UNCHANGED <<profile, reading, available, requestFaults, unread>>

\* requestFeeInfoCheck is answered.
FeeInfo(b) ==
    /\ Asking(b)
    /\ b \notin Trusted /\ profile[b].https
    /\ profile[b].up
    /\ Answered(b, InfoValid(profile[b]))
    /\ UNCHANGED <<profile, reading, available, requestFaults, unread>>

\* Mutant: the last attempt is not made.
NextAttempt_OneLess(b) ==
    check' = [check EXCEPT ![b] =
        IF @.attempt < Tries - 1 THEN [@ EXCEPT !.attempt = @ + 1] ELSE [@ EXCEPT !.status = "error"]]

\* Mutant: one attempt too many.
NextAttempt_OneMore(b) ==
    check' = [check EXCEPT ![b] =
        IF @.attempt <= Tries THEN [@ EXCEPT !.attempt = @ + 1] ELSE [@ EXCEPT !.status = "error"]]

NextAttempt(b) ==
    LET next == check[b].attempt + 1
    IN  check' = [check EXCEPT ![b] =
          IF next <= Tries THEN [@ EXCEPT !.attempt = next] ELSE [@ EXCEPT !.status = "error"]]

\* A request that is not answered, or not in time.
FeeInfoFails(b) ==
    /\ Asking(b)
    /\ b \notin Trusted /\ profile[b].https
    /\ NextAttempt(b)
    /\ IF profile[b].up THEN Fault ELSE UNCHANGED requestFaults
    /\ UNCHANGED <<profile, reading, available, unread>>

\* Promise.all has the answers of all builders.
AllAnswered ==
    /\ reading.pc = "fees"
    /\ \A b \in Candidates : check[b].status # "asking"
    /\ reading' = [reading EXCEPT !.pc = "balances"]
    /\ UNCHANGED <<profile, check, available, requestFaults, unread>>

-----------------------------------------------------------------------------
(* The balances.                                                           *)

\* Builders that are available and whose balance is known and high enough.
Sufficient(failed) ==
    {b \in Candidates : check[b].status = "available" /\ b \notin failed /\ profile[b].balance > MinBalance}

\* The multicall returns.  A single call that failed has the status "failure",
\* which is as true as "success": it is neither retried nor left out, but its
\* balance is missing.
ReadBalances ==
    /\ reading.pc = "balances"
    /\ \E failed \in SUBSET Candidates :
         /\ IF failed = {} THEN UNCHANGED requestFaults ELSE Fault
         /\ unread' = failed
         /\ available' = Sufficient(failed)
    /\ reading' = [pc |-> "done", attempts |-> reading.attempts + 1]
    /\ UNCHANGED <<profile, check>>

\* The multicall throws; after the last attempt so does the whole check.
ReadFails ==
    /\ reading.pc = "balances"
    /\ Fault
    /\ reading' = [pc |-> IF reading.attempts + 1 < Tries THEN "balances" ELSE "thrown",
                   attempts |-> reading.attempts + 1]
    /\ UNCHANGED <<profile, check, available, unread>>

Next ==
    \/ Begin \/ AllAnswered \/ ReadBalances \/ ReadFails
    \/ \E b \in Candidates : SkipRequest(b) \/ FeeInfo(b) \/ FeeInfoFails(b)

Spec == Init /\ [][Next]_vars

-----------------------------------------------------------------------------
(* Properties.                                                             *)

\* Type invariant of the state above.
TypeOK ==
    /\ profile \in [Candidates -> Profiles]
    /\ check \in [Candidates -> [status : {"asking", "available", "error"}, attempt : 1..Tries]]
    /\ reading \in [pc : {"idle", "fees", "balances", "done", "thrown"}, attempts : 0..Tries]
    /\ available \in SUBSET Candidates /\ unread \in SUBSET Candidates
    /\ requestFaults \in 0..MaxCheckFaults

\* What SYSTEM_DESIGN.md asks of a builder: an answer to the health check,
\* served over https, acceptable fees and a sufficient balance.
Fit(b) ==
    /\ profile[b].balance > MinBalance
    /\ b \in Trusted \/ (profile[b].https /\ profile[b].up /\ InfoValid(profile[b]))

\* Fewer failed requests than there are tries, whichever they are, change
\* nothing: the check ends with the fit builders exactly, but for those whose
\* single call of the multicall failed.  More of them lose builders and never
\* let one in.
FitExactly ==
    /\ reading.pc = "done" => available \subseteq {b \in Candidates : Fit(b)}
    /\ requestFaults < Tries =>
         /\ reading.pc # "thrown"
         /\ reading.pc = "done" => {b \in Candidates : Fit(b)} \subseteq available \cup unread
=============================================================================
