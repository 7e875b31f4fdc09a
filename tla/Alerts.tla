-------------------------------- MODULE Alerts --------------------------------
(***************************************************************************)
(* The two jobs that only watch: wallet-observer reads the balances of the *)
(* repository's wallets, block-sync-monitor compares the validity prover   *)
(* with the rollup, and both send what is wrong to Discord.  Each run is a *)
(* process with a Discord client of its own, which logs in meanwhile.      *)
(*                                                                         *)
(* A channel is found only once the client is ready; the first job waits   *)
(* for that, the second one does not.                                      *)
(***************************************************************************)
EXTENDS Integers

CONSTANTS
    Wallets,        \* walletTypes and mockWalletTypes, with their networks
    Required,       \* REQUIRED_ETH or REQUIRED_ETH_MIN of a wallet
    Acceptable,     \* ACCEPTABLE_BLOCK_DIFFERENCE
    MaxEther,       \* bound: the highest balance
    MaxRollupBlock, \* bound: blocks of the rollup
    MaxSpends,      \* bound: transactions the wallets pay
    MaxAlertFaults  \* bound: requests that fail

AlertsAssumption ==
    /\ Required \in [Wallets -> 0..MaxEther]
    /\ Acceptable \in Nat
    /\ {MaxEther, MaxRollupBlock, MaxSpends, MaxAlertFaults} \subseteq Nat

VARIABLES
    balance,      \* of the wallets
    rollup,       \* getLatestBlockNumber
    prover,       \* the validity prover's block number
    observer,     \* the run of wallet-observer
    syncMonitor,  \* the run of block-sync-monitor
    ready,        \* the jobs whose client is ready
    told,         \* wallets reported since they were last filled
    lagTold,      \* whether the lag was reported since there is one
    lagLost,      \* whether such a report found the client not ready
    spends, alertFaults

worldVars == <<balance, rollup, prover, spends>>
outVars == <<told, lagTold, lagLost>>
vars == <<worldVars, observer, syncMonitor, ready, outVars, alertFaults>>

Jobs == {"observer", "syncMonitor"}
Unread == -1
NotObserving == [pc |-> "idle", read |-> [w \in Wallets |-> Unread]]
NotComparing == [pc |-> "idle", rollup |-> Unread, prover |-> Unread]

Init ==
    /\ balance = [w \in Wallets |-> MaxEther]
    /\ rollup = 0
    /\ prover = 0
    /\ observer = NotObserving
    /\ syncMonitor = NotComparing
    /\ ready = {}
    /\ told = {}
    /\ lagTold = FALSE /\ lagLost = FALSE
    /\ spends = 0 /\ alertFaults = 0

-----------------------------------------------------------------------------
(* The world.                                                              *)

Low(w) == balance[w] <= Required[w]
Lags(proverBlock) == proverBlock + Acceptable <= rollup
Behind == Lags(prover)

Spend(w) ==
    /\ spends < MaxSpends
    /\ spends' = spends + 1
    /\ balance[w] > 0
    /\ balance' = [balance EXCEPT ![w] = @ - 1]
    /\ UNCHANGED <<rollup, prover, observer, syncMonitor, ready, outVars, alertFaults>>

Fill(w) ==
    /\ balance[w] < MaxEther
    /\ balance' = [balance EXCEPT ![w] = MaxEther]
    /\ told' = told \ {w}
    /\ UNCHANGED <<rollup, prover, spends, observer, syncMonitor, ready, lagTold, lagLost, alertFaults>>

RollupBlock ==
    /\ rollup < MaxRollupBlock
    /\ rollup' = rollup + 1
    /\ UNCHANGED <<balance, prover, spends, observer, syncMonitor, ready, outVars, alertFaults>>

ProverBlock ==
    /\ prover < rollup
    /\ prover' = prover + 1
    /\ lagTold' = (lagTold /\ Lags(prover + 1))
    /\ lagLost' = (lagLost /\ Lags(prover + 1))
    /\ UNCHANGED <<balance, rollup, spends, observer, syncMonitor, ready, told, alertFaults>>

\* The client of a run, which bootstrap has started to log in.
LogIn(job) ==
    /\ job \notin ready
    /\ CASE job = "observer" -> observer.pc # "idle"
         [] job = "syncMonitor" -> syncMonitor.pc # "idle"
    /\ ready' = ready \cup {job}
    /\ UNCHANGED <<worldVars, observer, syncMonitor, outVars, alertFaults>>

Fault == alertFaults < MaxAlertFaults /\ alertFaults' = alertFaults + 1

-----------------------------------------------------------------------------
(* wallet-observer.                                                        *)

Observe ==
    /\ observer.pc = "idle"
    /\ observer' = [NotObserving EXCEPT !.pc = "reading"]
    /\ UNCHANGED <<worldVars, syncMonitor, ready, outVars, alertFaults>>

\* getBalance of one wallet, all at the same time.
ReadBalance(w) ==
    /\ observer.pc = "reading"
    /\ observer.read[w] = Unread
    /\ observer' = [observer EXCEPT !.read[w] = balance[w]]
    /\ UNCHANGED <<worldVars, syncMonitor, ready, outVars, alertFaults>>

Insufficient == {w \in Wallets : observer.read[w] <= Required[w]}

\* performJob, when all balances are there: one message with all wallets if
\* one of them says "No".
ComposeMessage ==
    /\ observer.pc = "reading"
    /\ \A w \in Wallets : observer.read[w] # Unread
    /\ observer' = IF Insufficient = {} THEN NotObserving ELSE [observer EXCEPT !.pc = "sending"]
    /\ ready' = IF Insufficient = {} THEN ready \ {"observer"} ELSE ready
    /\ UNCHANGED <<worldVars, syncMonitor, outVars, alertFaults>>

\* sendMessage reports `wrong` if a channel is found, and only logs it if not;
\* a wallet that was filled meanwhile needs no report.
SendMessage(wrong) ==
    told' = IF "observer" \in ready THEN told \cup {w \in wrong : Low(w)} ELSE told

\* Mutant: sendMessage instead of sendMessageWitForReady.
SendWhenReady_AtOnce ==
    /\ observer.pc = "sending"
    /\ SendMessage(Insufficient)
    /\ observer' = NotObserving
    /\ ready' = ready \ {"observer"}
    /\ UNCHANGED <<worldVars, syncMonitor, lagTold, lagLost, alertFaults>>

\* sendMessageWitForReady, and the exit of the process.
SendWhenReady ==
    /\ observer.pc = "sending"
    /\ "observer" \in ready
    /\ SendMessage(Insufficient)
    /\ observer' = NotObserving
    /\ ready' = ready \ {"observer"}
    /\ UNCHANGED <<worldVars, syncMonitor, lagTold, lagLost, alertFaults>>

\* A balance cannot be read, or the message not be sent, which is logged.
ObserverFails ==
    /\ observer.pc # "idle"
    /\ Fault
    /\ observer' = NotObserving
    /\ ready' = ready \ {"observer"}
    /\ UNCHANGED <<worldVars, syncMonitor, outVars>>

-----------------------------------------------------------------------------
(* block-sync-monitor.                                                     *)

Compare ==
    /\ syncMonitor.pc = "idle"
    /\ syncMonitor' = [NotComparing EXCEPT !.pc = "reading"]
    /\ UNCHANGED <<worldVars, observer, ready, outVars, alertFaults>>

\* fetchLatestRollupBlockNumber
ReadRollup ==
    /\ syncMonitor.pc = "reading" /\ syncMonitor.rollup = Unread
    /\ syncMonitor' = [syncMonitor EXCEPT !.rollup = rollup]
    /\ UNCHANGED <<worldVars, observer, ready, outVars, alertFaults>>

\* fetchLatestValidityProverBlockNumber
ReadProver ==
    /\ syncMonitor.pc = "reading" /\ syncMonitor.prover = Unread
    /\ syncMonitor' = [syncMonitor EXCEPT !.prover = prover]
    /\ UNCHANGED <<worldVars, observer, ready, outVars, alertFaults>>

\* compareBlockNumbers, of numbers that may be of different moments.
IsValid(proverBlock, rollupBlock) ==
    proverBlock > rollupBlock \/ proverBlock + Acceptable > rollupBlock

\* The rest of performJob: sendMessage logs that it finds no channel.
Report ==
    LET invalid == ~IsValid(syncMonitor.prover, syncMonitor.rollup)
        found == "syncMonitor" \in ready
    IN  /\ syncMonitor.pc = "reading"
        /\ syncMonitor.prover # Unread /\ syncMonitor.rollup # Unread
        /\ lagTold' = (lagTold \/ (invalid /\ found /\ Behind))
        /\ lagLost' = (lagLost \/ (invalid /\ ~found /\ Behind))
        /\ syncMonitor' = NotComparing
        /\ ready' = ready \ {"syncMonitor"}
        /\ UNCHANGED <<worldVars, observer, told, alertFaults>>

SyncMonitorFails ==
    /\ syncMonitor.pc # "idle"
    /\ Fault
    /\ syncMonitor' = NotComparing
    /\ ready' = ready \ {"syncMonitor"}
    /\ UNCHANGED <<worldVars, observer, outVars>>

ObserverStep == Observe \/ ComposeMessage \/ SendWhenReady \/ \E w \in Wallets : ReadBalance(w)
SyncMonitorStep == Compare \/ ReadRollup \/ ReadProver \/ Report

Next ==
    \/ RollupBlock \/ ProverBlock
    \/ \E w \in Wallets : Spend(w) \/ Fill(w)
    \/ \E job \in Jobs : LogIn(job)
    \/ ObserverStep \/ ObserverFails
    \/ SyncMonitorStep \/ SyncMonitorFails

Spec == Init /\ [][Next]_vars

-----------------------------------------------------------------------------
(* Properties.                                                             *)

Ether == 0..MaxEther

\* Type invariant of the state above.
TypeOK ==
    /\ balance \in [Wallets -> Ether]
    /\ rollup \in 0..MaxRollupBlock /\ prover \in 0..rollup
    /\ observer \in [pc : {"idle", "reading", "sending"}, read : [Wallets -> Ether \cup {Unread}]]
    /\ syncMonitor.pc \in {"idle", "reading"}
    /\ ready \subseteq Jobs /\ told \subseteq Wallets
    /\ {lagTold, lagLost} \subseteq BOOLEAN
    /\ spends \in 0..MaxSpends /\ alertFaults \in 0..MaxAlertFaults

\* What stays wrong is reported in the end, past failed runs and balances or
\* numbers that are old when they are compared; a lag at least unless its
\* report came before the client was ready, which loses it.
AlertsRaised ==
    /\ \A w \in Wallets : Low(w) ~> ~Low(w) \/ w \in told
    /\ Behind ~> ~Behind \/ lagTold \/ lagLost
=============================================================================
