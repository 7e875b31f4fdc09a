-------------------------- MODULE TokenMapRegister --------------------------
(***************************************************************************)
(* The token-map-register job (packages/token-map-register).  A run looks  *)
(* for DepositsRelayed logs after the block of its Firestore cursor, takes *)
(* the deposits between the last id it has seen and the latest relayed     *)
(* one, and saves a tokenMaps document for every ERC20 token among them    *)
(* that has none.  Its cursor holds the head of the run and the last id.   *)
(*                                                                         *)
(* Liquidity on L1 is external.  Chain says what the job relies on: ids    *)
(* count up from 1, and each relay reaches further than the one before it. *)
(* Logs up to a block a node has shown are final, so reading them is no    *)
(* step of its own.  An `in` filter of Firestore takes InLimit values at   *)
(* most, fewer than FIRESTORE_MAX_BATCH_SIZE: the documents a run saves    *)
(* fit one batch, which is atomic.                                         *)
(***************************************************************************)
EXTENDS Integers, FiniteSetsExt

CONSTANTS
    Registers,       \* executions of the job that can be in flight together
    TokenIndexOf,    \* the token index of the deposit with a given id
    ERC20Indexes,    \* the token indexes of ERC20 tokens
    NoMetadata,      \* those whose contract never answers decimals() or symbol()
    InLimit,         \* values an `in` filter may hold
    SearchRange,     \* BLOCK_RANGE_MINIMUM
    SearchAttempts,  \* DEPOSIT_EVENT_MAX_ATTEMPTS
    DeployedBlock,   \* LIQUIDITY_CONTRACT_DEPLOYED_BLOCK
    RpcLag,          \* blocks by which the node that answers may be behind
    MaxPerBlock,     \* deposits one block can hold
    MaxDeposits,     \* bound: deposits ever made
    MaxBlock,        \* bound: the height of the chain
    MaxRegFaults     \* bound: runs that stop before their end

ASSUME RegisterAssumption ==
    /\ InLimit \in Nat \ {0}
    /\ SearchRange \in Nat \ {0}
    /\ SearchAttempts \in Nat \ {0}
    /\ DeployedBlock \in Nat \ {0}
    /\ RpcLag \in Nat
    /\ MaxPerBlock \in Nat
    /\ MaxDeposits \in Nat
    /\ MaxBlock \in Nat
    /\ MaxRegFaults \in Nat
    /\ IsFiniteSet(ERC20Indexes)
    /\ NoMetadata \subseteq ERC20Indexes

VARIABLES
    \* Liquidity on L1
    head,          \* the latest block
    lastDepositId, \* deposits made so far
    depositBlock,  \* the block that holds the Deposited log of an id
    relayEvents,   \* the DepositsRelayed logs
    \* Firestore
    mapCursor,     \* events/depositsRelayedTokenMaps; block 0 before it exists
    tokenMaps,     \* the token indexes that have a document
    \* the runs of the job
    register,      \* the local variables of each run
    regFaults

chain == <<head, lastDepositId, depositBlock, relayEvents>>
regVars == <<mapCursor, tokenMaps, register, regFaults>>
vars == <<chain, regVars>>

Idle == [pc |-> "idle", cur |-> 0, upTo |-> 0, tokens |-> {}]

RegisterInit ==
    /\ mapCursor = [block |-> 0, upTo |-> 0]
    /\ tokenMaps = {}
    /\ register = [j \in Registers |-> Idle]
    /\ regFaults = 0

Init ==
    /\ head = DeployedBlock
    /\ lastDepositId = 0
    /\ depositBlock = [d \in 1..0 |-> 0]
    /\ relayEvents = {}
    /\ RegisterInit

-----------------------------------------------------------------------------
(* What the job relies on.                                                 *)

Relayed == {d \in 1..lastDepositId : \E e \in relayEvents : d <= e.upTo}

\* A block with n deposits; with a relay of the deposits up to u unless it is 0.
MineBlock(n, u) ==
    /\ head < MaxBlock
    /\ lastDepositId + n <= MaxDeposits
    /\ head' = head + 1
    /\ lastDepositId' = lastDepositId + n
    /\ depositBlock' = [d \in 1..lastDepositId + n |->
                          IF d <= lastDepositId THEN depositBlock[d] ELSE head + 1]
    /\ relayEvents' = relayEvents \cup
         (IF u = 0 THEN {} ELSE {[block |-> head + 1, upTo |-> u]})
    /\ UNCHANGED regVars

Chain ==
    \E n \in 0..MaxPerBlock : \E u \in {0} \cup (1..lastDepositId \ Relayed) : MineBlock(n, u)

-----------------------------------------------------------------------------
(* What a run computes from the logs.                                      *)

\* getStartBlockNumberAndLastUpToDepositId
StartBlock(c) == IF c.block = 0 THEN DeployedBlock ELSE c.block + 1

RelaysIn(from, to) == {e \in relayEvents : from <= e.block /\ e.block <= to}

\* The upToDepositId of the latest log: the order of the logs is theirs on
\* the chain, where the ids only grow.
LatestUpTo(events) == Max({e.upTo : e \in events})

\* Mutant: the new ids start with the id of the last log, not of the cursor.
NewDepositIds_OfLatest(upTo, last) == {upTo}

\* generateDepositIds: Array.from takes a negative length for 0.
NewDepositIds(upTo, last) == last + 1..upTo

\* calculateDepositStartNumber: the block of the first new deposit is looked
\* for further and further back, but not before block 1.
Searchable(id, start) ==
    \E k \in 0..SearchAttempts - 1 :
        /\ k > 0 => start - k * SearchRange > 0
        /\ start - k * SearchRange <= depositBlock[id]

\* Mutant: the token type is not looked at.
ERC20TokensOf_AnyType(ids) == {TokenIndexOf[d] : d \in ids}

\* getDepositLogs, mapDepositsToTokenInfo and filterERC20Tokens
ERC20TokensOf(ids) == {TokenIndexOf[d] : d \in ids} \cap ERC20Indexes

-----------------------------------------------------------------------------
(* A run of the job.                                                       *)

\* performJob awaits the head inside the array, before it asks for the cursor.
ReadHead(j) ==
    /\ register[j].pc = "idle"
    /\ \E b \in DeployedBlock..head :
         /\ head - b <= RpcLag
         /\ register' = [register EXCEPT ![j] = [Idle EXCEPT !.pc = "started", !.cur = b]]
    /\ UNCHANGED <<chain, mapCursor, tokenMaps, regFaults>>

\* Nothing to register: the range is empty or holds no relay, or its relays
\* bring no new id.
NothingNew(j) ==
    LET events == RelaysIn(StartBlock(mapCursor), register[j].cur)
    IN  events # {} => LatestUpTo(events) <= mapCursor.upTo

SkipRange(j) ==
    /\ register[j].pc = "started"
    /\ NothingNew(j)
    /\ register' = [register EXCEPT ![j].pc = "closing"]
    /\ UNCHANGED <<chain, mapCursor, tokenMaps, regFaults>>

\* fetchUnprocessedDepositTokenEntries, from the cursor to the tokens of the
\* new deposits; with no ERC20 token among them nothing is saved.
Collect(j) ==
    /\ register[j].pc = "started"
    /\ ~NothingNew(j)
    /\ LET start == StartBlock(mapCursor)
           upTo == LatestUpTo(RelaysIn(start, register[j].cur))
           ids == NewDepositIds(upTo, mapCursor.upTo)
           tokens == ERC20TokensOf(ids)
       IN  register' = [register EXCEPT ![j] =
             IF ~Searchable(Min(ids), start) THEN Idle
             ELSE [@ EXCEPT !.pc = IF tokens = {} THEN "saving" ELSE "mapping",
                            !.upTo = upTo, !.tokens = tokens]]
    /\ UNCHANGED <<chain, mapCursor, tokenMaps, regFaults>>

\* Mutant: the filter is held to be full one value too early.
FilterNew_BelowLimit(j) ==
    LET new == register[j].tokens \ tokenMaps
    IN  /\ register[j].pc = "mapping"
        /\ register' = [register EXCEPT ![j] =
             IF Cardinality(register[j].tokens) >= InLimit THEN Idle
             ELSE [@ EXCEPT !.pc = IF new = {} THEN "saving" ELSE "storing",
                            !.tokens = new]]
        /\ UNCHANGED <<chain, mapCursor, tokenMaps, regFaults>>

\* filterNewERC20Tokens; Firestore refuses a filter of too many values.
FilterNew(j) ==
    LET new == register[j].tokens \ tokenMaps
    IN  /\ register[j].pc = "mapping"
        /\ register' = [register EXCEPT ![j] =
             IF Cardinality(register[j].tokens) > InLimit THEN Idle
             ELSE [@ EXCEPT !.pc = IF new = {} THEN "saving" ELSE "storing",
                            !.tokens = new]]
        /\ UNCHANGED <<chain, mapCursor, tokenMaps, regFaults>>

\* saveTokenMapsBatch: one batch, by token index; a document that another run
\* has saved meanwhile is set again.
SaveTokenMapsBatch(tokens) == tokenMaps' = tokenMaps \cup tokens

\* Mutant: a token without metadata is left out, not an error.
StoreMaps_SkipsFailed(j) ==
    /\ register[j].pc = "storing"
    /\ SaveTokenMapsBatch(register[j].tokens \ NoMetadata)
    /\ register' = [register EXCEPT ![j].pc = "saving"]
    /\ UNCHANGED <<chain, mapCursor, regFaults>>

\* fetchTokenMetadata and enrichTokensWithMetadata: one token without metadata
\* is an error for all of them, and nothing is saved.
StoreMaps(j) ==
    /\ register[j].pc = "storing"
    /\ IF register[j].tokens \cap NoMetadata = {}
       THEN /\ SaveTokenMapsBatch(register[j].tokens)
            /\ register' = [register EXCEPT ![j].pc = "saving"]
       ELSE /\ register' = [register EXCEPT ![j] = Idle]
            /\ UNCHANGED tokenMaps
    /\ UNCHANGED <<chain, mapCursor, regFaults>>

\* updateEventData without new deposits: lastUpToDepositId is left alone.
SaveHead(j) ==
    /\ register[j].pc = "closing"
    /\ mapCursor' = [mapCursor EXCEPT !.block = register[j].cur]
    /\ register' = [register EXCEPT ![j] = Idle]
    /\ UNCHANGED <<chain, tokenMaps, regFaults>>

SaveCursor(j) ==
    /\ register[j].pc = "saving"
    /\ mapCursor' = [block |-> register[j].cur, upTo |-> register[j].upTo]
    /\ register' = [register EXCEPT ![j] = Idle]
    /\ UNCHANGED <<chain, tokenMaps, regFaults>>

\* A request fails, also once one for the metadata of a token, or the
\* container is killed.
Fail(j) ==
    /\ register[j].pc # "idle"
    /\ regFaults < MaxRegFaults
    /\ regFaults' = regFaults + 1
    /\ register' = [register EXCEPT ![j] = Idle]
    /\ UNCHANGED <<chain, mapCursor, tokenMaps>>

Step(j) ==
    \/ SkipRange(j) \/ Collect(j) \/ FilterNew(j) \/ StoreMaps(j)
    \/ SaveHead(j) \/ SaveCursor(j)

Run == \E j \in Registers : ReadHead(j) \/ Step(j) \/ Fail(j)

Next == Chain \/ Run

Spec == Init /\ [][Next]_vars

-----------------------------------------------------------------------------
(* Properties.                                                             *)

PCs == {"idle", "started", "closing", "mapping", "storing", "saving"}
Cursors == [block : Nat, upTo : Nat]

\* Type invariant of the state above.
TypeOK ==
    /\ head \in Nat
    /\ lastDepositId \in Nat
    /\ depositBlock \in [1..lastDepositId -> Nat]
    /\ relayEvents \subseteq Cursors
    /\ mapCursor \in Cursors
    /\ tokenMaps \subseteq ERC20Indexes
    /\ register \in [Registers -> [pc : PCs, cur : Nat, upTo : Nat,
                                   tokens : SUBSET ERC20Indexes]]
    /\ regFaults \in 0..MaxRegFaults

\* The cursor passes no relay whose tokens are not all registered, though a
\* run whose head is behind moves it back, and one without new deposits
\* writes its block only, beside an id that another run has written.
NoTokenMissed ==
    \A e \in relayEvents :
        e.block <= mapCursor.block => ERC20TokensOf(1..e.upTo) \subseteq tokenMaps

\* lastUpToDepositId stands for registered tokens too, since no later run
\* looks at a deposit up to it.
IdsRegistered == ERC20TokensOf(1..mapCursor.upTo) \subseteq tokenMaps

\* The ids a run finds that starts now, from a node that shows the head.
IdsAhead ==
    LET events == RelaysIn(StartBlock(mapCursor), head)
    IN  IF events = {} THEN {} ELSE NewDepositIds(LatestUpTo(events), mapCursor.upTo)

\* Such a run stops before it saves anything, and so does the next one: the
\* first new deposit is too far behind the cursor, the new deposits bring more
\* tokens than a filter takes, or one of the new tokens has no metadata.
Obstructed ==
    LET tokens == ERC20TokensOf(IdsAhead)
    IN  /\ IdsAhead # {}
        /\ \/ ~Searchable(Min(IdsAhead), StartBlock(mapCursor))
           \/ Cardinality(tokens) > InLimit
           \/ (tokens \ tokenMaps) \cap NoMetadata # {}

\* Unless the runs are obstructed from some time on, every token that was
\* relayed is registered in the end: a cursor that went back, a relay behind
\* the cursor or a lost run only delays it.
AllRegistered ==
    \/ <>[]Obstructed
    \/ \A d \in 1..MaxDeposits :
         d \in Relayed ~> ERC20TokensOf({d}) \subseteq tokenMaps

\* The scheduler keeps starting runs, the node that answers is not behind for
\* ever, and a run that does not fail goes on.
ReadLatestHead(j) == ReadHead(j) /\ register'[j].cur = head

Fairness == \A j \in Registers : SF_vars(ReadLatestHead(j)) /\ WF_vars(Step(j))

FairSpec == Spec /\ Fairness
=============================================================================
