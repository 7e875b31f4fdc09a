--------------------------- MODULE DepositPipeline ---------------------------
(***************************************************************************)
(* The two jobs that a deposit passes: deposit-analyzer relays it, and     *)
(* token-map-register, which learns of the relay from Liquidity, registers *)
(* its token.  They share the chain and nothing else: no call, no document.*)
(***************************************************************************)
EXTENDS DepositAnalyzer

CONSTANTS Registers, TokenIndexOf, ERC20Indexes, NoMetadata, InLimit,
          SearchRange, SearchAttempts, MaxBlock, MaxRegFaults

\* The register's bound on the chain is out of the analyzer's reach, whose
\* every block holds a deposit or a relay once it may not be empty.
ASSUME HeightAssumption ==
    MaxBlock \in Nat /\ DeployedBlock + MaxEmptyBlocks + 2 * MaxDeposits < MaxBlock

VARIABLES mapCursor, tokenMaps, register, regFaults

\* The register as it sees the chain: the state of Liquidity is the one the
\* analyzer relays to, the documents are the register's own.
Map == INSTANCE TokenMapRegister
         WITH head <- head, lastDepositId <- lastDepositId, depositBlock <- depositBlock,
              relayEvents <- relayEvents, mapCursor <- mapCursor, tokenMaps <- tokenMaps,
              register <- register, regFaults <- regFaults

registerVars == <<mapCursor, tokenMaps, register, regFaults>>
analyzerVars == <<lastRelayed, pending, cursor, job, receipt, faults>>
pipelineVars == <<vars, registerVars>>

PipelineInit == Init /\ Map!RegisterInit

\* Mutant: both jobs keep their cursor in one document.
AnalyzerStep_OneDocument ==
    /\ Next
    /\ mapCursor' = IF cursor' = cursor THEN mapCursor
                    ELSE [mapCursor EXCEPT !.block = cursor']
    /\ UNCHANGED <<tokenMaps, register, regFaults>>

\* The scheduler starts the jobs independently of each other.
AnalyzerStep == Next /\ UNCHANGED registerVars

RegisterStep == Map!Run /\ UNCHANGED analyzerVars

PipelineNext == AnalyzerStep \/ RegisterStep

PipelineSpec == PipelineInit /\ [][PipelineNext]_pipelineVars

FairPipelineSpec ==
    /\ PipelineSpec
    /\ WF_pipelineVars(MineRelay /\ UNCHANGED registerVars)
    /\ \A j \in Jobs :
         /\ SF_pipelineVars(ReadLatestHead(j) /\ UNCHANGED registerVars)
         /\ WF_pipelineVars(Step(j) /\ UNCHANGED registerVars)
    /\ \A r \in Registers :
         /\ SF_pipelineVars(Map!ReadLatestHead(r) /\ UNCHANGED analyzerVars)
         /\ WF_pipelineVars(Map!Step(r) /\ UNCHANGED analyzerVars)

-----------------------------------------------------------------------------
(* Properties.                                                             *)

\* What the analyzer makes Liquidity do is what the register relies on: the
\* relays reach further and further, never past the deposits there are, so
\* the last log of a range holds its greatest id.  The pipeline implements
\* TokenMapRegister.
ImplementsRegister == Map!Spec

\* Unless the register's runs are obstructed from some time on, the token of
\* every deposit is registered in the end, past a fault of either job: nobody
\* tells the register what it has to look for.
DepositsRegistered ==
    \/ <>[]Map!Obstructed
    \/ \A d \in 1..MaxDeposits :
         lastDepositId >= d ~> Map!ERC20TokensOf({d}) \subseteq tokenMaps
=============================================================================
