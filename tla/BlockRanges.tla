---------------------------- MODULE BlockRanges ----------------------------
(***************************************************************************)
(* How every job of the repository reads logs (packages/shared, blockchain *)
(* /utils.ts): the blocks of an interval are cut into ranges, the ranges   *)
(* are requested ten at a time, and when a request fails all of it starts  *)
(* anew with ranges of half the length.                                    *)
(*                                                                         *)
(* A log is named by its block; a request returns the logs of its blocks.  *)
(***************************************************************************)
EXTENDS Integers, SequencesExt

CONSTANTS
    LastBlock,   \* the interval lies within 0..LastBlock
    RangeSizes,  \* the blockRange values of the callers
    ParallelRequests, \* BATCH_SIZE
    MaxRetries   \* MAX_RETRIES_EVENT_LOGS

RangesAssumption ==
    /\ LastBlock \in Nat
    /\ RangeSizes \subseteq Nat
    /\ ParallelRequests \in Nat \ {0}
    /\ MaxRetries \in Nat

VARIABLES
    blocks,      \* startBlockNumber and endBlockNumber of the call
    blockRange,  \* the length of the ranges of this pass, less one
    retries,     \* maxRetries of this pass
    requested,   \* ranges of this pass that were requested already
    events,      \* the logs of this pass so far
    outcome      \* "none" until the call returns or throws

vars == <<blocks, blockRange, retries, requested, events, outcome>>

From == blocks[1]
To == blocks[2]

\* createBlockRanges: ranges of size + 1 blocks, the last one cut off.
BlockRangesOf(from, to, size) ==
    LET number == (to - from + size + 1) \div (size + 1)
    IN  [i \in 1..number |-> <<from + (i - 1) * (size + 1),
                               Min({from + i * (size + 1) - 1, to})>>]

\* getEventLogs
LogsOf(range) == [i \in 1..range[2] - range[1] + 1 |-> range[1] + i - 1]

Init ==
    /\ blocks = <<0, 0>>
    /\ blockRange = 0
    /\ retries = MaxRetries
    /\ requested = 0
    /\ events = <<>>
    /\ outcome = "not called"

\* A job calls fetchEvents.
Call ==
    /\ outcome = "not called"
    /\ outcome' = "none"
    /\ blocks' \in (0..LastBlock) \X (0..LastBlock)
    /\ blockRange' \in RangeSizes
    /\ UNCHANGED <<retries, requested, events>>

\* The loop is over: the events are returned.
Return ==
    /\ outcome = "none"
    /\ requested >= Len(BlockRangesOf(From, To, blockRange))
    /\ outcome' = "returned"
    /\ UNCHANGED <<blocks, blockRange, retries, requested, events>>

\* Promise.all of one batch: its results are in the order of the ranges,
\* whatever the order of the answers.
FetchBatch ==
    LET ranges == BlockRangesOf(From, To, blockRange)
        upTo == Min({requested + ParallelRequests, Len(ranges)})
    IN  /\ outcome = "none"
        /\ requested < Len(ranges)
        /\ events' = events \o FlattenSeq([i \in 1..upTo - requested |-> LogsOf(ranges[requested + i])])
        /\ requested' = requested + ParallelRequests
        /\ UNCHANGED <<blocks, blockRange, retries, outcome>>

\* Mutant: what was fetched before the failure is kept.
StartAnew_KeepsEvents ==
    /\ retries' = retries - 1
    /\ blockRange' = blockRange \div 2
    /\ requested' = 0
    /\ UNCHANGED <<events, outcome>>

\* The recursive call with half the range and one retry less.
StartAnew ==
    /\ retries' = retries - 1
    /\ blockRange' = blockRange \div 2
    /\ requested' = 0
    /\ events' = <<>>
    /\ UNCHANGED outcome

\* A request of the batch fails: the catch block of fetchEvents.
BatchFails ==
    /\ outcome = "none"
    /\ requested < Len(BlockRangesOf(From, To, blockRange))
    /\ IF retries > 0 THEN StartAnew
       ELSE outcome' = "thrown" /\ UNCHANGED <<blockRange, retries, requested, events>>
    /\ UNCHANGED blocks

Next == Call \/ Return \/ FetchBatch \/ BatchFails

Spec == Init /\ [][Next]_vars

-----------------------------------------------------------------------------
(* Properties.                                                             *)

\* Type invariant of the state above.
TypeOK ==
    /\ blocks \in (0..LastBlock) \X (0..LastBlock)
    /\ blockRange \in Nat
    /\ retries \in 0..MaxRetries
    /\ requested \in Nat
    /\ events \in Seq(Nat)
    /\ outcome \in {"not called", "none", "returned", "thrown"}

\* A call that returns has the logs of each block exactly once and in order,
\* whichever requests failed, how often the ranges were halved, down to
\* single blocks, and also for an interval that is empty.
EventsExact ==
    outcome = "returned" => events = [i \in 1..To - From + 1 |-> From + i - 1]
=============================================================================
