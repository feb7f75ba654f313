------------------------------ MODULE Pipeline ------------------------------
(***************************************************************************)
(* The data path of the rollup: Batcher, L1, Deriver.  L1 mines what the   *)
(* batcher has sent, in nonce order, into blocks; the deriver reads them.  *)
(* Both services live in one process, so a crash takes both; what L1 has   *)
(* accepted stays.  The proposer is left out: the newest output root is    *)
(* that of block 1, which is in front of all L1 blocks here, so a restart  *)
(* sends and reads everything again.                                       *)
(***************************************************************************)
EXTENDS Batcher, Deriver

CONSTANTS
    MaxBlockTxs,        \* bound on the batch transactions in an L1 block
    MaxEmptyBlocks,     \* bound on the L1 blocks without one
    MaxCrashes,         \* bound on the crashes
    MayStop             \* whether the operator stops the rollup

\* Calls of batchStart that overlap are left to the module Batcher.
ASSUME PipelineAssumption ==
    /\ \A b, c \in Batchers : b = c
    /\ MaxBlockTxs \in Nat \ {0}
    /\ MaxEmptyBlocks \in Nat
    /\ MaxCrashes \in Nat
    /\ MayStop \in BOOLEAN

VARIABLES
    crashes,      \* crashes so far
    lost          \* history: this process failed to send a frame

faults       == <<crashes, lost>>
pipelineVars == <<batcherVars, deriverVars, faults>>

RootBlock == 1

PipelineTypeOK ==
    /\ BatcherTypeOK
    /\ DeriverTypeOK
    /\ crashes \in 0 .. MaxCrashes
    /\ lost \in BOOLEAN

PipelineInit == BatcherInit /\ DeriverInit /\ crashes = 0 /\ lost = FALSE

\* A new L1 block holds the next k transactions.
MineL1(k) ==
    /\ k <= Len(outbox)
    /\ k = 0 => Cardinality({n \in DOMAIN l1 : l1[n] = <<>>}) < MaxEmptyBlocks
    /\ l1' = Append(l1, SubSeq(outbox, 1, k))
    /\ outbox' = SubSeq(outbox, k + 1, Len(outbox))
    /\ UNCHANGED <<tip, batching, batcherAt, lastStored, ranges, channelVars, sending,
                   batcherHist, deriving, deriverAt, asked, l1Number, stages, delivery, faults>>

\* The process ends and a new one starts; a frame being sent may have got out.
Crash ==
    /\ crashes < MaxCrashes
    /\ crashes' = crashes + 1
    /\ lost' = FALSE
    /\ outbox' \in {outbox} \cup {Append(outbox, f) : f \in BeingSent}
    /\ BatcherBoot
    /\ DeriverBoot
    /\ UNCHANGED <<tip, nextId, l1>>

\* An error of the send of a frame, which the batcher catches and forgets.
FrameLost == \E b \in Batchers : /\ sending[b] # NoFrame
                                 /\ sending'[b] = NoFrame
                                 /\ outbox' = outbox

\* startRollup and stopRollup of app.service.ts.
StartRollup(b, l) == BatchStart(b) /\ DerivateStart(l) /\ UNCHANGED faults

StopRollup ==
    /\ MayStop
    /\ batching \/ deriving
    /\ batching' = FALSE
    /\ deriving' = FALSE
    /\ UNCHANGED <<tip, batcherAt, lastStored, ranges, channelVars, sending, outbox,
                   batcherHist, l1, deriverAt, asked, l1Number, stages, delivery, faults>>

BatcherRuns ==
    /\ \E b \in Batchers : InitBlock(b, RootBlock) \/ BatcherStep(b)
    /\ lost' = (lost \/ FrameLost)
    /\ UNCHANGED <<deriverVars, crashes>>

DeriverRuns(l) ==
    /\ StartReply(l, 0) \/ Derive(l)
    /\ UNCHANGED <<batcherVars, faults>>

L3Grows == NewL3Block /\ UNCHANGED <<deriverVars, faults>>

PipelineNext ==
    \/ L3Grows \/ BatcherRuns \/ StopRollup \/ Crash
    \/ \E l \in Derivations : DeriverRuns(l) \/ \E b \in Batchers : StartRollup(b, l)
    \/ \E k \in 0 .. MaxBlockTxs : MineL1(k)

\* The nodes answer, timers fire, L1 mines, L3 grows.  The operator does not
\* leave the rollup stopped; when a start is refused because the deriver
\* missed a stop (it sets its flag after an await), the operator stops again.
PipelineFairness ==
    /\ WF_pipelineVars(L3Grows)
    /\ WF_pipelineVars(BatcherRuns)
    /\ WF_pipelineVars(\E k \in 1 .. MaxBlockTxs : MineL1(k))
    /\ WF_pipelineVars(deriving /\ ~ batching /\ StopRollup)
    /\ \A l \in Derivations : /\ WF_pipelineVars(\E b \in Batchers : StartRollup(b, l))
                              /\ WF_pipelineVars(DeriverRuns(l))

PipelineSpec == PipelineInit /\ [][PipelineNext]_pipelineVars /\ PipelineFairness

-----------------------------------------------------------------------------
(* What the data path promises. *)

\* The newest block in a complete channel on L1.
NewestOnL1 ==
    Max({RootBlock} \cup UNION {UNION {ToSet(f.data) : f \in ch.inputs}
                                   : ch \in CompleteOnL1})

Stream == INSTANCE BlockStream WITH
    published <- NewestOnL1,
    delivered <- IF derived = <<>> THEN RootBlock ELSE Last(derived)

\* Without lost frames and crashes, batcher, L1 and deriver together are a
\* stream of blocks: none is skipped, repeated or out of order, wherever the
\* channels, frames and L1 blocks are cut and whenever the rollup is stopped.
ImplementsStream == Stream!StreamSpec

\* And the deriver catches up with L1 again and again: no complete channel
\* stays in the bank, also when L3 rests and nothing new comes
\* (deriver.service.ts, the loop of derivateStart).
StreamCatchesUp == Stream!CatchesUp

\* If no send of the last process fails, every block that is sure to be in a
\* full channel ends up in the block map after the last crash: what the crash
\* left half sent is sent again, and does not stand in the way.
RecoversBlocks == <>[](lost \/ SureToBeSent(MaxTip) \subseteq store.blocks)
=============================================================================
