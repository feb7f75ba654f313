------------------------------- MODULE Rollup -------------------------------
(***************************************************************************)
(* The node as a whole: Proposer, with a deriver that hands over what it   *)
(* really reads off L1, a batcher that puts it there, and the L1 both      *)
(* share.  It is about restarts: the three services find out on their own  *)
(* where to go on, at different times, from the newest root L1 shows then. *)
(*                                                                         *)
(* Batcher and Deriver have the detail of the data path; here a channel    *)
(* holds one block and takes two frames, so that it can be left half sent  *)
(* or half read, an L1 block holds one transaction, and reading it is one  *)
(* step, as the passes after a fetch wait for nothing outside the process. *)
(* One derivation loop runs at a time.                                     *)
(*                                                                         *)
(* L1 may reorganise: the deriver reads at the tip, as the test against    *)
(* the safe head is commented out (dertiver.l1.retrieval.ts).              *)
(***************************************************************************)
EXTENDS Proposer

CONSTANTS
    MaxFaults,      \* bound on crashes, stops, losses, reorganisations, roots by hand
    MaxTakenBack    \* bound on the L1 blocks that reorganisations take back

ASSUME RollupAssumption == MaxFaults \in Nat /\ MaxTakenBack \in Nat

VARIABLES
    \* L1
    l1,          \* its blocks, a transaction of ours in each
    mempool,     \* frames L1 has accepted and not mined, in nonce order
    \* the process
    stored,      \* lastStoredBlock of the batcher, 0 when undefined
    unsent,      \* frames made and not sent
    position,    \* l1BlockNumber of the deriver, 0 when not known
    bank,        \* frames in its channel bank
    \* history
    channels,    \* channels opened
    hasty,       \* started while a root was on its way or gone, or one sent by hand
    lost,        \* this process lost a frame
    dropped,     \* L1 dropped a root while this process runs
    takenBack,   \* how many blocks L1 took back
    faults       \* how many there were

node       == <<stored, unsent, position, bank>>
onL1       == <<l1, mempool>>
private    == <<onL1, node, channels, hasty, lost, dropped, takenBack, faults>>
rollupVars == <<vars, private>>

Tx(kind, channel, block) == [kind |-> kind, channel |-> channel, block |-> block]
\* The event of an output has its number in channel.
Root(i, n)  == Tx("root", i, n)
FrameKinds  == {"first", "last"}

\* The other frame of the channel of f.
Partner(f) == [f EXCEPT !.kind = IF f.kind = "last" THEN "first" ELSE "last"]

IsRoot(tx)  == tx.kind = "root"
IsFrame(tx) == tx.kind \in FrameKinds

FrameType == [kind : FrameKinds, channel : 1 .. channels, block : Index]

RollupTypeOK ==
    /\ TypeOK
    /\ l1 \in Seq(FrameType \cup [kind : {"root"}, channel : 1 .. Len(outputs), block : Index])
    /\ l1 # <<>> /\ IsRoot(l1[1])
    /\ mempool \in Seq(FrameType)
    /\ unsent \in Seq(FrameType)
    /\ stored \in 0 .. MaxIndex
    /\ position \in Nat
    /\ bank \subseteq FrameType
    /\ channels \in Nat
    /\ hasty \in BOOLEAN /\ lost \in BOOLEAN /\ dropped \in BOOLEAN
    /\ takenBack \in 0 .. MaxTakenBack
    /\ faults \in 0 .. MaxFaults

-----------------------------------------------------------------------------
RollupInit ==
    /\ Init
    /\ l1 = <<Root(1, 1)>> /\ mempool = <<>>
    /\ stored = 0 /\ unsent = <<>> /\ position = 0 /\ bank = {}
    /\ channels = 0 /\ hasty = FALSE /\ lost = FALSE /\ dropped = FALSE
    /\ takenBack = 0 /\ faults = 0

-----------------------------------------------------------------------------
(* Starting and stopping. *)

Fault == faults < MaxFaults /\ faults' = faults + 1

\* derivateStart looks for a position on L1 only when it has none.
Start(l) ==
    /\ StartRollup(l)
    /\ deriving' = (position # 0)
    /\ hasty' = (hasty \/ dropped \/ pendingRoots # <<>>)
    /\ UNCHANGED <<onL1, node, channels, lost, dropped, takenBack, faults>>

\* Where the newest root is on L1.
NewestRootAt ==
    CHOOSE k \in DOMAIN l1 : /\ IsRoot(l1[k])
                             /\ \A j \in DOMAIN l1 : IsRoot(l1[j]) => j <= k

\* The answer is the lower end of the window the newest root was found in.
DerivationBegins(l) ==
    /\ DerivateStarted(l)
    /\ position' \in 1 .. NewestRootAt
    /\ UNCHANGED <<onL1, stored, unsent, bank, channels, hasty, lost, dropped, takenBack,
                   faults>>

\* The operator stops the rollup again when it is half started: a flag was set
\* after an await, and startRollup refuses.
HalfStarted == ~ batching /\ (deriving \/ proposing)

Stop ==
    /\ StopRollup
    /\ \/ HalfStarted /\ UNCHANGED faults
       \/ Fault
    /\ UNCHANGED <<onL1, node, channels, hasty, lost, dropped, takenBack>>

\* What a new process knows.
NewProcess ==
    /\ stored' = 0 /\ unsent' = <<>> /\ position' = 0 /\ bank' = {}
    /\ hasty' = FALSE /\ lost' = FALSE /\ dropped' = FALSE

CrashAndRestart ==
    /\ Crash
    /\ Fault
    /\ NewProcess
    /\ UNCHANGED <<onL1, channels, takenBack>>

ProposerThrows(l) ==
    /\ Uncaught(l)
    /\ NewProcess
    /\ UNCHANGED <<onL1, channels, takenBack, faults>>

-----------------------------------------------------------------------------
(* The batcher. *)

\* Faulty: goes on behind the latest block of L3.
BatcherBeginsAtTip ==
    /\ batching
    /\ stored = 0
    /\ stored' \in Newest .. MaxIndex
    /\ UNCHANGED <<vars, onL1, unsent, position, bank, channels, hasty, lost, dropped,
                   takenBack, faults>>

\* initBlock
BatcherBegins ==
    /\ batching
    /\ stored = 0
    /\ stored' = Newest
    /\ UNCHANGED <<vars, onL1, unsent, position, bank, channels, hasty, lost, dropped,
                   takenBack, faults>>

\* A block is loaded and packed, or a frame waits: in either case a frame is sent.
Load ==
    \/ /\ unsent # <<>>
       /\ unsent' = Tail(unsent)
       /\ UNCHANGED <<stored, channels>>
    \/ /\ unsent = <<>>
       /\ stored < MaxIndex
       /\ stored' = stored + 1
       /\ channels' = channels + 1
       /\ unsent' = <<Tx("last", channels + 1, stored + 1)>>

Loaded == IF unsent # <<>> THEN Head(unsent) ELSE Tx("first", channels + 1, stored + 1)

\* The error of a send is caught and the frame is gone.
SendFrame ==
    /\ batching
    /\ stored # 0
    /\ Load
    /\ \/ mempool' = Append(mempool, Loaded) /\ UNCHANGED <<lost, faults>>
       \/ Fault /\ lost' = TRUE /\ UNCHANGED mempool
    /\ UNCHANGED <<vars, l1, position, bank, hasty, dropped, takenBack>>

-----------------------------------------------------------------------------
(* L1 *)

MineFrame ==
    /\ mempool # <<>>
    /\ l1' = Append(l1, Head(mempool))
    /\ mempool' = Tail(mempool)
    /\ UNCHANGED <<vars, node, channels, hasty, lost, dropped, takenBack, faults>>

MineOutput ==
    /\ MineRoot
    /\ l1' = IF outputs' = outputs THEN l1 ELSE Append(l1, Root(Len(outputs'), Newest'))
    /\ UNCHANGED <<mempool, node, channels, hasty, lost, dropped, takenBack, faults>>

LoseOutputs ==
    /\ DropRoots
    /\ Fault
    /\ dropped' = TRUE
    /\ UNCHANGED <<onL1, node, channels, hasty, lost, takenBack>>

\* A reorganisation takes back one block of L1 after another, and what was in
\* them waits again; transactions of one account keep their order, by the nonces.
TakeBack ==
    LET tx == l1[Len(l1)]
    IN  /\ Len(l1) > 1
        /\ takenBack < MaxTakenBack
        /\ takenBack' = takenBack + 1
        /\ \/ Fault
           \/ takenBack > 0 /\ UNCHANGED faults
        /\ l1' = SubSeq(l1, 1, Len(l1) - 1)
        /\ \/ /\ IsFrame(tx)
              /\ mempool' = <<tx>> \o mempool
              /\ UNCHANGED chain
           \/ /\ IsRoot(tx)
              /\ pendingRoots' = <<tx.block>> \o pendingRoots
              /\ outputs' = SubSeq(outputs, 1, tx.channel - 1)
              /\ UNCHANGED mempool
        /\ UNCHANGED <<flags, store, memory, loopVars, history, node, channels, hasty, lost,
                       dropped>>

-----------------------------------------------------------------------------
(* The deriver reads an L1 block. *)

\* Faulty: a channel is ready with any of its frames.
ReadyWithAny(f) == TRUE

\* The channel of f is complete with it.
ReadyWith(f) == Partner(f) \in bank

ReadBlock ==
    /\ deriving
    /\ position # 0
    /\ position <= Len(l1)
    /\ position' = position + 1
    /\ LET tx == l1[position]
       IN  \/ IsRoot(tx) /\ UNCHANGED <<vars, bank>>
           \/ /\ IsFrame(tx) /\ tx \notin bank
              /\ ReadyWith(tx)
              /\ Deliver(tx.block)
              /\ bank' = bank \ {Partner(tx)}
           \/ /\ IsFrame(tx) /\ tx \notin bank
              /\ ~ ReadyWith(tx)
              /\ bank' = bank \cup {tx}
              /\ UNCHANGED vars
    /\ UNCHANGED <<onL1, stored, unsent, channels, hasty, lost, dropped, takenBack, faults>>

\* addFrame: "Frame already exists".
DeriverThrows ==
    /\ deriving
    /\ position \in DOMAIN l1
    /\ l1[position] \in bank
    /\ Boot /\ UNCHANGED <<chain, history>>
    /\ NewProcess
    /\ UNCHANGED <<onL1, channels, takenBack, faults>>

-----------------------------------------------------------------------------
ProposerRuns(l) ==
    /\ LoopStep(l)
    /\ ~ Throws(l)
    /\ UNCHANGED private

\* GET geth/propose/outputroot, by the operator.
ProposedByHand(n) ==
    /\ ProposeLatest(n)
    /\ Fault
    /\ hasty' = TRUE
    /\ UNCHANGED <<onL1, node, channels, lost, dropped, takenBack>>

RollupNext ==
    \/ \E l \in Loops : \/ Start(l) \/ DerivationBegins(l) \/ ProposerRuns(l)
                        \/ ProposerThrows(l)
    \/ Stop \/ CrashAndRestart
    \/ BatcherBegins \/ SendFrame
    \/ MineFrame \/ MineOutput \/ LoseOutputs
    \/ TakeBack
    \/ ReadBlock \/ DeriverThrows
    \/ \E n \in Index : ProposedByHand(n)

\* Nodes answer, timers fire, L1 mines, and the rollup is not left stopped.
RollupFairness ==
    /\ \A l \in Loops : /\ WF_rollupVars(Start(l))
                        /\ WF_rollupVars(DerivationBegins(l))
                        /\ WF_rollupVars(ProposerRuns(l) \/ ProposerThrows(l))
    /\ WF_rollupVars(HalfStarted /\ Stop)
    /\ WF_rollupVars(BatcherBegins)
    /\ WF_rollupVars(SendFrame)
    /\ WF_rollupVars(MineFrame)
    /\ WF_rollupVars(MineOutput)
    /\ WF_rollupVars(ReadBlock \/ DeriverThrows)

RollupSpec == RollupInit /\ [][RollupNext]_rollupVars

FairRollupSpec == RollupSpec /\ RollupFairness

-----------------------------------------------------------------------------
(* What the node promises. *)

\* The blocks whose channel is complete in the transactions txs.
CompleteIn(txs) ==
    {f.block : f \in {g \in txs : IsFrame(g) /\ Partner(g) \in txs}}

Txs(s) == {s[k] : k \in DOMAIN s}

\* The data of every block under an output root, but for forced ones, is on L1
\* in front of the root; after a reorganisation it may be behind it or wait to
\* be mined again.  A crash, a restart from any root, half sent channels and
\* lost frames change nothing about it.
RootsBacked ==
    \A k \in DOMAIN l1 : IsRoot(l1[k]) =>
        CoveredBy(l1[k].block,
                  CompleteIn(IF takenBack > 0 THEN Txs(l1) \cup Txs(mempool)
                             ELSE Txs(SubSeq(l1, 1, k - 1))),
                  forced)

\* Every block of L3 gets under a root in the end, whatever crashes, stops and
\* exceptions there were: unless frames were lost or L1 blocks taken back, or the
\* rollup started while a root was on its way to L1 or dropped by it, or one was
\* sent by hand.  In that case the proposer takes its position from an older root
\* than the batcher, the deriver or the block map, waits for a block that never
\* comes, and logs "Proposing delayed" for ever.  A root L1 drops is made up for by
\* the next one, though the loop goes on from the position L1 does not have: only
\* when it was that of the latest block there is none.
EveryBlockProposed ==
    <>[](\/ Newest = MaxIndex
         \/ dropped /\ latestProposed = MaxIndex
         \/ hasty \/ lost \/ takenBack > 0)
=============================================================================
