---------------------------- MODULE RollupProofs ----------------------------
(***************************************************************************)
(* What holds of the whole node, Rollup, for every number of blocks, of    *)
(* calls of proposeStart, of faults and of L1 blocks taken back.           *)
(*                                                                         *)
(* Every step of the node is a step of Proposer, or ends the process, or   *)
(* takes an L1 block back, so the invariant of ProposerProofs is kept; it  *)
(* says that roots stand on blocks the deriver has read.  What is added is *)
(* that the deriver reads only what L1 has, and what a reorganisation      *)
(* needs: the roots among the L1 blocks are those of the oracle, in order. *)
(***************************************************************************)
EXTENDS Rollup, ProposerProofs

USE ConstantsAssumption, RollupAssumption

RootType == [kind : {"root"}, channel : 1 .. Len(outputs), block : Index]

\* RollupTypeOK in the parts that different actions disturb.
L1OK == l1 \in Seq(FrameType \cup RootType) /\ l1 # <<>> /\ IsRoot(l1[1])

FramesOK ==
    /\ channels \in Nat
    /\ mempool \in Seq(FrameType)
    /\ unsent \in Seq(FrameType)
    /\ bank \subseteq FrameType

NodeOK ==
    /\ stored \in 0 .. MaxIndex
    /\ position \in Nat
    /\ hasty \in BOOLEAN /\ lost \in BOOLEAN /\ dropped \in BOOLEAN
    /\ takenBack \in 0 .. MaxTakenBack
    /\ faults \in 0 .. MaxFaults

\* The roots among the L1 blocks are outputs of the oracle, in its order.
RootsInOrder ==
    \A k \in DOMAIN l1 : IsRoot(l1[k]) =>
        /\ outputs[l1[k].channel] = l1[k].block
        /\ \A j \in 1 .. k - 1 : IsRoot(l1[j]) => l1[j].channel < l1[k].channel

\* The frames L1 has or will have again.
Accepted == {tx \in Txs(l1) \cup Txs(mempool) : IsFrame(tx)}

\* The frames in the bank, and those of the derived blocks, were on L1.
DataRead ==
    /\ bank \subseteq Accepted
    /\ derived \subseteq CompleteIn(Accepted)
    /\ takenBack = 0 => bank \subseteq Txs(l1) /\ derived \subseteq CompleteIn(Txs(l1))

RollupIInv ==
    IInv /\ L1OK /\ FramesOK /\ NodeOK /\ RootsInOrder /\ DataRead /\ RootsBacked

-----------------------------------------------------------------------------
(* The steps of the node as steps of Proposer. *)

\* The inductive invariant of Proposer, for one step.
LEMMA ProposerStep == IInv /\ [Next]_vars => IInv'
BY TypeStep, StoreStep, AvailableStep DEF IInv

\* A new process keeps it, whatever ended the old one.
LEMMA ProposerBoot == IInv /\ Boot /\ UNCHANGED <<chain, history>> => IInv'
BY BootType, StoreBoot, AvailableBoot DEF IInv, history

\* A transaction on L1 is of one of the two kinds.
LEMMA TxTypes ==
    ASSUME L1OK, NEW k \in DOMAIN l1
    PROVE  /\ l1[k] \in FrameType \cup RootType
           /\ IsRoot(l1[k]) <=> l1[k] \in RootType
           /\ IsFrame(l1[k]) <=> l1[k] \in FrameType
           /\ l1[k].block \in Index
BY DEF L1OK, IsRoot, IsFrame, FrameKinds, FrameType, RootType

\* Every step of the node but a reorganisation and an exception of the deriver
\* is one of Proposer.
LEMMA RollupRefinesProposer ==
    L1OK /\ NodeOK /\ RollupNext => [Next]_vars \/ TakeBack \/ DeriverThrows
<1> SUFFICES ASSUME L1OK, NodeOK, RollupNext
             PROVE  [Next]_vars \/ TakeBack \/ DeriverThrows
    OBVIOUS
<1>1. ASSUME NEW l \in Loops,
             Start(l) \/ DerivationBegins(l) \/ ProposerRuns(l) \/ ProposerThrows(l)
      PROVE  Next
    BY <1>1 DEF Start, DerivationBegins, ProposerRuns, ProposerThrows, LoopStep, Next
<1>2. CASE Stop \/ CrashAndRestart \/ MineOutput \/ LoseOutputs
    BY <1>2 DEF Stop, CrashAndRestart, MineOutput, LoseOutputs, Next
<1>3. CASE BatcherBegins \/ SendFrame \/ MineFrame
    BY <1>3 DEF BatcherBegins, SendFrame, MineFrame
<1>4. CASE ReadBlock
  <2>1. position \in DOMAIN l1
      BY <1>4 DEF ReadBlock, L1OK, NodeOK
  <2>2. CASE UNCHANGED vars
      BY <2>2
  <2>3. CASE /\ IsFrame(l1[position])
             /\ Deliver(l1[position].block)
    <3>1. l1[position].block \in Index
        BY <2>1, TxTypes
    <3> QED BY <2>3, <3>1 DEF Next
  <2> QED BY <1>4, <2>2, <2>3 DEF ReadBlock
<1>5. ASSUME NEW n \in Index, ProposedByHand(n) PROVE Next
    BY <1>5 DEF ProposedByHand, Next
<1> QED BY <1>1, <1>2, <1>3, <1>4, <1>5 DEF RollupNext

\* The steps that leave L1 alone.
Inside ==
    \/ \E l \in Loops : Start(l) \/ DerivationBegins(l) \/ ProposerRuns(l) \/ ProposerThrows(l)
    \/ Stop \/ CrashAndRestart \/ BatcherBegins \/ LoseOutputs
    \/ ReadBlock \/ DeriverThrows
    \/ \E n \in Index : ProposedByHand(n)

\* They leave the oracle alone too, and forget no forced root.
LEMMA InsideFrame ==
    Inside => /\ UNCHANGED <<l1, mempool, outputs, takenBack>>
              /\ forced \subseteq forced'
<1> SUFFICES ASSUME Inside
             PROVE  /\ UNCHANGED <<l1, mempool, outputs, takenBack>>
                    /\ forced \subseteq forced'
    OBVIOUS
<1>1. ASSUME NEW l \in Loops, LoopStep(l)
      PROVE  UNCHANGED outputs /\ forced \subseteq forced'
    BY <1>1 DEF LoopStep, ReadOracle, Started, NoNewBlock, Recovering, InvalidRange,
        TakeBlocks, Verified, SubmitRoot, Proposed, WakeDown, ReadTip, SubmitTip,
        Uncaught, chain, history
<1>2. ASSUME NEW l \in Loops,
             Start(l) \/ DerivationBegins(l) \/ ProposerRuns(l) \/ ProposerThrows(l)
      PROVE  /\ UNCHANGED <<l1, mempool, outputs, takenBack>>
             /\ forced \subseteq forced'
    BY <1>1, <1>2 DEF Start, DerivationBegins, ProposerRuns, ProposerThrows, StartRollup,
        DerivateStarted, LoopStep, private, onL1, chain, history
<1>3. CASE Stop \/ CrashAndRestart \/ BatcherBegins \/ LoseOutputs
    BY <1>3 DEF Stop, CrashAndRestart, BatcherBegins, LoseOutputs, StopRollup, Crash,
        DropRoots, vars, onL1, chain, history
<1>4. CASE ReadBlock \/ DeriverThrows
    BY <1>4 DEF ReadBlock, DeriverThrows, Deliver, vars, onL1, chain, history
<1>5. ASSUME NEW n \in Index, ProposedByHand(n)
      PROVE  /\ UNCHANGED <<l1, mempool, outputs, takenBack>>
             /\ forced \subseteq forced'
    BY <1>5 DEF ProposedByHand, ProposeLatest, onL1
<1> QED BY <1>2, <1>3, <1>4, <1>5 DEF Inside

\* The steps of RollupNext, once more.
LEMMA RollupSteps ==
    RollupNext => Inside \/ SendFrame \/ MineFrame \/ MineOutput \/ TakeBack
BY DEF RollupNext, Inside

-----------------------------------------------------------------------------
(* Reorganisations. *)

\* What TakeBack does, in terms of the roots and frames there are.
LEMMA TakeBackFacts ==
    ASSUME RollupIInv, TakeBack
    PROVE  /\ Len(l1) > 1 /\ Len(l1) \in DOMAIN l1
           /\ l1' \in Seq(FrameType \cup RootType)
           /\ Len(l1') = Len(l1) - 1
           /\ \A k \in 1 .. Len(l1) - 1 : l1'[k] = l1[k]
           /\ takenBack' = takenBack + 1
<1>1. Len(l1) > 1 /\ l1' = SubSeq(l1, 1, Len(l1) - 1) /\ takenBack' = takenBack + 1
    BY DEF TakeBack
<1>2. l1 \in Seq(FrameType \cup RootType)
    BY DEF RollupIInv, L1OK
<1> QED BY <1>1, <1>2

\* A root goes back to the mempool with the output it made; the oracle keeps
\* the outputs in front of it, and has one, as the first root stays.
LEMMA RootTakenBack ==
    ASSUME RollupIInv, TakeBack, IsRoot(l1[Len(l1)])
    PROVE  LET tx == l1[Len(l1)]
           IN  /\ tx.channel \in 2 .. Len(outputs) /\ tx.block = outputs[tx.channel]
               /\ pendingRoots' = <<tx.block>> \o pendingRoots
               /\ outputs' \in Seq(Index) /\ Len(outputs') = tx.channel - 1
               /\ \A i \in 1 .. tx.channel - 1 : outputs'[i] = outputs[i]
               /\ mempool' = mempool
<1> DEFINE tx == l1[Len(l1)]
<1>1. Len(l1) \in DOMAIN l1 /\ 1 \in 1 .. Len(l1) - 1 /\ 1 \in DOMAIN l1
    BY TakeBackFacts DEF RollupIInv, L1OK
<1>2. tx \in RootType /\ l1[1] \in RootType
    BY <1>1, TxTypes DEF RollupIInv, L1OK
<1>3. tx.block = outputs[tx.channel] /\ l1[1].channel < tx.channel
    BY <1>1 DEF RollupIInv, RootsInOrder, L1OK
<1>4. outputs \in Seq(Index)
    BY DEF RollupIInv, IInv, TypeOK
<1>5. tx.channel \in 2 .. Len(outputs)
    BY <1>2, <1>3, <1>4 DEF RootType
<1>6. ~ IsFrame(tx)
    BY DEF IsRoot, IsFrame, FrameKinds
<1>7. /\ pendingRoots' = <<tx.block>> \o pendingRoots
      /\ outputs' = SubSeq(outputs, 1, tx.channel - 1)
      /\ mempool' = mempool
    BY <1>6 DEF TakeBack
<1>8. /\ outputs' \in Seq(Index) /\ Len(outputs') = tx.channel - 1
      /\ \A i \in 1 .. tx.channel - 1 : outputs'[i] = outputs[i]
    BY <1>4, <1>5, <1>7
<1> QED BY <1>3, <1>5, <1>7, <1>8

\* A frame goes back to the front of the mempool.
LEMMA FrameTakenBack ==
    ASSUME RollupIInv, TakeBack, ~ IsRoot(l1[Len(l1)])
    PROVE  /\ l1[Len(l1)] \in FrameType
           /\ mempool' = <<l1[Len(l1)]>> \o mempool
           /\ UNCHANGED chain
<1>1. l1[Len(l1)] \in FrameType
    BY TakeBackFacts, TxTypes DEF RollupIInv, L1OK
<1> QED BY <1>1 DEF TakeBack

\* The invariant of Proposer is kept: the outputs that are left were covered,
\* and so was the root that waits again.
LEMMA TakeBackProposer == RollupIInv /\ TakeBack => IInv'
<1> SUFFICES ASSUME RollupIInv, TakeBack PROVE IInv'
    OBVIOUS
<1>1. UNCHANGED <<flags, store, memory, loopVars, history>>
    BY DEF TakeBack
<1>2. CASE ~ IsRoot(l1[Len(l1)])
  <2>1. UNCHANGED vars
      BY <1>1, <1>2, FrameTakenBack DEF vars
  <2> QED BY <2>1, ProposerStep DEF RollupIInv
<1>3. CASE IsRoot(l1[Len(l1)])
  <2> DEFINE tx == l1[Len(l1)]
  <2>1. /\ tx.channel \in 2 .. Len(outputs) /\ tx.block = outputs[tx.channel]
        /\ pendingRoots' = <<tx.block>> \o pendingRoots
        /\ outputs' \in Seq(Index) /\ Len(outputs') = tx.channel - 1
        /\ \A i \in 1 .. tx.channel - 1 : outputs'[i] = outputs[i]
      BY <1>3, RootTakenBack
  <2> HIDE DEF tx
  <2>2. TypeOK /\ StoreOK /\ Held /\ Available
      BY DEF RollupIInv, IInv
  <2>3. tx.block \in Index
      BY <2>1, <2>2 DEF TypeOK
  <2>4. /\ pendingRoots' \in Seq(Index) /\ Len(pendingRoots') = Len(pendingRoots) + 1
        /\ pendingRoots'[1] = tx.block
        /\ \A i \in 1 .. Len(pendingRoots) : pendingRoots'[i + 1] = pendingRoots[i]
      BY <2>1, <2>2, <2>3 DEF TypeOK
  <2>5. TypeOK'
    <3>1. outputs' \in Seq(Index) /\ outputs' # <<>> /\ pendingRoots' \in Seq(Index)
        BY <2>1, <2>4
    <3> QED BY <1>1, <2>2, <3>1 DEF TypeOK, flags, memory, loopVars, history
  <2>6. StoreOK' /\ Held'
      BY <1>1, <2>2, StoreFrame DEF history
  <2>7. DataAvailable'
    <3> SUFFICES ASSUME NEW i \in 1 .. Len(outputs')
                 PROVE  CoveredBy(outputs'[i], derived', forced')
        BY DEF DataAvailable, Covered
    <3>1. i \in 1 .. Len(outputs) /\ outputs'[i] = outputs[i]
        BY <2>1, <2>2 DEF TypeOK
    <3> QED BY <1>1, <2>2, <3>1 DEF Available, DataAvailable, Covered, history
  <2>8. RootsInFlightAvailable'
    <3>1. CoveredBy(tx.block, derived', forced')
        BY <1>1, <2>1, <2>2 DEF Available, DataAvailable, Covered, history, TypeOK
    <3>2. ASSUME NEW i \in 1 .. Len(pendingRoots')
          PROVE  CoveredBy(pendingRoots'[i], derived', forced')
      <4>1. CASE i = 1
          BY <2>4, <3>1, <4>1
      <4>2. CASE i # 1
        <5>1. i - 1 \in 1 .. Len(pendingRoots) /\ pendingRoots'[i] = pendingRoots[i - 1]
            BY <2>2, <2>4, <4>2 DEF TypeOK
        <5> QED BY <1>1, <2>2, <5>1 DEF Available, RootsInFlightAvailable, Covered, history
      <4> QED BY <4>1, <4>2
    <3> QED BY <1>1, <2>2, <3>2 DEF Available, RootsInFlightAvailable, Covered, history,
            memory, loopVars
  <2> QED BY <2>5, <2>6, <2>7, <2>8 DEF IInv, Available
<1> QED BY <1>2, <1>3

-----------------------------------------------------------------------------
(* Type correctness. *)

\* A frame and its partner are of the same channel and block.
LEMMA PartnerType == \A f \in FrameType : Partner(f) \in FrameType
BY DEF Partner, FrameType, FrameKinds

\* Channel numbers are never taken back, so a frame stays one.
LEMMA FrameTypeGrows ==
    ASSUME channels \in Nat, channels' \in Nat, channels' >= channels
    PROVE  FrameType \subseteq FrameType'
<1> SUFFICES ASSUME NEW f \in FrameType PROVE f \in FrameType'
    OBVIOUS
<1>1. 1 .. channels \subseteq 1 .. channels'
    OBVIOUS
<1> QED BY <1>1 DEF FrameType, FrameKinds

\* The frame a send takes: one that waits, or the first of a new channel.
LEMMA LoadFacts ==
    ASSUME FramesOK, NodeOK, stored # 0, Load
    PROVE  /\ channels' \in Nat /\ channels' >= channels
           /\ Loaded \in FrameType'
           /\ unsent' \in Seq(FrameType')
           /\ stored' \in 0 .. MaxIndex
<1>1. CASE unsent # <<>>
  <2>1. channels' = channels /\ stored' = stored /\ unsent' = Tail(unsent)
      BY <1>1 DEF Load
  <2>2. FrameType' = FrameType
      BY <2>1 DEF FrameType, FrameKinds
  <2>3. Loaded \in FrameType /\ Tail(unsent) \in Seq(FrameType)
      BY <1>1 DEF Loaded, FramesOK
  <2> QED BY <2>1, <2>2, <2>3 DEF FramesOK, NodeOK
<1>2. CASE unsent = <<>>
  <2>1. /\ channels' = channels + 1 /\ stored' = stored + 1 /\ stored < MaxIndex
        /\ unsent' = <<Tx("last", channels + 1, stored + 1)>>
        /\ Loaded = Tx("first", channels + 1, stored + 1)
      BY <1>2 DEF Load, Loaded
  <2>2. stored + 1 \in Index /\ channels + 1 \in 1 .. channels'
      BY <2>1 DEF FramesOK, NodeOK, Index
  <2>3. \A kind \in FrameKinds : Tx(kind, channels + 1, stored + 1) \in FrameType'
      BY <2>2 DEF Tx, FrameType, FrameKinds
  <2>4. unsent' \in Seq(FrameType') /\ Loaded \in FrameType'
      BY <2>1, <2>3 DEF FrameKinds
  <2> QED BY <2>1, <2>2, <2>4 DEF FramesOK, NodeOK
<1> QED BY <1>1, <1>2

\* Frames stay frames wherever they wait, and what is read off L1 is one.
LEMMA FramesStep ==
    L1OK /\ FramesOK /\ NodeOK /\ RollupNext /\ (TakeBack => RollupIInv) => FramesOK'
<1> SUFFICES ASSUME L1OK, FramesOK, NodeOK, RollupNext, TakeBack => RollupIInv
             PROVE  FramesOK'
    OBVIOUS
<1>1. ASSUME UNCHANGED <<channels, mempool>>,
             unsent' = unsent \/ unsent' = <<>>,
             bank' = bank \/ bank' = {}
      PROVE  FramesOK'
  <2>1. FrameType' = FrameType
      BY <1>1 DEF FrameType, FrameKinds
  <2>2. unsent' \in Seq(FrameType) /\ bank' \subseteq FrameType
      BY <1>1, EmptySeq DEF FramesOK
  <2> QED BY <1>1, <2>1, <2>2 DEF FramesOK
<1>2. ASSUME NEW l \in Loops,
             Start(l) \/ DerivationBegins(l) \/ ProposerRuns(l) \/ ProposerThrows(l)
      PROVE  FramesOK'
    BY <1>1, <1>2 DEF Start, DerivationBegins, ProposerRuns, ProposerThrows, private,
        onL1, node, NewProcess
<1>3. CASE \/ Stop \/ CrashAndRestart \/ BatcherBegins \/ LoseOutputs \/ DeriverThrows
           \/ MineOutput
    BY <1>1, <1>3 DEF Stop, CrashAndRestart, BatcherBegins, LoseOutputs, DeriverThrows,
        MineOutput, onL1, node, NewProcess
<1>4. ASSUME NEW n \in Index, ProposedByHand(n) PROVE FramesOK'
    BY <1>1, <1>4 DEF ProposedByHand, onL1, node
<1>5. CASE SendFrame
  <2>1. /\ channels' \in Nat /\ channels' >= channels
        /\ Loaded \in FrameType' /\ unsent' \in Seq(FrameType')
      BY <1>5, LoadFacts DEF SendFrame
  <2>2. FrameType \subseteq FrameType'
      BY <2>1, FrameTypeGrows DEF FramesOK
  <2>3. mempool \in Seq(FrameType')
      BY <2>2 DEF FramesOK
  <2>4. mempool' \in Seq(FrameType')
      BY <1>5, <2>1, <2>3, SMTT(30) DEF SendFrame
  <2>5. bank' \subseteq FrameType'
      BY <1>5, <2>2 DEF SendFrame, FramesOK
  <2> QED BY <2>1, <2>4, <2>5 DEF FramesOK
<1>6. CASE MineFrame
  <2>1. UNCHANGED <<channels, unsent, bank>> /\ mempool' = Tail(mempool) /\ mempool # <<>>
      BY <1>6 DEF MineFrame, node
  <2>2. FrameType' = FrameType
      BY <2>1 DEF FrameType, FrameKinds
  <2> QED BY <2>1, <2>2 DEF FramesOK
<1>7. CASE TakeBack
  <2>1. UNCHANGED <<channels, unsent, bank>>
      BY <1>7 DEF TakeBack, node
  <2>2. FrameType' = FrameType
      BY <2>1 DEF FrameType, FrameKinds
  <2>3. mempool' \in Seq(FrameType)
    <3>1. CASE IsRoot(l1[Len(l1)])
        BY <1>7, <3>1, RootTakenBack DEF FramesOK
    <3>2. CASE ~ IsRoot(l1[Len(l1)])
        BY <1>7, <3>2, FrameTakenBack, SMTT(30) DEF FramesOK
    <3> QED BY <3>1, <3>2
  <2> QED BY <2>1, <2>2, <2>3 DEF FramesOK
<1>8. CASE ReadBlock
  <2>1. UNCHANGED <<channels, mempool, unsent>>
      BY <1>8 DEF ReadBlock, onL1
  <2>2. FrameType' = FrameType
      BY <2>1 DEF FrameType, FrameKinds
  <2>3. position \in DOMAIN l1
      BY <1>8 DEF ReadBlock, L1OK, NodeOK
  <2>4. bank' \subseteq FrameType
      BY <1>8, <2>3, TxTypes DEF ReadBlock, FramesOK
  <2> QED BY <2>1, <2>2, <2>4 DEF FramesOK
<1> QED BY <1>2, <1>3, <1>4, <1>5, <1>6, <1>7, <1>8 DEF RollupNext

\* What the services know, and the counters, keep their types.
LEMMA NodeStep ==
    IInv /\ L1OK /\ FramesOK /\ NodeOK /\ RollupNext => NodeOK'
<1> SUFFICES ASSUME IInv, L1OK, FramesOK, NodeOK, RollupNext PROVE NodeOK'
    OBVIOUS
<1>1. Fault => faults' \in 0 .. MaxFaults
    BY DEF Fault, NodeOK
<1>0. NewProcess => /\ stored' \in 0 .. MaxIndex /\ position' \in Nat
                    /\ hasty' \in BOOLEAN /\ lost' \in BOOLEAN /\ dropped' \in BOOLEAN
  <2>1. NewProcess => stored' \in 0 .. MaxIndex /\ position' \in Nat
      BY DEF NewProcess, ConstantsAssumption
  <2>2. NewProcess => hasty' \in BOOLEAN /\ lost' \in BOOLEAN /\ dropped' \in BOOLEAN
      BY DEF NewProcess
  <2> QED BY <2>1, <2>2
<1>2. ASSUME NEW l \in Loops,
             Start(l) \/ ProposerRuns(l) \/ ProposerThrows(l)
      PROVE  NodeOK'
  <2>1. hasty' \in BOOLEAN /\ lost' \in BOOLEAN /\ dropped' \in BOOLEAN
      BY <1>0, <1>2 DEF Start, ProposerRuns, ProposerThrows, private, NodeOK
  <2> QED BY <1>0, <1>2, <2>1 DEF Start, ProposerRuns, ProposerThrows, private, node, NodeOK
<1>3. ASSUME NEW l \in Loops, DerivationBegins(l) PROVE NodeOK'
  <2>1. position' \in Nat
      BY <1>3 DEF DerivationBegins
  <2> QED BY <1>3, <2>1 DEF DerivationBegins, NodeOK
<1>4. CASE Stop \/ CrashAndRestart \/ LoseOutputs \/ DeriverThrows
  <2>1. /\ stored' \in 0 .. MaxIndex /\ position' \in Nat
        /\ hasty' \in BOOLEAN /\ lost' \in BOOLEAN /\ dropped' \in BOOLEAN
      BY <1>0, <1>4 DEF Stop, CrashAndRestart, LoseOutputs, DeriverThrows, node, NodeOK
  <2>2. faults' \in 0 .. MaxFaults /\ takenBack' = takenBack
      BY <1>1, <1>4 DEF Stop, CrashAndRestart, LoseOutputs, DeriverThrows, NodeOK
  <2> QED BY <2>1, <2>2 DEF NodeOK
<1>5. ASSUME NEW n \in Index, ProposedByHand(n) PROVE NodeOK'
    BY <1>1, <1>5 DEF ProposedByHand, node, NodeOK
<1>6. CASE BatcherBegins
    BY <1>6, NewestType DEF BatcherBegins, IInv, NodeOK, Index
<1>7. CASE SendFrame
    BY <1>1, <1>7, LoadFacts DEF SendFrame, NodeOK
<1>8. CASE MineFrame \/ MineOutput
    BY <1>8 DEF MineFrame, MineOutput, node, NodeOK
<1>9. CASE TakeBack
    BY <1>1, <1>9 DEF TakeBack, node, NodeOK
<1>10. CASE ReadBlock
    BY <1>10 DEF ReadBlock, NodeOK
<1> QED BY <1>2, <1>3, <1>4, <1>5, <1>6, <1>7, <1>8, <1>9, <1>10 DEF RollupNext

\* How L1 grows when a root is mined: by a root with the number of its output,
\* or not at all.
LEMMA MineOutputFacts ==
    ASSUME RollupIInv, MineOutput
    PROVE  /\ UNCHANGED <<mempool, bank, channels, takenBack, derived, forced>>
           /\ \/ UNCHANGED <<l1, outputs>>
              \/ /\ outputs' = Append(outputs, Head(pendingRoots))
                 /\ l1' = Append(l1, Root(Len(outputs) + 1, Head(pendingRoots)))
           /\ Head(pendingRoots) \in Index /\ Covered(Head(pendingRoots))
<1>1. /\ pendingRoots \in Seq(Index) /\ outputs \in Seq(Index) /\ pendingRoots # <<>>
      /\ UNCHANGED <<mempool, bank, channels, takenBack, derived, forced>>
    BY DEF RollupIInv, IInv, TypeOK, MineOutput, MineRoot, node, history
<1>2. Head(pendingRoots) \in Index /\ Covered(Head(pendingRoots))
    BY <1>1, HeadTailProperties DEF RollupIInv, IInv, Available, RootsInFlightAvailable
<1>3. ASSUME outputs' = Append(outputs, Head(pendingRoots)), outputs' # outputs
      PROVE  l1' = Append(l1, Root(Len(outputs) + 1, Head(pendingRoots)))
  <2>1. Len(outputs') = Len(outputs) + 1 /\ outputs'[Len(outputs) + 1] = Head(pendingRoots)
      BY <1>1, <1>2, <1>3
  <2>2. Newest' = Head(pendingRoots)
      BY <2>1 DEF Newest
  <2> QED BY <1>3, <2>1, <2>2 DEF MineOutput
<1>4. CASE outputs' = outputs
    BY <1>1, <1>2, <1>4 DEF MineOutput
<1>5. CASE outputs' # outputs
    BY <1>1, <1>2, <1>3, <1>5 DEF MineOutput, MineRoot
<1> QED BY <1>4, <1>5

\* L1 holds transactions of ours, the first the root of initialize.
LEMMA L1Step == RollupIInv /\ RollupNext /\ FramesOK' => L1OK'
<1> SUFFICES ASSUME RollupIInv, RollupNext, FramesOK' PROVE L1OK'
    OBVIOUS
<1>1. l1 \in Seq(FrameType \cup RootType) /\ l1 # <<>> /\ IsRoot(l1[1])
    BY DEF RollupIInv, L1OK
<1>2. channels \in Nat /\ channels' \in Nat /\ Len(outputs) \in Nat
    BY DEF RollupIInv, FramesOK, IInv, TypeOK
<1>3. ASSUME UNCHANGED <<channels, outputs>>
      PROVE  FrameType' = FrameType /\ RootType' = RootType
    BY <1>3 DEF FrameType, FrameKinds, RootType
<1>4. CASE Inside
  <2>1. UNCHANGED <<channels, l1, outputs>>
    <3>1. UNCHANGED channels
        BY <1>4 DEF Inside, Start, DerivationBegins, ProposerRuns, ProposerThrows, Stop,
            CrashAndRestart, BatcherBegins, LoseOutputs, ReadBlock, DeriverThrows,
            ProposedByHand, private
    <3> QED BY <1>4, <3>1, InsideFrame
  <2> QED BY <1>1, <1>3, <2>1 DEF L1OK, IsRoot
<1>5. CASE SendFrame
  <2>1. UNCHANGED <<l1, outputs>> /\ channels' >= channels
      BY <1>5, LoadFacts DEF SendFrame, vars, chain, RollupIInv
  <2>2. FrameType \subseteq FrameType' /\ RootType' = RootType
      BY <1>2, <2>1, FrameTypeGrows DEF RootType
  <2>3. l1 \in Seq(FrameType' \cup RootType')
      BY <1>1, <2>2
  <2> QED BY <1>1, <2>1, <2>3 DEF L1OK, IsRoot
<1>6. CASE MineFrame
  <2>1. /\ UNCHANGED <<channels, outputs>> /\ mempool # <<>>
        /\ l1' = Append(l1, Head(mempool))
      BY <1>6 DEF MineFrame, vars, chain
  <2>2. Head(mempool) \in FrameType
      BY <2>1, HeadTailProperties DEF RollupIInv, FramesOK
  <2>3. /\ l1' \in Seq(FrameType \cup RootType) /\ l1' # <<>>
        /\ l1'[1] = l1[1]
      BY <1>1, <2>1, <2>2, AppendProperties
  <2> QED BY <1>1, <1>3, <2>1, <2>3 DEF L1OK, IsRoot
<1>7. CASE MineOutput
  <2>1. CASE UNCHANGED <<l1, outputs>>
    <3>1. UNCHANGED channels
        BY <1>7, MineOutputFacts
    <3> QED BY <1>1, <1>3, <2>1, <3>1 DEF L1OK, IsRoot
  <2>2. CASE /\ outputs' = Append(outputs, Head(pendingRoots))
             /\ l1' = Append(l1, Root(Len(outputs) + 1, Head(pendingRoots)))
    <3>1. UNCHANGED channels /\ Head(pendingRoots) \in Index
        BY <1>7, MineOutputFacts
    <3>2. Len(outputs') = Len(outputs) + 1
        BY <2>2, <3>1 DEF RollupIInv, IInv, TypeOK
    <3>3. FrameType' = FrameType /\ RootType \subseteq RootType'
        BY <1>2, <3>1, <3>2 DEF FrameType, FrameKinds, RootType
    <3>4. Root(Len(outputs) + 1, Head(pendingRoots)) \in RootType'
        BY <1>2, <3>1, <3>2 DEF Root, Tx, RootType, Index
    <3>5. l1 \in Seq(FrameType' \cup RootType')
        BY <1>1, <3>3
    <3>6. /\ l1' \in Seq(FrameType' \cup RootType') /\ l1' # <<>>
          /\ l1'[1] = l1[1]
        BY <1>1, <2>2, <3>4, <3>5, AppendProperties
    <3> QED BY <1>1, <3>6 DEF L1OK, IsRoot
  <2> QED BY <1>7, <2>1, <2>2, MineOutputFacts
<1>8. CASE TakeBack
  <2>1. /\ Len(l1) > 1 /\ l1' \in Seq(FrameType \cup RootType)
        /\ Len(l1') = Len(l1) - 1
        /\ \A k \in 1 .. Len(l1) - 1 : l1'[k] = l1[k]
      BY <1>8, TakeBackFacts
  <2>2. UNCHANGED channels
      BY <1>8 DEF TakeBack
  <2>3. FrameType' = FrameType
      BY <2>2 DEF FrameType, FrameKinds
  <2>4. \A k \in DOMAIN l1' : l1'[k] \in FrameType \cup RootType'
    <3> SUFFICES ASSUME NEW k \in DOMAIN l1', l1'[k] \in RootType
                 PROVE  l1'[k] \in RootType'
        BY <2>1
    <3>1. k \in DOMAIN l1 /\ Len(l1) \in DOMAIN l1 /\ l1'[k] = l1[k] /\ k \in 1 .. Len(l1) - 1
        BY <1>1, <2>1
    <3>2. l1[k].channel \in 1 .. Len(outputs')
      <4>1. CASE IsRoot(l1[Len(l1)])
        <5>1. l1[k].channel < l1[Len(l1)].channel
            BY <3>1, <4>1 DEF RollupIInv, RootsInOrder, RootType, IsRoot
        <5>2. /\ l1[Len(l1)].channel \in 2 .. Len(outputs)
              /\ Len(outputs') = l1[Len(l1)].channel - 1
            BY <1>8, <4>1, RootTakenBack
        <5> QED BY <3>1, <5>1, <5>2 DEF RootType
      <4>2. CASE ~ IsRoot(l1[Len(l1)])
          BY <1>8, <3>1, <4>2, FrameTakenBack DEF chain, RootType
      <4> QED BY <4>1, <4>2
    <3> QED BY <3>1, <3>2 DEF RootType
  <2>5. l1' \in Seq(FrameType' \cup RootType') /\ l1' # <<>> /\ l1'[1] = l1[1]
    <3>1. l1' # <<>> /\ l1'[1] = l1[1]
        BY <1>1, <2>1
    <3>2. l1' \in Seq(FrameType \cup RootType')
        BY <2>1, <2>4
    <3> QED BY <2>3, <3>1, <3>2
  <2> QED BY <1>1, <2>5 DEF L1OK, IsRoot
<1> QED BY <1>4, <1>5, <1>6, <1>7, <1>8, RollupSteps

-----------------------------------------------------------------------------
(* The roots among the L1 blocks. *)

\* They stay outputs of the oracle, in order: a root joins both at the end, and
\* both lose it again.
LEMMA RootsInOrderStep == RollupIInv /\ RollupNext => RootsInOrder'
<1> SUFFICES ASSUME RollupIInv, RollupNext PROVE RootsInOrder'
    OBVIOUS
<1>1. /\ l1 \in Seq(FrameType \cup RootType) /\ outputs \in Seq(Index)
      /\ mempool \in Seq(FrameType) /\ L1OK
    BY DEF RollupIInv, L1OK, IInv, TypeOK, FramesOK
<1>2. \A k \in DOMAIN l1 : IsRoot(l1[k]) =>
          /\ outputs[l1[k].channel] = l1[k].block
          /\ l1[k].channel \in 1 .. Len(outputs)
          /\ \A j \in 1 .. k - 1 : IsRoot(l1[j]) => l1[j].channel < l1[k].channel
    BY <1>1, TxTypes DEF RollupIInv, RootsInOrder, RootType
<1>3. CASE UNCHANGED <<l1, outputs>>
    BY <1>3 DEF RollupIInv, RootsInOrder, IsRoot
<1>4. CASE Inside \/ SendFrame
    BY <1>3, <1>4, InsideFrame DEF SendFrame, vars, chain
<1>5. CASE MineFrame
  <2>1. UNCHANGED outputs /\ mempool # <<>> /\ l1' = Append(l1, Head(mempool))
      BY <1>5 DEF MineFrame, vars, chain
  <2>2. Head(mempool) \in FrameType
      BY <1>1, <2>1, HeadTailProperties
  <2>3. ~ IsRoot(Head(mempool))
      BY <2>2 DEF FrameType, FrameKinds, IsRoot
  <2>4. /\ Len(l1') = Len(l1) + 1 /\ l1'[Len(l1) + 1] = Head(mempool)
        /\ \A k \in 1 .. Len(l1) : l1'[k] = l1[k]
        /\ DOMAIN l1' = 1 .. Len(l1) + 1
      BY <1>1, <2>1, <2>2
  <2>5. ASSUME NEW k \in DOMAIN l1', IsRoot(l1'[k])
        PROVE  /\ outputs[l1'[k].channel] = l1'[k].block
               /\ \A j \in 1 .. k - 1 : IsRoot(l1'[j]) => l1'[j].channel < l1'[k].channel
    <3>1. k # Len(l1) + 1
        BY <2>3, <2>4, <2>5
    <3>2. k \in DOMAIN l1 /\ l1'[k] = l1[k] /\ \A j \in 1 .. k - 1 : l1'[j] = l1[j]
        BY <1>1, <2>4, <3>1
    <3> QED BY <1>2, <2>5, <3>2
  <2> QED BY <2>1, <2>5 DEF RootsInOrder, IsRoot
<1>6. CASE MineOutput
  <2> DEFINE n == Head(pendingRoots)
             tx == Root(Len(outputs) + 1, n)
  <2>1. CASE outputs' = Append(outputs, n) /\ l1' = Append(l1, tx)
    <3>1. n \in Index
        BY <1>6, MineOutputFacts
    <3>2. tx \in RootType' /\ tx.channel = Len(outputs) + 1 /\ tx.block = n
        BY <1>1, <2>1, <3>1 DEF Root, Tx, RootType
    <3> HIDE DEF n, tx
    <3>3. /\ outputs'[Len(outputs) + 1] = n
          /\ \A i \in 1 .. Len(outputs) : outputs'[i] = outputs[i]
        BY <1>1, <2>1, <3>1
    <3>4. /\ l1'[Len(l1) + 1] = tx /\ DOMAIN l1' = 1 .. Len(l1) + 1
          /\ \A k \in 1 .. Len(l1) : l1'[k] = l1[k]
        BY <1>1, <2>1
    <3>5. ASSUME NEW k \in DOMAIN l1', IsRoot(l1'[k])
          PROVE  /\ outputs'[l1'[k].channel] = l1'[k].block
                 /\ \A j \in 1 .. k - 1 : IsRoot(l1'[j]) => l1'[j].channel < l1'[k].channel
      <4>1. CASE k = Len(l1) + 1
        <5>1. \A j \in 1 .. k - 1 : j \in DOMAIN l1 /\ l1'[j] = l1[j]
            BY <1>1, <3>4, <4>1
        <5>2. \A j \in 1 .. k - 1 : IsRoot(l1'[j]) => l1'[j].channel < Len(outputs) + 1
            BY <1>1, <1>2, <5>1
        <5> QED BY <3>2, <3>3, <3>4, <4>1, <5>2
      <4>2. CASE k # Len(l1) + 1
        <5>1. k \in DOMAIN l1 /\ l1'[k] = l1[k] /\ \A j \in 1 .. k - 1 : l1'[j] = l1[j]
            BY <1>1, <3>4, <4>2
        <5>2. IsRoot(l1[k])
            BY <3>5, <5>1
        <5> QED BY <1>2, <3>3, <5>1, <5>2
      <4> QED BY <4>1, <4>2
    <3> QED BY <3>5 DEF RootsInOrder, IsRoot
  <2> QED BY <1>3, <1>6, <2>1, MineOutputFacts
<1>7. CASE TakeBack
  <2>1. /\ Len(l1') = Len(l1) - 1 /\ DOMAIN l1' = 1 .. Len(l1) - 1
        /\ \A k \in 1 .. Len(l1) - 1 : l1'[k] = l1[k]
        /\ Len(l1) \in DOMAIN l1
      BY <1>7, TakeBackFacts
  <2>2. ASSUME NEW k \in DOMAIN l1', IsRoot(l1'[k])
        PROVE  /\ outputs'[l1'[k].channel] = l1'[k].block
               /\ \A j \in 1 .. k - 1 : IsRoot(l1'[j]) => l1'[j].channel < l1'[k].channel
    <3>1. /\ k \in DOMAIN l1 /\ k \in 1 .. Len(l1) - 1 /\ l1'[k] = l1[k]
          /\ \A j \in 1 .. k - 1 : l1'[j] = l1[j]
        BY <1>1, <2>1
    <3>2. outputs'[l1[k].channel] = outputs[l1[k].channel]
      <4>1. CASE IsRoot(l1[Len(l1)])
        <5>1. l1[k].channel < l1[Len(l1)].channel /\ l1[k].channel \in 1 .. Len(outputs)
            BY <1>2, <2>1, <2>2, <3>1, <4>1
        <5>2. /\ l1[Len(l1)].channel \in 2 .. Len(outputs)
              /\ \A i \in 1 .. l1[Len(l1)].channel - 1 : outputs'[i] = outputs[i]
            BY <1>7, <4>1, RootTakenBack
        <5> QED BY <5>1, <5>2, SMTT(30)
      <4>2. CASE ~ IsRoot(l1[Len(l1)])
          BY <1>7, <4>2, FrameTakenBack DEF chain
      <4> QED BY <4>1, <4>2
    <3> QED BY <1>2, <2>2, <3>1, <3>2
  <2> QED BY <2>2 DEF RootsInOrder, IsRoot
<1> QED BY <1>4, <1>5, <1>6, <1>7, RollupSteps

-----------------------------------------------------------------------------
(* What was read was on L1. *)

\* More transactions complete more channels.
LEMMA CompleteMonotone ==
    ASSUME NEW S, NEW T, S \subseteq T
    PROVE  CompleteIn(S) \subseteq CompleteIn(T)
BY DEF CompleteIn

\* No transaction is ever forgotten, and none leaves L1 but in a reorganisation.
LEMMA AcceptedGrows ==
    ASSUME RollupIInv, RollupNext
    PROVE  /\ Accepted \subseteq Accepted'
           /\ ~ TakeBack => Txs(l1) \subseteq Txs(l1)' /\ takenBack' = takenBack
           /\ TakeBack => takenBack' # 0
<1>1. /\ l1 \in Seq(FrameType \cup RootType) /\ mempool \in Seq(FrameType)
      /\ takenBack \in Nat
    BY DEF RollupIInv, L1OK, FramesOK, NodeOK
<1>2. CASE Inside
    BY <1>2, InsideFrame, TakeBackFacts DEF Accepted, Txs, NodeOK
<1>3. CASE SendFrame
  <2>1. l1' = l1 /\ takenBack' = takenBack
      BY <1>3 DEF SendFrame
  <2>2. CASE mempool' = mempool
      BY <2>1, <2>2, TakeBackFacts DEF Accepted, Txs
  <2>3. CASE mempool' = Append(mempool, Loaded)
    <3>1. /\ DOMAIN mempool \subseteq DOMAIN mempool'
          /\ \A k \in DOMAIN mempool : mempool'[k] = mempool[k]
        BY <1>1, <2>3
    <3>2. Txs(mempool) \subseteq Txs(mempool)'
        BY <3>1 DEF Txs
    <3> QED BY <2>1, <3>2, TakeBackFacts DEF Accepted, Txs
  <2> QED BY <1>3, <2>2, <2>3 DEF SendFrame
<1>4. CASE MineFrame
  <2>1. /\ l1' = Append(l1, Head(mempool)) /\ mempool' = Tail(mempool)
        /\ mempool # <<>> /\ takenBack' = takenBack
      BY <1>4 DEF MineFrame
  <2>2. /\ DOMAIN l1' = 1 .. Len(l1) + 1 /\ l1'[Len(l1) + 1] = mempool[1]
        /\ \A k \in DOMAIN l1 : k \in DOMAIN l1' /\ l1'[k] = l1[k]
      BY <1>1, <2>1
  <2>3. \A k \in DOMAIN mempool : k # 1 =>
            k - 1 \in DOMAIN mempool' /\ mempool'[k - 1] = mempool[k]
      BY <1>1, <2>1
  <2>4. Txs(l1) \subseteq Txs(l1)'
      BY <2>2 DEF Txs
  <2>5. Txs(mempool) \subseteq Txs(l1)' \cup Txs(mempool)'
    <3> SUFFICES ASSUME NEW k \in DOMAIN mempool
                 PROVE  mempool[k] \in Txs(l1)' \cup Txs(mempool)'
        BY DEF Txs
    <3>1. CASE k = 1
      <4>1. Len(l1) + 1 \in DOMAIN l1'
          BY <1>1, <2>2
      <4> QED BY <2>2, <3>1, <4>1 DEF Txs
    <3>2. CASE k # 1
        BY <2>3, <3>2 DEF Txs
    <3> QED BY <3>1, <3>2
  <2> QED BY <1>1, <2>1, <2>4, <2>5, TakeBackFacts DEF Accepted
<1>5. CASE MineOutput
  <2>1. UNCHANGED <<mempool, takenBack>>
      BY <1>5, MineOutputFacts
  <2>2. Txs(l1) \subseteq Txs(l1)'
    <3>1. CASE l1' = l1
        BY <3>1 DEF Txs
    <3>2. CASE l1' = Append(l1, Root(Len(outputs) + 1, Head(pendingRoots)))
      <4>1. \A k \in DOMAIN l1 : k \in DOMAIN l1' /\ l1'[k] = l1[k]
          BY <1>1, <3>2
      <4> QED BY <4>1 DEF Txs
    <3> QED BY <1>5, <3>1, <3>2, MineOutputFacts
  <2>3. Txs(mempool)' = Txs(mempool)
      BY <2>1 DEF Txs
  <2> QED BY <1>1, <2>1, <2>2, <2>3, TakeBackFacts DEF Accepted
<1>6. CASE TakeBack
  <2> DEFINE tx == l1[Len(l1)]
  <2>1. /\ Len(l1') = Len(l1) - 1 /\ DOMAIN l1' = 1 .. Len(l1) - 1
        /\ \A k \in 1 .. Len(l1) - 1 : l1'[k] = l1[k]
        /\ takenBack' = takenBack + 1
      BY <1>6, TakeBackFacts
  <2>2. \A k \in DOMAIN l1 : k # Len(l1) => l1[k] \in Txs(l1)'
    <3> SUFFICES ASSUME NEW k \in DOMAIN l1, k # Len(l1)
                 PROVE  l1[k] \in Txs(l1)'
        OBVIOUS
    <3>1. k \in DOMAIN l1' /\ l1'[k] = l1[k]
        BY <1>1, <2>1
    <3> QED BY <3>1 DEF Txs
  <2>3. Txs(mempool) \subseteq Txs(mempool)' /\ (IsFrame(tx) => tx \in Txs(mempool)')
    <3>1. CASE IsRoot(tx)
      <4>1. mempool' = mempool
          BY <1>6, <3>1, RootTakenBack
      <4>2. ~ IsFrame(tx)
          BY <3>1 DEF IsRoot, IsFrame, FrameKinds
      <4> QED BY <4>1, <4>2 DEF Txs
    <3>2. CASE ~ IsRoot(tx)
      <4>1. mempool' = <<tx>> \o mempool /\ tx \in FrameType
          BY <1>6, <3>2, FrameTakenBack
      <4> HIDE DEF tx
      <4>2. /\ 1 \in DOMAIN mempool' /\ mempool'[1] = tx
            /\ \A k \in DOMAIN mempool :
                  k + 1 \in DOMAIN mempool' /\ mempool'[k + 1] = mempool[k]
          BY <1>1, <4>1
      <4> QED BY <4>2 DEF Txs
    <3> QED BY <3>1, <3>2
  <2>4. Accepted \subseteq Accepted'
    <3> SUFFICES ASSUME NEW f, f \in Txs(l1) \cup Txs(mempool), IsFrame(f)
                 PROVE  f \in Txs(l1)' \cup Txs(mempool)'
        BY DEF Accepted
    <3>1. CASE f \in Txs(l1)
        BY <2>2, <2>3, <3>1 DEF Txs
    <3>2. CASE f \in Txs(mempool)
        BY <2>3, <3>2
    <3> QED BY <3>1, <3>2
  <2> QED BY <1>1, <1>6, <2>1, <2>4
<1> QED BY <1>2, <1>3, <1>4, <1>5, <1>6, RollupSteps

\* Only a block that is read changes what was derived or adds to the bank.
LEMMA OnlyReadBlockReads ==
    ASSUME RollupNext, ~ ReadBlock
    PROVE  derived' = derived /\ (bank' = bank \/ bank' = {})
<1>1. ASSUME NEW l \in Loops, LoopStep(l)
      PROVE  derived' = derived
    BY <1>1 DEF LoopStep, ReadOracle, Started, NoNewBlock, Recovering, InvalidRange,
        TakeBlocks, Verified, SubmitRoot, Proposed, WakeDown, ReadTip, SubmitTip,
        Uncaught, history
<1>2. ASSUME NEW l \in Loops,
             Start(l) \/ DerivationBegins(l) \/ ProposerRuns(l) \/ ProposerThrows(l)
      PROVE  derived' = derived /\ (bank' = bank \/ bank' = {})
    BY <1>1, <1>2 DEF Start, DerivationBegins, ProposerRuns, ProposerThrows, StartRollup,
        DerivateStarted, LoopStep, private, node, history, NewProcess
<1>3. CASE Stop \/ CrashAndRestart \/ BatcherBegins \/ LoseOutputs \/ DeriverThrows
    BY <1>3 DEF Stop, CrashAndRestart, BatcherBegins, LoseOutputs, DeriverThrows,
        StopRollup, Crash, DropRoots, vars, node, history, NewProcess
<1>4. CASE SendFrame \/ MineFrame \/ MineOutput \/ TakeBack
    BY <1>4 DEF SendFrame, MineFrame, MineOutput, MineRoot, TakeBack, vars, node, history
<1>5. ASSUME NEW n \in Index, ProposedByHand(n)
      PROVE  derived' = derived /\ (bank' = bank \/ bank' = {})
    BY <1>5 DEF ProposedByHand, ProposeLatest, node
<1> QED BY <1>2, <1>3, <1>4, <1>5 DEF RollupNext

\* A frame that is read is on L1, and so is the partner that waits for it.
LEMMA ReadBlockReads ==
    ASSUME RollupIInv, ReadBlock
    PROVE  \E f \in Txs(l1) :
              \/ bank' \subseteq bank \cup {f} /\ IsFrame(f) /\ derived' = derived
              \/ bank' = bank /\ derived' = derived
              \/ /\ bank' \subseteq bank
                 /\ derived' = derived \cup {f.block}
                 /\ IsFrame(f) /\ Partner(f) \in bank
<1>1. position \in DOMAIN l1
    BY DEF ReadBlock, RollupIInv, L1OK, NodeOK
<1>2. l1[position] \in Txs(l1)
    BY <1>1 DEF Txs
<1>3. UNCHANGED vars => derived' = derived
    BY DEF vars, history
<1>4. Deliver(l1[position].block) => derived' = derived \cup {l1[position].block}
    BY DEF Deliver
<1> QED BY <1>2, <1>3, <1>4 DEF ReadBlock, ReadyWith

\* What was read stays on L1, or waits again.
LEMMA DataReadStep == RollupIInv /\ RollupNext => DataRead'
<1> SUFFICES ASSUME RollupIInv, RollupNext PROVE DataRead'
    OBVIOUS
<1>1. DataRead
    BY DEF RollupIInv
<1>2. CompleteIn(Accepted) \subseteq CompleteIn(Accepted')
    BY AcceptedGrows, CompleteMonotone
<1>3. ~ TakeBack => CompleteIn(Txs(l1)) \subseteq CompleteIn(Txs(l1)')
    BY AcceptedGrows, CompleteMonotone
<1>4. CASE ~ ReadBlock
  <2>1. derived' = derived /\ (bank' = bank \/ bank' = {})
      BY <1>4, OnlyReadBlockReads
  <2>2. bank' \subseteq Accepted' /\ derived' \subseteq CompleteIn(Accepted')
      BY <1>1, <1>2, <2>1, AcceptedGrows DEF DataRead
  <2>3. takenBack' = 0 => bank' \subseteq Txs(l1)' /\ derived' \subseteq CompleteIn(Txs(l1)')
      BY <1>1, <1>3, <2>1, AcceptedGrows DEF DataRead
  <2>4. CompleteIn(Accepted') = CompleteIn(Accepted)'
        /\ CompleteIn(Txs(l1)') = CompleteIn(Txs(l1))'
      BY DEF CompleteIn
  <2> QED BY <2>2, <2>3, <2>4 DEF DataRead
<1>5. CASE ReadBlock
  <2>1. UNCHANGED <<l1, mempool, takenBack>>
      BY <1>5 DEF ReadBlock, onL1
  <2>2. Accepted' = Accepted /\ Txs(l1)' = Txs(l1)
      BY <2>1 DEF Accepted, Txs
  <2>3. CompleteIn(Accepted)' = CompleteIn(Accepted)
        /\ CompleteIn(Txs(l1))' = CompleteIn(Txs(l1))
      BY <2>2 DEF CompleteIn
  <2>4. PICK f \in Txs(l1) :
              \/ bank' \subseteq bank \cup {f} /\ IsFrame(f) /\ derived' = derived
              \/ bank' = bank /\ derived' = derived
              \/ /\ bank' \subseteq bank
                 /\ derived' = derived \cup {f.block}
                 /\ IsFrame(f) /\ Partner(f) \in bank
      BY <1>5, ReadBlockReads
  <2>5. IsFrame(f) => f \in Accepted
      BY DEF Accepted
  <2>6. \A S : f \in S /\ IsFrame(f) /\ Partner(f) \in S => f.block \in CompleteIn(S)
      BY DEF CompleteIn
  <2>7. bank' \subseteq Accepted /\ derived' \subseteq CompleteIn(Accepted)
      BY <1>1, <2>4, <2>5, <2>6 DEF DataRead
  <2>8. takenBack = 0 => bank' \subseteq Txs(l1) /\ derived' \subseteq CompleteIn(Txs(l1))
      BY <1>1, <2>4, <2>6 DEF DataRead
  <2> QED BY <2>1, <2>2, <2>3, <2>7, <2>8 DEF DataRead
<1> QED BY <1>4, <1>5

-----------------------------------------------------------------------------
(* The roots. *)

\* The transactions in front of the k-th.
LEMMA TxsBefore ==
    ASSUME NEW S, NEW s \in Seq(S), NEW k \in 1 .. Len(s) + 1
    PROVE  Txs(SubSeq(s, 1, k - 1)) = {s[j] : j \in 1 .. k - 1}
<1> DEFINE t == SubSeq(s, 1, k - 1)
<1>1. DOMAIN t = 1 .. k - 1 /\ \A j \in 1 .. k - 1 : t[j] = s[j]
    OBVIOUS
<1> HIDE DEF t
<1>2. Txs(t) = {s[j] : j \in 1 .. k - 1}
    BY <1>1 DEF Txs
<1> QED BY <1>2 DEF t

\* No step uncovers what was covered.
LEMMA ForcedGrows == RollupNext => forced \subseteq forced'
<1>1. SendFrame \/ MineFrame \/ MineOutput \/ TakeBack => forced' = forced
    BY DEF SendFrame, MineFrame, MineOutput, MineRoot, TakeBack, vars, history
<1> QED BY <1>1, RollupSteps, InsideFrame

\* After a reorganisation: the roots on L1 are outputs, which are covered by
\* derived blocks, and those were read and wait at worst.
LEMMA BackedAfterReorganisation ==
    ASSUME IInv', L1OK', RootsInOrder', DataRead', takenBack' > 0
    PROVE  RootsBacked'
<1> SUFFICES ASSUME NEW k \in DOMAIN l1', IsRoot(l1'[k])
             PROVE  CoveredBy(l1'[k].block,
                              CompleteIn(Txs(l1') \cup Txs(mempool')), forced')
    BY DEF RootsBacked, Txs, CompleteIn, IsRoot
<1>1. l1'[k].block = outputs'[l1'[k].channel]
    BY DEF RootsInOrder, IsRoot
<1>2. l1'[k].channel \in 1 .. Len(outputs')
    BY DEF L1OK, IsRoot, FrameType, FrameKinds, RootType
<1>3. CoveredBy(outputs'[l1'[k].channel], derived', forced')
    BY <1>2 DEF IInv, Available, DataAvailable, Covered
<1>4. Accepted' \subseteq Txs(l1') \cup Txs(mempool')
    BY DEF Accepted, Txs
<1>5. derived' \subseteq CompleteIn(Txs(l1') \cup Txs(mempool'))
  <2>1. derived' \subseteq CompleteIn(Accepted')
      BY DEF DataRead, CompleteIn
  <2> QED BY <1>4, <2>1, CompleteMonotone
<1> QED BY <1>1, <1>3, <1>5, CoveredMonotone

\* The data of the roots on L1 stays where it is, and a root that is mined
\* comes behind the data it stands on.
LEMMA RootsBackedStep ==
    ASSUME RollupIInv, RollupNext, IInv', L1OK', RootsInOrder', DataRead', NodeOK'
    PROVE  RootsBacked'
<1>1. CASE takenBack' > 0
    BY <1>1, BackedAfterReorganisation
<1>2. CASE ~ (takenBack' > 0)
  <2>1. takenBack' = 0 /\ takenBack = 0 /\ ~ TakeBack
      BY <1>2, AcceptedGrows DEF NodeOK
  <2>2. l1 \in Seq(FrameType \cup RootType) /\ l1' \in Seq((FrameType \cup RootType)')
      BY DEF RollupIInv, L1OK
  <2> SUFFICES ASSUME NEW k \in DOMAIN l1', IsRoot(l1'[k])
               PROVE  CoveredBy(l1'[k].block,
                                CompleteIn({l1'[j] : j \in 1 .. k - 1}), forced')
    <3>1. \A k \in DOMAIN l1' : Txs(SubSeq(l1', 1, k - 1)) = {l1'[j] : j \in 1 .. k - 1}
        BY <2>2, TxsBefore
    <3> DEFINE B(k) == IF takenBack' > 0 THEN Txs(l1') \cup Txs(mempool')
                       ELSE Txs(SubSeq(l1', 1, k - 1))
    <3>2. (\A k \in DOMAIN l1' : IsRoot(l1'[k]) =>
                CoveredBy(l1'[k].block, CompleteIn(B(k)), forced')) => RootsBacked'
        BY DEF RootsBacked, Txs, CompleteIn, IsRoot
    <3>3. \A k \in DOMAIN l1' : B(k) = {l1'[j] : j \in 1 .. k - 1}
        BY <2>1, <3>1
    <3> HIDE DEF B
    <3> QED BY <3>2, <3>3
  <2>3. \A i \in DOMAIN l1 : IsRoot(l1[i]) =>
            CoveredBy(l1[i].block, CompleteIn({l1[j] : j \in 1 .. i - 1}), forced)
    <3>1. \A i \in DOMAIN l1 : Txs(SubSeq(l1, 1, i - 1)) = {l1[j] : j \in 1 .. i - 1}
        BY <2>2, TxsBefore
    <3> QED BY <2>1, <3>1 DEF RollupIInv, RootsBacked
  <2>4. ASSUME k \in DOMAIN l1, \A j \in 1 .. k : l1'[j] = l1[j]
        PROVE  CoveredBy(l1'[k].block, CompleteIn({l1'[j] : j \in 1 .. k - 1}), forced')
    <3>1. l1'[k] = l1[k] /\ {l1'[j] : j \in 1 .. k - 1} = {l1[j] : j \in 1 .. k - 1}
      <4>1. k \in 1 .. k /\ \A j \in 1 .. k - 1 : j \in 1 .. k
          BY <2>2, <2>4
      <4>2. \A j \in 1 .. k - 1 : l1'[j] = l1[j]
          BY <2>4, <4>1
      <4> QED BY <2>4, <4>1, <4>2
    <3>2. CoveredBy(l1[k].block, CompleteIn({l1[j] : j \in 1 .. k - 1}), forced)
        BY <2>3, <2>4, <3>1
    <3> DEFINE S == CompleteIn({l1[j] : j \in 1 .. k - 1})
    <3>3. CompleteIn({l1'[j] : j \in 1 .. k - 1}) = S
        BY <3>1
    <3>4. CoveredBy(l1[k].block, S, forced)
        BY <3>2
    <3> HIDE DEF S
    <3>5. CoveredBy(l1[k].block, S, forced')
        BY <3>4, ForcedGrows, CoveredMonotone
    <3> QED BY <3>1, <3>3, <3>5
  <2>5. CASE l1' = l1
      BY <2>4, <2>5
  <2>6. CASE MineFrame
    <3>1. mempool # <<>> /\ l1' = Append(l1, Head(mempool))
        BY <2>6 DEF MineFrame
    <3>2. Head(mempool) \in FrameType
        BY <3>1, HeadTailProperties DEF RollupIInv, FramesOK
    <3>3. ~ IsRoot(Head(mempool))
        BY <3>2 DEF FrameType, FrameKinds, IsRoot
    <3>4. k \in DOMAIN l1 /\ \A j \in 1 .. k : l1'[j] = l1[j]
      <4>1. k # Len(l1) + 1
          BY <2>2, <3>1, <3>3
      <4> QED BY <2>2, <3>1, <4>1
    <3> QED BY <2>4, <3>4
  <2>7. CASE MineOutput
    <3> DEFINE n == Head(pendingRoots)
               tx == Root(Len(outputs) + 1, n)
    <3>1. CASE l1' = Append(l1, tx)
      <4>1. n \in Index /\ CoveredBy(n, derived, forced) /\ forced' = forced
          BY <2>7, MineOutputFacts DEF Covered
      <4>2. tx.block = n
          BY DEF Root, Tx
      <4> HIDE DEF n, tx
      <4>3. CASE k = Len(l1) + 1
        <5>1. l1'[k] = tx /\ {l1'[j] : j \in 1 .. k - 1} = Txs(l1)
            BY <2>2, <3>1, <4>3 DEF Txs
        <5>2. derived \subseteq CompleteIn(Txs(l1))
            BY <2>1 DEF RollupIInv, DataRead
        <5>3. CoveredBy(n, CompleteIn(Txs(l1)), forced)
            BY <4>1, <5>2, CoveredMonotone
        <5> QED BY <4>1, <4>2, <5>1, <5>3
      <4>4. CASE k # Len(l1) + 1
        <5>1. k \in DOMAIN l1 /\ \A j \in 1 .. k : l1'[j] = l1[j]
            BY <2>2, <3>1, <4>4
        <5> QED BY <2>4, <5>1
      <4> QED BY <4>3, <4>4
    <3> QED BY <2>5, <2>7, <3>1, MineOutputFacts
  <2>8. CASE Inside \/ SendFrame
      BY <2>5, <2>8, InsideFrame DEF SendFrame
  <2> QED BY <2>1, <2>6, <2>7, <2>8, RollupSteps
<1> QED BY <1>1, <1>2

-----------------------------------------------------------------------------
(* The theorems. *)

\* The inductive invariant holds at the start.
LEMMA RollupInitIInv == RollupInit => RollupIInv
<1> SUFFICES ASSUME RollupInit PROVE RollupIInv
    OBVIOUS
<1>1. /\ l1 = <<Root(1, 1)>> /\ mempool = <<>> /\ unsent = <<>> /\ bank = {}
      /\ stored = 0 /\ position = 0 /\ channels = 0 /\ takenBack = 0 /\ faults = 0
      /\ hasty = FALSE /\ lost = FALSE /\ dropped = FALSE
      /\ outputs = <<1>> /\ derived = {} /\ forced = {1}
    BY DEF RollupInit, Init
<1>2. IInv
    BY InitIInv DEF RollupInit
<1>3. DOMAIN l1 = {1} /\ l1[1] = Root(1, 1) /\ Len(outputs) = 1
    BY <1>1
<1>4. Root(1, 1) \in RootType /\ IsRoot(Root(1, 1))
    BY <1>3, ConstantsAssumption DEF Root, Tx, RootType, Index, IsRoot
<1>5. L1OK
    BY <1>1, <1>4 DEF L1OK
<1>6. FramesOK
    BY <1>1, EmptySeq DEF FramesOK
<1>7. NodeOK
  <2>1. hasty \in BOOLEAN /\ lost \in BOOLEAN /\ dropped \in BOOLEAN
      BY <1>1
  <2> QED BY <1>1, <2>1, ConstantsAssumption, RollupAssumption DEF NodeOK,
          ConstantsAssumption, RollupAssumption
<1>8. RootsInOrder
    BY <1>1, <1>3 DEF RootsInOrder, Root, Tx
<1>9. DataRead
    BY <1>1 DEF DataRead
<1>10. RootsBacked
  <2>1. l1[1].block = 1
      BY <1>3 DEF Root, Tx
  <2>2. \A B : CoveredBy(1, B, forced)
      BY <1>1, CoveredForced
  <2> QED BY <1>3, <2>1, <2>2 DEF RootsBacked
<1> QED BY <1>2, <1>5, <1>6, <1>7, <1>8, <1>9, <1>10 DEF RollupIInv

\* Every step of the node keeps it.
LEMMA RollupStep == RollupIInv /\ [RollupNext]_rollupVars => RollupIInv'
<1> SUFFICES ASSUME RollupIInv, [RollupNext]_rollupVars PROVE RollupIInv'
    OBVIOUS
<1>1. CASE RollupNext
  <2>1. IInv /\ L1OK /\ FramesOK /\ NodeOK
      BY DEF RollupIInv
  <2>2. IInv'
      BY <1>1, <2>1, RollupRefinesProposer, ProposerStep, ProposerBoot,
         TakeBackProposer DEF DeriverThrows
  <2>3. FramesOK' /\ NodeOK'
      BY <1>1, <2>1, FramesStep, NodeStep
  <2>4. L1OK' /\ RootsInOrder' /\ DataRead'
      BY <1>1, <2>3, L1Step, RootsInOrderStep, DataReadStep
  <2> QED BY <1>1, <2>2, <2>3, <2>4, RootsBackedStep DEF RollupIInv
<1>2. CASE UNCHANGED rollupVars
  <2>1. UNCHANGED vars /\ UNCHANGED <<l1, mempool, stored, unsent, position, bank, channels,
                                      hasty, lost, dropped, takenBack, faults>>
      BY <1>2 DEF rollupVars, private, onL1, node
  <2>2. UNCHANGED <<outputs, derived, forced>>
      BY <2>1 DEF vars, chain, history
  <2>3. IInv'
      BY <2>1, ProposerStep DEF RollupIInv
  <2>4. L1OK' /\ FramesOK' /\ NodeOK' /\ RootsInOrder'
      BY <2>1, <2>2 DEF RollupIInv, L1OK, FramesOK, NodeOK, RootsInOrder, FrameType,
          FrameKinds, RootType, IsRoot
  <2>5. DataRead'
      BY <2>1, <2>2 DEF RollupIInv, DataRead, Accepted, Txs, CompleteIn
  <2>6. RootsBacked'
    <3> DEFINE B(k) == IF takenBack > 0 THEN Txs(l1) \cup Txs(mempool)
                       ELSE Txs(SubSeq(l1, 1, k - 1))
               C(k) == IF takenBack' > 0 THEN Txs(l1') \cup Txs(mempool')
                       ELSE Txs(SubSeq(l1', 1, k - 1))
    <3>1. \A k \in DOMAIN l1 : IsRoot(l1[k]) =>
              CoveredBy(l1[k].block, CompleteIn(B(k)), forced)
        BY DEF RollupIInv, RootsBacked
    <3>2. (\A k \in DOMAIN l1' : IsRoot(l1'[k]) =>
                CoveredBy(l1'[k].block, CompleteIn(C(k)), forced')) => RootsBacked'
        BY DEF RootsBacked, Txs, CompleteIn, IsRoot
    <3>3. \A k : C(k) = B(k)
        BY <2>1
    <3> HIDE DEF B, C
    <3> QED BY <2>1, <2>2, <3>1, <3>2, <3>3
  <2> QED BY <2>3, <2>4, <2>5, <2>6 DEF RollupIInv
<1> QED BY <1>1, <1>2

\* The inductive invariant behind the theorems below.
THEOREM RollupInvariant == RollupSpec => []RollupIInv
<1> QED BY RollupInitIInv, RollupStep, PTL DEF RollupSpec

\* Type correctness of the whole node.
THEOREM RollupTypeCorrect == RollupSpec => []RollupTypeOK
<1>1. RollupIInv => RollupTypeOK
    BY DEF RollupIInv, IInv, L1OK, FramesOK, NodeOK, RollupTypeOK, RootType
<1> QED BY <1>1, RollupInvariant, PTL

\* The data of every block under an output root that was not forced is on L1 in
\* front of the root, for every number of crashes, stops, losses, exceptions and
\* roots by hand; and after reorganisations of any depth it is on L1 or waits to
\* be mined again.
THEOREM RootsHaveTheirData == RollupSpec => []RootsBacked
<1>1. RollupIInv => RootsBacked
    BY DEF RollupIInv
<1> QED BY <1>1, RollupInvariant, PTL

\* The composition keeps what Proposer promises alone, although a reorganisation
\* takes outputs back, which Proposer does not know.
THEOREM NodeDataAvailable == RollupSpec => []DataAvailable
<1>1. RollupIInv => DataAvailable
    BY DEF RollupIInv, IInv, Available
<1> QED BY <1>1, RollupInvariant, PTL
=============================================================================
