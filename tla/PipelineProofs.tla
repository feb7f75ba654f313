--------------------------- MODULE PipelineProofs ---------------------------
(***************************************************************************)
(* What holds of the data path for all sizes, limits and crashes, while    *)
(* one call of derivateStart runs: its type, that no frame on L1 makes the *)
(* deriver throw, and that it hands on the blocks that are complete on L1. *)
(* The last two need to know of the frames on L1 what the batcher knew     *)
(* when it cut them, so the invariant follows them: the frames made are    *)
(* one chain, L1 in front, the outbox behind, then the frame being sent    *)
(* and the queue, and lost frames are left out of it.                      *)
(***************************************************************************)
EXTENDS Pipeline, BatcherProofs

-----------------------------------------------------------------------------
(* The batcher in the pipeline. *)

\* The one call of batchStart does not overlap with itself.
LEMMA NoOverlap ==
    ASSUME ~ overlapped, [BatcherNext]_batcherVars
    PROVE  ~ overlapped'
<1>1. ASSUME NEW b \in Batchers, BatchStart(b) PROVE ~ overlapped'
    <2>1. Running = {}
        BY <1>1, PipelineAssumption DEF BatchStart, Running, PipelineAssumption
    <2> QED BY <1>1, <2>1 DEF BatchStart
<1>2. ASSUME NEW b \in Batchers, RangeReply(b) \/ EndReply(b) PROVE ~ overlapped'
    BY <1>2 DEF RangeReply, EndReply, LoadUpTo, batcherHist
<1>3. ASSUME NEW b \in Batchers, InitBlock(b, 1) \/ LoadBlock(b) \/ FrameSent(b) \/ BatcherWake(b)
      PROVE  ~ overlapped'
    BY <1>3 DEF InitBlock, LoadBlock, FrameSent, BatcherWake, batcherHist
<1>4. CASE NewL3Block \/ BatchStop \/ UNCHANGED batcherVars
    BY <1>4 DEF NewL3Block, BatchStop, batcherVars, batcherHist
<1> QED BY <1>1, <1>2, <1>3, <1>4 DEF BatcherNext, BatcherStep

\* A frame that a crash interrupts may have got out.
LEMMA SendingIsFrame ==
    ASSUME StreamTyped, NEW f \in BeingSent
    PROVE  f \in Frames
BY DEF StreamTyped, BeingSent

\* A new process has a batcher as new.
LEMMA BootIInv ==
    ASSUME CallIInv, ~ overlapped, BatcherBoot, UNCHANGED <<tip, nextId>>,
           outbox' \in Seq(Frames)
    PROVE  CallIInv' /\ ~ overlapped'
<1>1. /\ channelQueue' = <<>> /\ blocks' = <<>> /\ lastStored' = 0 /\ ~ overlapped'
      /\ sending' = [b \in Batchers |-> NoFrame] /\ batcherAt' = [b \in Batchers |-> "idle"]
      /\ loadNext' = [b \in Batchers |-> 0] /\ loadEnd' = [b \in Batchers |-> 0]
      /\ loaded' = {} /\ batching' = FALSE /\ overlapped' \in BOOLEAN
    BY DEF BatcherBoot
<1>2. tip \in Block /\ tip' = tip /\ nextId' = nextId /\ nextId \in Nat \ {0} /\ Block \subseteq Nat
    BY DEF CallIInv, BatcherIInv, BatcherTypeOK, QueueOK, Block
<1>3. BatcherTypeOK'
    <2>1. blocks' \in Seq(Block) /\ Len(blocks') = 0 /\ DOMAIN channelQueue' = {}
        BY <1>1
    <2>2. 0 \in 0 .. tip' /\ lastStored' \in 0 .. tip'
        BY <1>1, <1>2
    <2>3. /\ batching' \in BOOLEAN
          /\ batcherAt' \in [Batchers -> Places]
          /\ loadNext' \in [Batchers -> 0 .. tip'] /\ loadEnd' \in [Batchers -> 0 .. tip']
        BY <1>1, <2>2 DEF Places
    <2>4. Len(blocks') <= MaxBlocksPerChannelManager
        BY <2>1, BatcherAssumption DEF BatcherAssumption
    <2> QED BY <1>2, <2>1, <2>2, <2>3, <2>4 DEF BatcherTypeOK, Places
<1>4. QueueOK'
    <2>1. channelQueue' \in Seq({}) /\ DOMAIN channelQueue' = {}
        BY <1>1
    <2> QED BY <1>2, <2>1 DEF QueueOK, QueueBelow
<1>5. (NothingSkipped /\ Loading /\ OneCall)'
    <2>1. 1 .. lastStored' = {}
        BY <1>1
    <2>2. \A b \in Batchers : batcherAt'[b] = "idle"
        BY <1>1
    <2> QED BY <2>1, <2>2 DEF NothingSkipped, Loading, OneCall, Running
<1>6. (StreamTyped /\ CallsAt)'
    <2>1. channelQueue' \in Seq({}) /\ DOMAIN channelQueue' = {}
        BY <1>1
    <2> QED BY <1>1, <2>1 DEF StreamTyped, QueueStream, CallsAt
<1> QED BY <1>1, <1>3, <1>4, <1>5, <1>6 DEF CallIInv, BatcherIInv

\* L1 mines what is first in the outbox.
LEMMA MineIInv ==
    ASSUME CallIInv, ~ overlapped, NEW k \in Nat, MineL1(k)
    PROVE  /\ CallIInv' /\ ~ overlapped'
           /\ SubSeq(outbox, 1, k) \in Seq(Frames) /\ outbox' \in Seq(Frames)
           /\ outbox = SubSeq(outbox, 1, k) \o outbox'
<1>1. /\ outbox \in Seq(Frames) /\ k <= Len(outbox) /\ Len(outbox) \in Nat
      /\ outbox' = SubSeq(outbox, k + 1, Len(outbox))
    BY DEF CallIInv, StreamTyped, MineL1
<1>2. SubSeq(outbox, 1, k) \in Seq(Frames) /\ outbox' \in Seq(Frames)
    <2>1. \A j \in 1 .. Len(outbox) : outbox[j] \in Frames
        BY <1>1
    <2>2. (\A j \in 1 .. k : outbox[j] \in Frames)
          /\ (\A j \in k + 1 .. Len(outbox) : outbox[j] \in Frames)
        BY <1>1, <2>1
    <2> QED BY <1>1, <2>2, SubSeqProperties
<1>3. outbox = SubSeq(outbox, 1, k) \o outbox'
    <2>1. 1 \in 1 .. Len(outbox) + 1 /\ k \in 1 - 1 .. Len(outbox) /\ Len(outbox) \in k .. Len(outbox)
        BY <1>1
    <2>2. SubSeq(outbox, 1, k) \o SubSeq(outbox, k + 1, Len(outbox)) = SubSeq(outbox, 1, Len(outbox))
        BY <1>1, <2>1, ConcatAdjacentSubSeq
    <2> QED BY <1>1, <2>2, SubSeqFull
<1>4. UNCHANGED <<tip, batching, batcherAt, lastStored, loadNext, loadEnd, blocks, channelQueue,
                  nextId, sending, loaded, overlapped, repeats>>
    BY DEF MineL1, ranges, channelVars, batcherHist
<1>5. BatcherIInv'
    BY <1>4 DEF CallIInv, BatcherIInv, BatcherTypeOK, QueueOK, NothingSkipped, Loading, OneCall, Running
<1>6. (StreamTyped /\ CallsAt)'
    BY <1>2, <1>4 DEF CallIInv, StreamTyped, CallsAt
<1> QED BY <1>2, <1>3, <1>4, <1>5, <1>6 DEF CallIInv

\* What a step of the pipeline is to the batcher.
LEMMA BatcherPart ==
    ASSUME PipelineNext
    PROVE  \/ [BatcherNext]_batcherVars /\ l1' = l1
           \/ \E k \in 0 .. MaxBlockTxs : MineL1(k)
           \/ Crash
<1>1. CASE L3Grows
    BY <1>1 DEF L3Grows, BatcherNext, deriverVars
<1>2. CASE BatcherRuns
    BY <1>2 DEF BatcherRuns, BatcherNext, deriverVars, RootBlock
<1>3. CASE StopRollup
    BY <1>3 DEF StopRollup, BatchStop, BatcherNext
<1>4. ASSUME NEW l \in Derivations, DeriverRuns(l) PROVE UNCHANGED <<batcherVars, l1>>
    BY <1>4 DEF DeriverRuns, StartReply, Derive, DecodeBatch, OpenChannel, IngestQueued, SplitDatas,
                Fetch, FetchReply, DeriverWake
<1>5. ASSUME NEW l \in Derivations, NEW b \in Batchers, StartRollup(b, l)
      PROVE  BatcherNext /\ l1' = l1
    BY <1>5 DEF StartRollup, BatcherNext, DerivateStart
<1> QED BY <1>1, <1>2, <1>3, <1>4, <1>5 DEF PipelineNext

\* Every step of the pipeline keeps what holds of the batcher alone.
LEMMA BatcherSide ==
    ASSUME CallIInv, ~ overlapped, [PipelineNext]_pipelineVars
    PROVE  CallIInv' /\ ~ overlapped'
<1>1. CASE [BatcherNext]_batcherVars
    BY <1>1, NoOverlap, CallStep
<1>2. ASSUME NEW k \in 0 .. MaxBlockTxs, MineL1(k) PROVE CallIInv' /\ ~ overlapped'
    <2>1. k \in Nat
        BY PipelineAssumption DEF PipelineAssumption
    <2> QED BY <1>2, <2>1, MineIInv
<1>3. CASE Crash
    <2>1. StreamTyped
        BY DEF CallIInv
    <2>2. outbox' \in Seq(Frames)
        <3>1. \A f \in BeingSent : f \in Frames
            BY <2>1, SendingIsFrame
        <3> QED BY <1>3, <2>1, <3>1 DEF Crash, StreamTyped
    <2>3. BatcherBoot /\ UNCHANGED <<tip, nextId>>
        BY <1>3 DEF Crash
    <2> QED BY <2>2, <2>3, BootIInv
<1>4. CASE UNCHANGED pipelineVars
    BY <1>1, <1>4 DEF pipelineVars
<1> QED BY <1>1, <1>2, <1>3, <1>4, BatcherPart

-----------------------------------------------------------------------------
(* The stages of the deriver. *)

\* A channel of the bank, and a bank: no channel is in it twice.
Channels == [id : Nat \ {0}, inputs : SUBSET Frames]

BankTyped(chs) == /\ chs \in Seq(Channels)
                  /\ \A j, k \in DOMAIN chs : chs[j].id = chs[k].id => j = k

\* A block is in front of data that is not at its end.
LEMMA FirstBatchIs ==
    ASSUME NEW data \in Seq(Block), ~ AtEnd(data)
    PROVE  /\ FirstBatch(data) \in Block
           /\ AfterFirst(data) \in Seq(Block)
<1>1. Len(data) \in Nat /\ Len(data) >= 1
    BY CodecAssumption DEF AtEnd, CodecAssumption
<1>2. FirstBatch(data) \in Block
    BY <1>1 DEF FirstBatch
<1>3. Len(Bytes(FirstBatch(data))) \in Nat
    <2>1. Bytes(FirstBatch(data)) \in Seq(Block)
        BY <1>2, BytesType
    <2> HIDE DEF FirstBatch
    <2> QED BY <2>1
<1>4. AfterFirst(data) \in Seq(Block)
    <2> DEFINE n == Len(Bytes(FirstBatch(data)))
    <2>1. n \in Nat /\ AfterFirst(data) = SubSeq(data, n + 1, Len(data))
        BY <1>3 DEF AfterFirst
    <2> HIDE DEF n
    <2>2. \A j \in n + 1 .. Len(data) : data[j] \in Block
        BY <1>1, <2>1
    <2> QED BY <1>1, <2>1, <2>2, SubSeqProperties
<1> QED BY <1>2, <1>4

\* The data of a channel whose frames are all there.
LEMMA ChannelDataType ==
    ASSUME NEW ch \in Channels, LastFrames(ch) # {}, Readable(ch)
    PROVE  /\ EndFrameNumber(ch) \in Nat
           /\ \A n \in 0 .. EndFrameNumber(ch) : /\ FrameNumbered(ch, n) \in ch.inputs
                                                 /\ FrameNumbered(ch, n).num = n
           /\ [i \in 1 .. EndFrameNumber(ch) + 1 |-> FrameNumbered(ch, i - 1)] \in Seq(Frames)
           /\ ChannelData(ch) \in Seq(Block)
<1> DEFINE e == EndFrameNumber(ch)
           fs == [i \in 1 .. e + 1 |-> FrameNumbered(ch, i - 1)]
<1>1. ch.inputs \subseteq Frames
    BY DEF Channels
<1>2. (CHOOSE f \in LastFrames(ch) : TRUE) \in LastFrames(ch)
    OBVIOUS
<1>3. e \in Nat
    BY <1>1, <1>2 DEF EndFrameNumber, LastFrames, Frames
<1>4. ASSUME NEW n \in 0 .. e
      PROVE  FrameNumbered(ch, n) \in ch.inputs /\ FrameNumbered(ch, n).num = n
    <2>1. \E f \in ch.inputs : f.num = n
        BY DEF Readable, NumbersIn
    <2> QED BY <2>1 DEF FrameNumbered
<1>5. fs \in Seq(Frames)
    <2>1. ASSUME NEW i \in 1 .. e + 1 PROVE FrameNumbered(ch, i - 1) \in Frames
        <3>1. i - 1 \in 0 .. e
            BY <1>3
        <3> QED BY <1>1, <1>4, <3>1
    <2> HIDE DEF e
    <2> QED BY <1>3, <2>1
<1>6. ChannelData(ch) = DataOf(fs)
    BY DEF ChannelData
<1> HIDE DEF fs
<1>7. ChannelData(ch) \in Seq(Block)
    BY <1>5, <1>6, DataOfConcat
<1> QED BY <1>3, <1>4, <1>5, <1>7 DEF fs

\* A channel leaves the bank.
LEMMA RemoveFromBank ==
    ASSUME BankTyped(bank), NEW k \in DOMAIN bank
    PROVE  /\ BankTyped(RemoveAt(bank, k))
           /\ \A j \in DOMAIN RemoveAt(bank, k) :
                 \E i \in DOMAIN bank \ {k} : RemoveAt(bank, k)[j] = bank[i]
           /\ \A i \in DOMAIN bank \ {k} :
                 \E j \in DOMAIN RemoveAt(bank, k) : RemoveAt(bank, k)[j] = bank[i]
<1> DEFINE n == Len(bank)
           u == SubSeq(bank, 1, k - 1)
           v == SubSeq(bank, k + 1, n)
           r == RemoveAt(bank, k)
           at(j) == IF j < k THEN j ELSE j + 1
<1>1. n \in Nat /\ DOMAIN bank = 1 .. n /\ bank \in Seq(Channels) /\ k \in 1 .. n
      /\ \A j \in 1 .. n : bank[j] \in Channels
    BY DEF BankTyped
<1>2. u \in Seq(Channels) /\ Len(u) = k - 1 /\ \A j \in 1 .. k - 1 : u[j] = bank[j]
    BY <1>1, SubSeqProperties
<1>3. v \in Seq(Channels) /\ Len(v) = n - k /\ \A j \in 1 .. n - k : v[j] = bank[k + j]
    <2>1. v = [j \in 1 .. n - k |-> bank[k + j]] /\ n - k \in Nat
        <3>1. \A j \in k + 1 .. n : bank[j] \in Channels
            BY <1>1
        <3> HIDE DEF n
        <3> QED BY <1>1, <3>1, SubSeqProperties
    <2>2. \A j \in 1 .. n - k : bank[k + j] \in Channels
        BY <1>1
    <2> HIDE DEF v, n
    <2> QED BY <2>1, <2>2
<1>4. r = u \o v
    BY DEF RemoveAt
<1> HIDE DEF u, v, r, n
<1>5. r \in Seq(Channels) /\ Len(r) = n - 1 /\ DOMAIN r = 1 .. n - 1
    BY <1>1, <1>2, <1>3, <1>4
<1>6. ASSUME NEW j \in 1 .. n - 1 PROVE at(j) \in DOMAIN bank \ {k} /\ r[j] = bank[at(j)]
    <2>1. r[j] = IF j <= k - 1 THEN u[j] ELSE v[j - (k - 1)]
        BY <1>1, <1>2, <1>3, <1>4
    <2>2. CASE j < k
        BY <1>1, <1>2, <2>1, <2>2
    <2>3. CASE ~ (j < k)
        <3>1. j - (k - 1) \in 1 .. n - k /\ k + (j - (k - 1)) = j + 1 /\ ~ (j <= k - 1)
            BY <1>1, <2>3
        <3>2. r[j] = bank[k + (j - (k - 1))]
            BY <1>3, <2>1, <3>1
        <3>3. r[j] = bank[j + 1]
            BY <3>1, <3>2
        <3> QED BY <1>1, <2>3, <3>3
    <2> QED BY <2>2, <2>3
<1>7. ASSUME NEW i \in 1 .. n - 1, NEW j \in 1 .. n - 1, r[i].id = r[j].id PROVE i = j
    <2>1. at(i) = at(j)
        <3> HIDE DEF at
        <3> QED BY <1>6, <1>7 DEF BankTyped
    <2> QED BY <1>1, <2>1
<1>8. ASSUME NEW i \in DOMAIN bank \ {k} PROVE \E j \in 1 .. n - 1 : at(j) = i
    <2>1. CASE i < k
        <3>1. i \in 1 .. n - 1 /\ at(i) = i
            BY <1>1, <2>1
        <3> QED BY <3>1
    <2>2. CASE ~ (i < k)
        <3>1. i - 1 \in 1 .. n - 1 /\ at(i - 1) = i
            BY <1>1, <1>8, <2>2
        <3> QED BY <3>1
    <2> QED BY <2>1, <2>2
<1> HIDE DEF at
<1>9. ASSUME NEW i \in DOMAIN bank \ {k} PROVE \E j \in DOMAIN r : r[j] = bank[i]
    BY <1>5, <1>6, <1>8
<1> QED BY <1>5, <1>6, <1>7, <1>9 DEF BankTyped, r

\* A frame joins its channel, or opens one.
LEMMA IngestTyped ==
    ASSUME BankTyped(bank), NEW f \in Frames, Ingest(f)
    PROVE  BankTyped(bank')
<1> DEFINE at == {k \in DOMAIN bank : bank[k].id = f.chan}
           new == [id |-> f.chan, inputs |-> {f}]
<1>1. bank \in Seq(Channels) /\ Len(bank) \in Nat /\ DOMAIN bank = 1 .. Len(bank)
    BY DEF BankTyped
<1>2. CASE at = {} /\ bank' = Append(bank, new)
    <2>1. new \in Channels /\ new.id = f.chan
        BY DEF Channels, Frames
    <2> HIDE DEF new
    <2>2. /\ bank' \in Seq(Channels) /\ DOMAIN bank' = 1 .. Len(bank) + 1
          /\ bank'[Len(bank) + 1] = new
          /\ \A k \in 1 .. Len(bank) : bank'[k] = bank[k]
        BY <1>1, <1>2, <2>1, AppendAt
    <2>3. \A k \in 1 .. Len(bank) : bank[k].id # f.chan
        BY <1>1, <1>2
    <2>4. ASSUME NEW j \in DOMAIN bank', NEW k \in DOMAIN bank', bank'[j].id = bank'[k].id
          PROVE  j = k
        <3>1. CASE j = Len(bank) + 1 /\ k = Len(bank) + 1
            BY <3>1
        <3>2. CASE j # Len(bank) + 1 /\ k # Len(bank) + 1
            <4>1. j \in 1 .. Len(bank) /\ k \in 1 .. Len(bank)
                BY <1>1, <2>2, <3>2
            <4> QED BY <1>1, <2>2, <2>4, <4>1 DEF BankTyped
        <3>3. CASE j = Len(bank) + 1 /\ k # Len(bank) + 1
            <4>1. k \in 1 .. Len(bank)
                BY <1>1, <2>2, <3>3
            <4> QED BY <2>1, <2>2, <2>3, <2>4, <3>3, <4>1
        <3>4. CASE j # Len(bank) + 1 /\ k = Len(bank) + 1
            <4>1. j \in 1 .. Len(bank)
                BY <1>1, <2>2, <3>4
            <4> QED BY <2>1, <2>2, <2>3, <2>4, <3>4, <4>1
        <3> QED BY <3>1, <3>2, <3>3, <3>4
    <2> QED BY <2>2, <2>4 DEF BankTyped
<1>3. ASSUME NEW k \in at, bank' = [bank EXCEPT ![k].inputs = @ \cup {f}]
      PROVE  BankTyped(bank')
    <2> DEFINE more == [bank[k] EXCEPT !.inputs = @ \cup {f}]
    <2>1. bank' = [bank EXCEPT ![k] = more] /\ k \in 1 .. Len(bank)
        BY <1>1, <1>3
    <2>2. bank[k] \in Channels
        BY <1>1, <2>1
    <2>3. more \in Channels /\ more.id = bank[k].id
        BY <2>2 DEF Channels
    <2> HIDE DEF more
    <2>4. bank' \in Seq(Channels) /\ DOMAIN bank' = DOMAIN bank
          /\ \A j \in DOMAIN bank : bank'[j] = IF j = k THEN more ELSE bank[j]
        BY <1>1, <2>1, <2>3
    <2>5. \A j \in DOMAIN bank : bank'[j].id = bank[j].id
        BY <2>3, <2>4
    <2> QED BY <2>4, <2>5 DEF BankTyped
<1> QED BY <1>2, <1>3 DEF Ingest

-----------------------------------------------------------------------------
(* Where the deriver is, and what its stages hold. *)

DeriverPlaces == {"idle", "starting", "next", "fetch", "sleep", "thrown"}

OneDerivation == \A l, m \in Derivations : l = m

StagesTyped ==
    /\ datas \in Seq(Frames)
    /\ frameQueue \in Seq(Frames) /\ Len(frameQueue) <= 1
    /\ BankTyped(bank)
    /\ reader \in Seq(Seq(Block)) /\ Len(reader) <= 1

DeliveryTyped == store \in StoreType(MaxTip) /\ derived \in Seq(Block)

\* A call that asks L1 asks for the block it is at, with its stages empty.
Fetching ==
    \A l \in Derivations :
        deriverAt[l] = "fetch" => asked[l] = l1Number /\ datas = <<>> /\ frameQueue = <<>>

\* The L1 block it is at is there or the next, and there while it is read.
AtL1 ==
    /\ l1Number \in 0 .. Len(l1) + 1
    /\ datas # <<>> => l1Number <= Len(l1)
    /\ asked \in [Derivations -> 0 .. Len(l1) + 1]

DeriverIInv ==
    /\ l1 \in Seq(Seq(Frames))
    /\ deriving \in BOOLEAN
    /\ deriverAt \in [Derivations -> DeriverPlaces]
    /\ StagesTyped /\ DeliveryTyped /\ Fetching /\ AtL1

\* A call goes on to a place that is not a fetch.
GoesOn(l) == \E place \in {"next", "idle", "sleep", "thrown"} : Goto(l, place)

\* Then nobody fetches.
LEMMA NobodyFetches ==
    ASSUME OneDerivation, deriverAt \in [Derivations -> DeriverPlaces],
           NEW l \in Derivations, GoesOn(l)
    PROVE  /\ deriverAt' \in [Derivations -> DeriverPlaces]
           /\ \A m \in Derivations : deriverAt'[m] # "fetch"
<1>1. PICK place \in {"next", "idle", "sleep", "thrown"} :
          deriverAt' = [deriverAt EXCEPT ![l] = place]
    BY DEF GoesOn, Goto
<1>2. deriverAt' \in [Derivations -> DeriverPlaces] /\ deriverAt'[l] = place
    BY <1>1 DEF DeriverPlaces
<1>3. \A m \in Derivations : m = l
    BY DEF OneDerivation
<1> QED BY <1>2, <1>3

\* However a pass ends, the call goes on to one of the places GoesOn names.
LEMMA ContinueGoesOn == \A l : Continue(l) => GoesOn(l)
BY DEF Continue, GoesOn

LEMMA ThrowGoesOn == \A l : Throw(l) => GoesOn(l)
BY DEF Throw, GoesOn

\* A batch that is read goes to the block map.
LEMMA ReadBatchTyped ==
    ASSUME DeliveryTyped, NEW l \in Derivations, NEW data \in Seq(Block), ReadBatch(l, data)
    PROVE  /\ DeliveryTyped' /\ GoesOn(l)
           /\ reader' \in Seq(Seq(Block)) /\ Len(reader') <= 1
           /\ UNCHANGED <<l1Number, datas, frameQueue>>
<1>1. CASE /\ AtEnd(data)
           /\ reader' = <<>>
           /\ Continue(l)
           /\ UNCHANGED <<l1Number, datas, frameQueue, delivery>>
    BY <1>1, ContinueGoesOn DEF DeliveryTyped, delivery
<1>2. CASE /\ ~ AtEnd(data)
           /\ reader' = <<AfterFirst(data)>>
           /\ store' = HandleBlock(store, FirstBatch(data))
           /\ derived' = Append(derived, FirstBatch(data))
           /\ Continue(l)
           /\ UNCHANGED <<l1Number, datas, frameQueue>>
    <2> DEFINE b == FirstBatch(data)
               rest == AfterFirst(data)
    <2>1. b \in Block /\ rest \in Seq(Block)
        BY <1>2, FirstBatchIs
    <2> HIDE DEF b, rest
    <2>2. store' \in StoreType(MaxTip)
        <3>1. MaxTip \in Nat /\ Block = 1 .. MaxTip
            BY CodecAssumption DEF CodecAssumption, Block
        <3> QED BY <1>2, <2>1, <3>1 DEF DeliveryTyped, StoreType, HandleBlock, b
    <2>3. derived' \in Seq(Block)
        BY <1>2, <2>1 DEF DeliveryTyped, b
    <2>4. reader' \in Seq(Seq(Block)) /\ Len(reader') <= 1
        <3>1. reader' = <<rest>>
            BY <1>2 DEF rest
        <3> QED BY <2>1, <3>1
    <2> QED BY <1>2, <2>2, <2>3, <2>4, ContinueGoesOn DEF DeliveryTyped
<1> QED BY <1>1, <1>2 DEF ReadBatch

\* Frames are taken off L1 one by one.
LEMMA TakeDataTyped ==
    ASSUME StagesTyped, frameQueue = <<>>, NEW l \in Derivations,
           NEW d \in Seq(Frames), d # <<>>, TakeData(l, d), l1Number \in Nat
    PROVE  /\ StagesTyped' /\ GoesOn(l)
           /\ UNCHANGED delivery
           /\ \/ l1Number' = l1Number + 1 /\ datas' = <<>>
              \/ l1Number' = l1Number
<1> DEFINE f == Head(d)
<1>1. f \in Frames /\ Tail(d) \in Seq(Frames)
    OBVIOUS
<1>2. Append(frameQueue, f) = <<f>> /\ Head(<<f>>) = f /\ Tail(<<f>>) = <<>>
    OBVIOUS
<1> HIDE DEF f
<1>3. CASE /\ frameQueue' = <<f>>
           /\ datas' = <<>>
           /\ l1Number' = l1Number + 1
           /\ Continue(l)
           /\ UNCHANGED <<bank, reader, delivery>>
    BY <1>1, <1>3, ContinueGoesOn DEF StagesTyped, BankTyped
<1>4. CASE /\ Ingest(f)
           /\ frameQueue' = <<>>
           /\ datas' = Tail(d)
           /\ Continue(l)
           /\ UNCHANGED <<l1Number, reader, delivery>>
    <2>1. BankTyped(bank')
        BY <1>1, <1>4, IngestTyped DEF StagesTyped
    <2> QED BY <1>1, <1>4, <2>1, ContinueGoesOn DEF StagesTyped, BankTyped
<1>5. CASE Throw(l)
    BY <1>5, ThrowGoesOn DEF Throw, stages, StagesTyped, BankTyped
<1>6. Append(frameQueue, Head(d)) = <<f>>
    BY <1>2 DEF f
<1> QED BY <1>2, <1>3, <1>4, <1>5, <1>6 DEF TakeData

\* A pass of the loop that reads no L1 block keeps what is known of the call.
LEMMA PassKeeps ==
    ASSUME OneDerivation, DeriverIInv, NEW l \in Derivations, GoesOn(l),
           StagesTyped', DeliveryTyped', UNCHANGED <<l1, deriving, asked>>,
           l1Number' \in 0 .. Len(l1) + 1, datas' # <<>> => l1Number' <= Len(l1)
    PROVE  DeriverIInv'
<1>1. deriverAt' \in [Derivations -> DeriverPlaces] /\ \A m \in Derivations : deriverAt'[m] # "fetch"
    BY NobodyFetches DEF DeriverIInv
<1> QED BY <1>1 DEF DeriverIInv, Fetching, AtL1

\* Every pass of the loop keeps them.
LEMMA DeriveTyped ==
    ASSUME OneDerivation, DeriverIInv, NEW l \in Derivations, Derive(l)
    PROVE  DeriverIInv'
<1>0. /\ StagesTyped /\ DeliveryTyped /\ l1Number \in Nat /\ l1Number \in 0 .. Len(l1) + 1
      /\ Len(l1) \in Nat /\ l1 \in Seq(Seq(Frames))
    BY DEF DeriverIInv, AtL1
<1>1. CASE DecodeBatch(l)
    <2>1. CASE ReadBatch(l, reader[1]) /\ bank' = bank
        <3>1. reader[1] \in Seq(Block)
            BY <1>0, <1>1 DEF DecodeBatch, StagesTyped
        <3>2. /\ DeliveryTyped' /\ GoesOn(l)
              /\ reader' \in Seq(Seq(Block)) /\ Len(reader') <= 1
              /\ UNCHANGED <<l1Number, datas, frameQueue>>
            BY <1>0, <2>1, <3>1, ReadBatchTyped
        <3>3. StagesTyped'
            BY <1>0, <2>1, <3>2 DEF StagesTyped, BankTyped
        <3>4. UNCHANGED <<l1, deriving, asked>>
            BY <1>1 DEF DecodeBatch
        <3> QED BY <1>0, <3>2, <3>3, <3>4, PassKeeps DEF DeriverIInv, AtL1
    <2>2. CASE Throw(l)
        <3>1. StagesTyped' /\ DeliveryTyped' /\ GoesOn(l) /\ UNCHANGED <<l1Number, datas>>
            BY <1>0, <2>2, ThrowGoesOn DEF Throw, stages, delivery, StagesTyped, DeliveryTyped, BankTyped
        <3>2. UNCHANGED <<l1, deriving, asked>>
            BY <1>1 DEF DecodeBatch
        <3> QED BY <1>0, <3>1, <3>2, PassKeeps DEF DeriverIInv, AtL1
    <2> QED BY <1>1, <2>1, <2>2 DEF DecodeBatch
<1>2. CASE OpenChannel(l)
    <2>1. PICK k \in ReadyAt :
              \/ /\ Readable(bank[k])
                 /\ ReadBatch(l, ChannelData(bank[k])) /\ bank' = RemoveAt(bank, k)
              \/ Throw(l)
        BY <1>2 DEF OpenChannel
    <2>2. UNCHANGED <<l1, deriving, asked>>
        BY <1>2 DEF OpenChannel
    <2>3. CASE Readable(bank[k]) /\ ReadBatch(l, ChannelData(bank[k])) /\ bank' = RemoveAt(bank, k)
        <3>1. k \in DOMAIN bank /\ bank[k] \in Channels /\ LastFrames(bank[k]) # {}
            BY <1>0 DEF ReadyAt, IsReady, StagesTyped, BankTyped
        <3>2. ChannelData(bank[k]) \in Seq(Block)
            BY <2>3, <3>1, ChannelDataType
        <3>3. /\ DeliveryTyped' /\ GoesOn(l)
              /\ reader' \in Seq(Seq(Block)) /\ Len(reader') <= 1
              /\ UNCHANGED <<l1Number, datas, frameQueue>>
            BY <1>0, <2>3, <3>2, ReadBatchTyped
        <3>4. BankTyped(bank')
            BY <1>0, <2>3, <3>1, RemoveFromBank DEF StagesTyped
        <3>5. StagesTyped'
            BY <1>0, <3>3, <3>4 DEF StagesTyped, BankTyped
        <3> QED BY <1>0, <2>2, <3>3, <3>5, PassKeeps DEF DeriverIInv, AtL1
    <2>4. CASE Throw(l)
        <3>1. StagesTyped' /\ DeliveryTyped' /\ GoesOn(l) /\ UNCHANGED <<l1Number, datas>>
            BY <1>0, <2>4, ThrowGoesOn DEF Throw, stages, delivery, StagesTyped, DeliveryTyped, BankTyped
        <3> QED BY <1>0, <2>2, <3>1, PassKeeps DEF DeriverIInv, AtL1
    <2> QED BY <2>1, <2>3, <2>4
<1>3. CASE IngestQueued(l)
    <2>1. UNCHANGED <<l1, deriving, asked>> /\ frameQueue # <<>>
        BY <1>3 DEF IngestQueued
    <2>2. CASE /\ Ingest(Head(frameQueue))
               /\ frameQueue' = Tail(frameQueue)
               /\ Continue(l)
               /\ UNCHANGED <<l1Number, datas, reader, delivery>>
        <3>1. Head(frameQueue) \in Frames /\ Tail(frameQueue) \in Seq(Frames) /\ Len(Tail(frameQueue)) <= 1
            BY <1>0, <2>1 DEF StagesTyped
        <3>2. BankTyped(bank')
            BY <1>0, <2>2, <3>1, IngestTyped DEF StagesTyped
        <3>3. StagesTyped' /\ DeliveryTyped' /\ GoesOn(l)
            BY <1>0, <2>2, <3>1, <3>2, ContinueGoesOn
                DEF StagesTyped, DeliveryTyped, delivery, BankTyped
        <3> QED BY <1>0, <2>1, <2>2, <3>3, PassKeeps DEF DeriverIInv, AtL1
    <2>3. CASE Throw(l)
        <3>1. StagesTyped' /\ DeliveryTyped' /\ GoesOn(l) /\ UNCHANGED <<l1Number, datas>>
            BY <1>0, <2>3, ThrowGoesOn DEF Throw, stages, delivery, StagesTyped, DeliveryTyped, BankTyped
        <3> QED BY <1>0, <2>1, <3>1, PassKeeps DEF DeriverIInv, AtL1
    <2> QED BY <1>3, <2>2, <2>3 DEF IngestQueued
<1>4. CASE SplitDatas(l)
    <2>1. /\ UNCHANGED <<l1, deriving, asked>> /\ frameQueue = <<>>
          /\ datas # <<>> /\ datas \in Seq(Frames) /\ TakeData(l, datas) /\ l1Number <= Len(l1)
        BY <1>0, <1>4 DEF SplitDatas, StagesTyped, DeriverIInv, AtL1
    <2>2. /\ StagesTyped' /\ GoesOn(l) /\ UNCHANGED delivery
          /\ \/ l1Number' = l1Number + 1 /\ datas' = <<>>
             \/ l1Number' = l1Number
        BY <1>0, <2>1, TakeDataTyped
    <2>3. DeliveryTyped'
        BY <1>0, <2>2 DEF DeliveryTyped, delivery
    <2> QED BY <1>0, <2>1, <2>2, <2>3, PassKeeps
<1>5. CASE Fetch(l)
    <2>1. /\ deriverAt' = [deriverAt EXCEPT ![l] = "fetch"]
          /\ asked' = [asked EXCEPT ![l] = l1Number]
          /\ datas = <<>> /\ frameQueue = <<>>
          /\ UNCHANGED <<l1, deriving, l1Number, datas, frameQueue, bank, reader, store, derived>>
        BY <1>5 DEF Fetch, Goto, stages, delivery
    <2>2. deriverAt' \in [Derivations -> DeriverPlaces] /\ asked' \in [Derivations -> 0 .. Len(l1) + 1]
          /\ asked'[l] = l1Number
        BY <1>0, <2>1 DEF DeriverIInv, AtL1, DeriverPlaces
    <2>3. Fetching'
        BY <2>1, <2>2 DEF Fetching, OneDerivation
    <2>4. StagesTyped' /\ DeliveryTyped'
        BY <1>0, <2>1 DEF StagesTyped, DeliveryTyped, BankTyped
    <2> QED BY <2>1, <2>2, <2>3, <2>4 DEF DeriverIInv, AtL1
<1>6. CASE FetchReply(l)
    <2>1. /\ UNCHANGED <<l1, deriving, asked>>
          /\ asked[l] = l1Number /\ datas = <<>> /\ frameQueue = <<>>
        BY <1>6 DEF FetchReply, DeriverIInv, Fetching
    <2>2. CASE /\ Goto(l, "sleep")
               /\ UNCHANGED <<l1Number, stages, delivery>>
        <3>1. StagesTyped' /\ DeliveryTyped' /\ GoesOn(l) /\ UNCHANGED <<l1Number, datas>>
            BY <1>0, <2>2 DEF GoesOn, stages, delivery, StagesTyped, DeliveryTyped, BankTyped
        <3> QED BY <1>0, <2>1, <3>1, PassKeeps
    <2>3. CASE /\ asked[l] <= Len(l1)
               /\ l1Number' = l1Number + 1
               /\ Continue(l)
               /\ UNCHANGED <<stages, delivery>>
        <3>1. StagesTyped' /\ DeliveryTyped' /\ GoesOn(l) /\ datas' = <<>>
            BY <1>0, <2>1, <2>3, ContinueGoesOn DEF stages, delivery, StagesTyped, DeliveryTyped, BankTyped
        <3>2. l1Number' \in 0 .. Len(l1) + 1
            BY <1>0, <2>1, <2>3
        <3> QED BY <2>1, <3>1, <3>2, PassKeeps
    <2>4. CASE /\ asked[l] <= Len(l1)
               /\ FramesAt(asked[l]) # <<>>
               /\ TakeData(l, FramesAt(asked[l]))
        <3> DEFINE d == FramesAt(asked[l])
        <3>1. d \in Seq(Frames) /\ l1Number <= Len(l1)
            <4>1. CASE l1Number = 0
                BY <1>0, <2>1, <4>1 DEF FramesAt
            <4>2. CASE l1Number # 0
                <5>1. l1Number \in 1 .. Len(l1)
                    BY <1>0, <2>1, <2>4, <4>2
                <5> QED BY <1>0, <2>1, <2>4, <4>2, <5>1 DEF FramesAt
            <4> QED BY <4>1, <4>2
        <3>2. d # <<>> /\ TakeData(l, d)
            BY <2>4
        <3> HIDE DEF d
        <3>3. /\ StagesTyped' /\ GoesOn(l) /\ UNCHANGED delivery
              /\ \/ l1Number' = l1Number + 1 /\ datas' = <<>>
                 \/ l1Number' = l1Number
            BY <1>0, <2>1, <3>1, <3>2, TakeDataTyped
        <3>4. DeliveryTyped'
            BY <1>0, <3>3 DEF DeliveryTyped, delivery
        <3> QED BY <1>0, <2>1, <3>1, <3>3, <3>4, PassKeeps
    <2> QED BY <1>6, <2>2, <2>3, <2>4 DEF FetchReply
<1>7. CASE DeriverWake(l)
    <2>1. /\ Continue(l)
          /\ UNCHANGED <<l1, deriving, asked, l1Number, stages, delivery>>
        BY <1>7 DEF DeriverWake
    <2>2. StagesTyped' /\ DeliveryTyped' /\ GoesOn(l) /\ UNCHANGED <<l1Number, datas>>
        BY <1>0, <2>1, ContinueGoesOn DEF stages, delivery, StagesTyped, DeliveryTyped, BankTyped
    <2> QED BY <1>0, <2>1, <2>2, PassKeeps DEF DeriverIInv, AtL1
<1> QED BY <1>1, <1>2, <1>3, <1>4, <1>5, <1>6, <1>7 DEF Derive

\* What a step of the pipeline is to the deriver.
LEMMA DeriverPart ==
    ASSUME [PipelineNext]_pipelineVars
    PROVE  \/ UNCHANGED deriverVars
           \/ \E k \in 0 .. MaxBlockTxs : MineL1(k)
           \/ /\ deriving' = FALSE
              /\ UNCHANGED <<l1, deriverAt, asked, l1Number, stages, delivery>>
           \/ \E l \in Derivations : DerivateStart(l)
           \/ DeriverBoot /\ l1' = l1
           \/ \E l \in Derivations : StartReply(l, 0)
           \/ \E l \in Derivations : Derive(l)
<1>1. CASE L3Grows \/ BatcherRuns
    BY <1>1 DEF L3Grows, BatcherRuns
<1>2. CASE StopRollup
    BY <1>2 DEF StopRollup
<1>3. CASE Crash
    BY <1>3 DEF Crash
<1>4. ASSUME NEW l \in Derivations, DeriverRuns(l)
      PROVE  StartReply(l, 0) \/ Derive(l)
    BY <1>4 DEF DeriverRuns
<1>5. ASSUME NEW l \in Derivations, NEW b \in Batchers, StartRollup(b, l) PROVE DerivateStart(l)
    BY <1>5 DEF StartRollup
<1>6. CASE UNCHANGED pipelineVars
    BY <1>6 DEF pipelineVars
<1> QED BY <1>1, <1>2, <1>3, <1>4, <1>5, <1>6 DEF PipelineNext

PipeTypeIInv ==
    /\ CallIInv /\ ~ overlapped
    /\ DeriverIInv
    /\ crashes \in 0 .. MaxCrashes
    /\ lost \in BOOLEAN

\* Every step keeps what is known of the deriver.
LEMMA DeriverSide ==
    ASSUME OneDerivation, CallIInv, ~ overlapped, DeriverIInv, [PipelineNext]_pipelineVars
    PROVE  DeriverIInv'
<1>1. CASE UNCHANGED deriverVars
    BY <1>1 DEF deriverVars, stages, delivery, DeriverIInv, StagesTyped, BankTyped, DeliveryTyped,
                Fetching, AtL1
<1>2. ASSUME NEW k \in 0 .. MaxBlockTxs, MineL1(k) PROVE DeriverIInv'
    <2>1. k \in Nat
        BY PipelineAssumption DEF PipelineAssumption
    <2>2. SubSeq(outbox, 1, k) \in Seq(Frames)
        BY <1>2, <2>1, MineIInv
    <2>3. /\ l1' = Append(l1, SubSeq(outbox, 1, k))
          /\ UNCHANGED <<deriving, deriverAt, asked, l1Number, datas, frameQueue, bank, reader,
                         store, derived>>
        BY <1>2 DEF MineL1, stages, delivery
    <2>4. l1' \in Seq(Seq(Frames)) /\ Len(l1') = Len(l1) + 1 /\ Len(l1) \in Nat
        BY <2>2, <2>3 DEF DeriverIInv
    <2>5. AtL1'
        <3>1. \A n \in 0 .. Len(l1) + 1 : n \in 0 .. Len(l1') + 1
            BY <2>4
        <3>2. \A n \in Nat : n <= Len(l1) => n <= Len(l1')
            BY <2>4
        <3>3. asked \in [Derivations -> 0 .. Len(l1) + 1] => asked \in [Derivations -> 0 .. Len(l1') + 1]
            BY <3>1
        <3> QED BY <2>3, <2>4, <3>1, <3>2, <3>3 DEF DeriverIInv, AtL1
    <2> QED BY <2>3, <2>4, <2>5 DEF DeriverIInv, StagesTyped, BankTyped, DeliveryTyped, Fetching
<1>3. CASE /\ deriving' = FALSE
           /\ UNCHANGED <<l1, deriverAt, asked, l1Number, stages, delivery>>
    BY <1>3 DEF stages, delivery, DeriverIInv, StagesTyped, BankTyped, DeliveryTyped,
                Fetching, AtL1
<1>4. ASSUME NEW l \in Derivations, DerivateStart(l) PROVE DeriverIInv'
    <2>1. /\ deriving' \in BOOLEAN
          /\ UNCHANGED <<l1, asked, l1Number, datas, frameQueue, bank, reader, store, derived>>
          /\ \E place \in {"starting", "next"} : deriverAt' = [deriverAt EXCEPT ![l] = place]
        BY <1>4 DEF DerivateStart, Goto, stages, delivery, DeriverIInv
    <2>2. deriverAt' \in [Derivations -> DeriverPlaces] /\ deriverAt'[l] # "fetch"
        BY <2>1 DEF DeriverIInv, DeriverPlaces
    <2>3. Fetching'
        BY <2>2 DEF Fetching, OneDerivation
    <2> QED BY <2>1, <2>2, <2>3 DEF DeriverIInv, StagesTyped, BankTyped, DeliveryTyped, AtL1
<1>5. CASE DeriverBoot /\ l1' = l1
    <2> USE <1>5 DEF DeriverBoot
    <2>1. StagesTyped'
        <3>1. <<>> \in Seq(Frames) /\ <<>> \in Seq(Channels) /\ <<>> \in Seq(Seq(Block))
            OBVIOUS
        <3>2. BankTyped(<<>>)
            BY <3>1 DEF BankTyped
        <3> QED BY <3>1, <3>2 DEF StagesTyped
    <2>2. DeliveryTyped'
        <3>1. store' \in StoreType(MaxTip)
            BY CodecAssumption DEF CodecAssumption, NoBlocks, StoreType
        <3> QED BY <3>1 DEF DeliveryTyped
    <2>3. Fetching' /\ AtL1'
        BY DEF Fetching, AtL1, DeriverIInv
    <2> QED BY <2>1, <2>2, <2>3 DEF DeriverIInv, DeriverPlaces
<1>6. ASSUME NEW l \in Derivations, StartReply(l, 0) PROVE DeriverIInv'
    <2>1. /\ deriving' = TRUE /\ l1Number' = 0
          /\ deriverAt' = [deriverAt EXCEPT ![l] = "next"]
          /\ UNCHANGED <<l1, asked, datas, frameQueue, bank, reader, store, derived>>
        BY <1>6 DEF StartReply, Goto, stages, delivery
    <2>2. deriverAt' \in [Derivations -> DeriverPlaces] /\ deriverAt'[l] # "fetch"
        BY <2>1 DEF DeriverIInv, DeriverPlaces
    <2>3. Fetching'
        BY <2>2 DEF Fetching, OneDerivation
    <2>4. Len(l1) \in Nat
        BY DEF DeriverIInv
    <2>5. AtL1'
        BY <2>1, <2>4 DEF DeriverIInv, AtL1
    <2> QED BY <2>1, <2>2, <2>3, <2>5 DEF DeriverIInv, StagesTyped, BankTyped, DeliveryTyped
<1> QED BY <1>1, <1>2, <1>3, <1>4, <1>5, <1>6, DeriveTyped, DeriverPart

\* The first state satisfies them.
LEMMA PipeInit == PipelineInit => PipeTypeIInv
<1> SUFFICES ASSUME PipelineInit PROVE PipeTypeIInv
    OBVIOUS
<1> USE DEF PipelineInit
<1>1. CallIInv /\ ~ overlapped
    BY SentInit DEF StreamIInv, BatcherInit
<1>2. DeriverIInv
    <2> USE DEF DeriverInit
    <2>1. StagesTyped
        <3>1. <<>> \in Seq(Frames) /\ <<>> \in Seq(Channels) /\ <<>> \in Seq(Seq(Block))
            OBVIOUS
        <3>2. BankTyped(<<>>)
            BY <3>1 DEF BankTyped
        <3> QED BY <3>1, <3>2 DEF StagesTyped
    <2>2. DeliveryTyped
        <3>1. store \in StoreType(MaxTip)
            BY CodecAssumption DEF CodecAssumption, NoBlocks, StoreType
        <3> QED BY <3>1 DEF DeliveryTyped
    <2>3. Fetching /\ AtL1
        BY DEF Fetching, AtL1
    <2>4. deriverAt \in [Derivations -> DeriverPlaces]
        BY DEF DeriverPlaces
    <2>5. l1 \in Seq(Seq(Frames))
        <3>1. <<>> \in Seq(Seq(Frames))
            OBVIOUS
        <3> QED BY <3>1
    <2>6. deriving \in BOOLEAN
        OBVIOUS
    <2> HIDE DEF DeriverInit
    <2> QED BY <2>1, <2>2, <2>3, <2>4, <2>5, <2>6 DEF DeriverIInv
<1>3. crashes \in 0 .. MaxCrashes
    <2>1. MaxCrashes \in Nat
        BY PipelineAssumption DEF PipelineAssumption
    <2> QED BY <2>1
<1>4. lost \in BOOLEAN
    OBVIOUS
<1> QED BY <1>1, <1>2, <1>3, <1>4 DEF PipeTypeIInv

\* Every step keeps them.
LEMMA PipeStep ==
    ASSUME OneDerivation, PipeTypeIInv, [PipelineNext]_pipelineVars
    PROVE  PipeTypeIInv'
<1>1. CallIInv' /\ ~ overlapped' /\ DeriverIInv'
    BY BatcherSide, DeriverSide DEF PipeTypeIInv
<1>2. crashes' \in 0 .. MaxCrashes /\ lost' \in BOOLEAN
    <2>1. CASE UNCHANGED faults
        BY <2>1 DEF faults, PipeTypeIInv
    <2>2. CASE BatcherRuns
        BY <2>2 DEF BatcherRuns, PipeTypeIInv
    <2>3. CASE Crash
        <3>1. MaxCrashes \in Nat
            BY PipelineAssumption DEF PipelineAssumption
        <3>2. crashes < MaxCrashes /\ crashes' = crashes + 1 /\ crashes \in 0 .. MaxCrashes
            BY <2>3 DEF Crash, PipeTypeIInv
        <3>3. crashes' \in 0 .. MaxCrashes
            BY <3>1, <3>2
        <3>4. lost' \in BOOLEAN
            BY <2>3 DEF Crash
        <3> QED BY <3>3, <3>4
    <2>4. UNCHANGED faults \/ BatcherRuns \/ Crash
        BY DEF PipelineNext, pipelineVars, L3Grows, StopRollup, DeriverRuns, StartRollup, MineL1
    <2> QED BY <2>1, <2>2, <2>3, <2>4
<1> QED BY <1>1, <1>2 DEF PipeTypeIInv

\* While one call of derivateStart runs: the deriver is never past the L1 block
\* behind the newest, at most one frame waits between two L1 blocks, a channel
\* is in the bank once, and what comes out are blocks, through crashes, lost
\* frames, stops and starts.
THEOREM PipelineTypeCorrect ==
    ASSUME OneDerivation
    PROVE  PipelineSpec => []PipelineTypeOK
<1>1. PipelineInit => PipeTypeIInv
    BY PipeInit
<1>2. PipeTypeIInv /\ [PipelineNext]_pipelineVars => PipeTypeIInv'
    BY PipeStep
<1>3. PipeTypeIInv => PipelineTypeOK
    BY DEF PipeTypeIInv, CallIInv, BatcherIInv, PipelineTypeOK, DeriverTypeOK, DeriverIInv, AtL1,
           StagesTyped, BankTyped, DeliveryTyped, DeriverPlaces
<1> QED BY <1>1, <1>2, <1>3, PTL DEF PipelineSpec

-----------------------------------------------------------------------------
(* What the deriver finds in the bytes of blocks. *)

\* nextBatch finds the blocks one after the other, and then the end.
LEMMA PackedRead ==
    \A bs \in Seq(Block) :
        /\ bs = <<>> => AtEnd(Packed(bs))
        /\ bs # <<>> => /\ ~ AtEnd(Packed(bs)) /\ Whole(Packed(bs))
                        /\ FirstBatch(Packed(bs)) = Head(bs)
                        /\ AfterFirst(Packed(bs)) = Packed(Tail(bs))
                        /\ Head(bs) \in Block /\ Tail(bs) \in Seq(Block)
<1>0. PrefixSize \in Nat \ {0} /\ Size \in [Block -> Nat \ {0}]
    BY CodecAssumption DEF CodecAssumption
<1>1. AtEnd(Packed(<<>>))
    <2>1. Len(<<>>) = 0
        OBVIOUS
    <2> QED BY <1>0, <2>1, PackedNone DEF AtEnd
<1>2. ASSUME NEW bs \in Seq(Block), bs # <<>>
      PROVE  /\ ~ AtEnd(Packed(bs)) /\ Whole(Packed(bs))
             /\ FirstBatch(Packed(bs)) = Head(bs)
             /\ AfterFirst(Packed(bs)) = Packed(Tail(bs))
             /\ Head(bs) \in Block /\ Tail(bs) \in Seq(Block)
    <2> DEFINE b == Head(bs)
               x == Bytes(b)
               y == Packed(Tail(bs))
               data == Packed(bs)
    <2>1. b \in Block /\ Tail(bs) \in Seq(Block) /\ bs = <<b>> \o Tail(bs) /\ <<b>> \in Seq(Block)
        BY <1>2
    <2>2. Packed(<<b>>) = x
        <3>1. <<>> \in Seq(Block) /\ Append(<<>>, b) = <<b>>
            OBVIOUS
        <3>2. Packed(Append(<<>>, b)) = Packed(<<>>) \o x
            BY <2>1, <3>1, PackedAppend
        <3>3. x \in Seq(Block)
            BY <2>1, BytesType
        <3> HIDE DEF x, b
        <3> QED BY <3>1, <3>2, <3>3, PackedNone, ConcatEmptySeq
    <2>3. x \in Seq(Block) /\ Len(x) = PrefixSize + Size[b] /\ y \in Seq(Block)
        BY <2>1, BytesType, PackedConcat
    <2>4. data = x \o y
        <3> HIDE DEF b
        <3> QED BY <2>1, <2>2, PackedConcat
    <2>5. Size[b] \in Nat \ {0}
        BY <1>0, <2>1
    <2>6. x[1] = b
        <3>1. 1 \in 1 .. PrefixSize + Size[b]
            BY <1>0, <2>5
        <3> QED BY <3>1 DEF Bytes
    <2> HIDE DEF x, y, data, b
    <2>7. /\ Len(data) = Len(x) + Len(y) /\ data[1] = x[1] /\ Len(x) \in Nat /\ Len(y) \in Nat
        <3>1. Len(x) \in Nat /\ Len(y) \in Nat /\ Len(x) >= 1
            BY <1>0, <2>3, <2>5
        <3> QED BY <2>3, <2>4, <3>1
    <2>8. FirstBatch(data) = b
        BY <2>6, <2>7 DEF FirstBatch
    <2>9. Len(Bytes(FirstBatch(data))) = Len(x)
        BY <2>8 DEF x
    <2>10. ~ AtEnd(data) /\ Whole(data)
        <3>1. Len(data) \in Nat /\ Len(data) >= Len(x) /\ Len(x) >= PrefixSize
            BY <1>0, <2>3, <2>5, <2>7, SMTT(30)
        <3>2. ~ (Len(data) < PrefixSize)
            BY <1>0, <2>7, <3>1
        <3>3. Whole(data)
            BY <2>9, <3>1 DEF Whole
        <3> QED BY <3>2, <3>3 DEF AtEnd
    <2>11. AfterFirst(data) = y
        <3>1. SubSeq(data, Len(x) + 1, Len(data)) = y
            BY <2>3, <2>4, SecondPart
        <3> QED BY <2>9, <3>1 DEF AfterFirst
    <2> QED BY <2>1, <2>8, <2>10, <2>11 DEF b, y, data
<1> QED BY <1>1, <1>2

-----------------------------------------------------------------------------
(* What the frames of a channel hold. *)

\* The pieces in which the bytes of a channel leave: all but the last are full,
\* and they are the bytes of the blocks bs when the last is not.
CutFrom(ps, bs) ==
    /\ \A k \in 1 .. Len(ps) - 1 : Len(ps[k]) = MaxData
    /\ Len(ps) # 0 /\ Len(ps[Len(ps)]) # MaxData => FlattenSeq(ps) = Packed(bs)

\* The parts, and the bytes kept, are cut from the bytes held back behind full
\* pieces and the bytes of more blocks.
CutOn(old, parts, before, taken, held, kept) ==
    /\ FlattenSeq(old) \o held = Packed(before)
    /\ FlattenSeq(parts) \o kept = held \o Packed(taken)
    /\ \A k \in 1 .. Len(old) : Len(old[k]) = MaxData
    /\ \A j \in 1 .. Len(parts) - 1 : Len(parts[j]) = MaxData
    /\ \/ kept = <<>>
       \/ \A j \in 1 .. Len(parts) : Len(parts[j]) = MaxData

\* Then all the pieces are cut from the bytes of all the blocks.
LEMMA MorePieces ==
    ASSUME NEW old \in Seq(Seq(Block)), NEW parts \in Seq(Seq(Block)),
           NEW before \in Seq(Block), NEW taken \in Seq(Block),
           NEW held \in Seq(Block), NEW kept \in Seq(Block),
           CutOn(old, parts, before, taken, held, kept)
    PROVE  /\ FlattenSeq(old \o parts) \o kept = Packed(before \o taken)
           /\ CutFrom(old \o parts, before \o taken)
           /\ (\A j \in 1 .. Len(parts) : Len(parts[j]) = MaxData)
                 => \A k \in 1 .. Len(old \o parts) : Len((old \o parts)[k]) = MaxData
<1> DEFINE all == old \o parts
           u == FlattenSeq(old)
           v == FlattenSeq(parts)
           w == Packed(taken)
           bs == before \o taken
           full(p) == Len(p) = MaxData
<1>1. /\ all \in Seq(Seq(Block)) /\ Len(old) \in Nat /\ Len(parts) \in Nat
      /\ Len(all) = Len(old) + Len(parts)
      /\ \A k \in 1 .. Len(old) : all[k] = old[k]
      /\ \A k \in 1 .. Len(parts) : all[Len(old) + k] = parts[k]
      /\ \A k \in 1 .. Len(old) + Len(parts) :
            \/ k \in 1 .. Len(old)
            \/ k - Len(old) \in 1 .. Len(parts) /\ k = Len(old) + (k - Len(old))
    BY ConcatAt
<1>2. u \in Seq(Block) /\ v \in Seq(Block) /\ w \in Seq(Block) /\ bs \in Seq(Block)
    <2>1. w \in Seq(Block)
        BY PackedConcat
    <2> QED BY <2>1, FlattenType
<1>3. FlattenSeq(all) = u \o v /\ FlattenSeq(all) \in Seq(Block)
    <2>1. FlattenSeq(all) = u \o v
        BY FlattenConcat
    <2>2. FlattenSeq(all) \in Seq(Block)
        BY <1>1, FlattenType
    <2> QED BY <2>1, <2>2
<1>4. Packed(bs) = Packed(before) \o w
    BY PackedConcat
<1>5. /\ u \o held = Packed(before) /\ v \o kept = held \o w
      /\ \A k \in 1 .. Len(old) : full(old[k])
      /\ \A j \in 1 .. Len(parts) - 1 : full(parts[j])
      /\ \/ kept = <<>>
         \/ \A j \in 1 .. Len(parts) : full(parts[j])
    BY DEF CutOn
<1>6. held \in Seq(Block) /\ kept \in Seq(Block)
    OBVIOUS
<1> HIDE DEF all, u, v, w, bs
<1>7. FlattenSeq(all) \o kept = Packed(bs)
    <2>1. (u \o v) \o kept = u \o (v \o kept)
        BY ONLY <1>2, <1>6, ConcatThree, SMTT(60)
    <2>2. (u \o held) \o w = u \o (held \o w)
        BY ONLY <1>2, <1>6, ConcatThree, SMTT(60)
    <2> QED BY ONLY <1>3, <1>4, <1>5, <2>1, <2>2
<1>8. ASSUME NEW k \in 1 .. Len(old) PROVE full(all[k])
    BY <1>1, <1>5
<1>9. ASSUME NEW j \in 1 .. Len(parts), full(parts[j]) PROVE full(all[Len(old) + j])
    BY <1>1, <1>9
<1>10. ASSUME NEW k \in 1 .. Len(all) - 1 PROVE full(all[k])
    <2>1. CASE k \in 1 .. Len(old)
        BY <1>8, <2>1
    <2>2. CASE k \notin 1 .. Len(old)
        <3>0. /\ Len(old) \in Nat /\ Len(parts) \in Nat /\ k \in 1 .. Len(old) + Len(parts) - 1
              /\ k \notin 1 .. Len(old)
            BY <1>1, <2>2
        <3>1. k \in 1 .. Len(old) + Len(parts) /\ k - Len(old) \in 1 .. Len(parts) - 1
            BY ONLY <3>0
        <3>2. /\ k - Len(old) \in 1 .. Len(parts) /\ k = Len(old) + (k - Len(old))
              /\ full(parts[k - Len(old)])
            BY <1>1, <1>5, <3>1
        <3>3. full(all[Len(old) + (k - Len(old))])
            BY <1>9, <3>2
        <3> QED BY <3>2, <3>3
    <2> QED BY <2>1, <2>2
<1>11. ASSUME \A j \in 1 .. Len(parts) : full(parts[j]), NEW k \in 1 .. Len(all) PROVE full(all[k])
    <2>1. CASE k \in 1 .. Len(old)
        BY <1>8, <2>1
    <2>2. CASE k \notin 1 .. Len(old)
        <3>1. k - Len(old) \in 1 .. Len(parts) /\ k = Len(old) + (k - Len(old))
            BY <1>1, <2>2
        <3>2. full(parts[k - Len(old)])
            BY <1>11, <3>1
        <3>3. full(all[Len(old) + (k - Len(old))])
            BY <1>9, <3>1, <3>2
        <3> QED BY <3>1, <3>3
    <2> QED BY <2>1, <2>2
<1>12. ASSUME Len(all) # 0, Len(all[Len(all)]) # MaxData PROVE FlattenSeq(all) = Packed(bs)
    <2>1. ~ \A j \in 1 .. Len(parts) : full(parts[j])
        <3>1. Len(all) \in 1 .. Len(all)
            BY <1>1, <1>12
        <3> QED BY <1>11, <1>12, <3>1
    <2>2. kept = <<>>
        BY <1>5, <2>1
    <2> QED BY <1>3, <1>7, <2>2, ConcatEmptySeq
<1>13. CutFrom(all, bs)
    BY <1>10, <1>12 DEF CutFrom
<1>14. (\A j \in 1 .. Len(parts) : full(parts[j])) => \A k \in 1 .. Len(all) : full(all[k])
    BY <1>11
<1> QED BY <1>7, <1>13, <1>14 DEF all, bs

\* The frame carries the piece at its place.
Carries(f, pieces) ==
    f.num + 1 \in DOMAIN pieces[f.chan] /\ f.data = pieces[f.chan][f.num + 1]

\* The open channel of q has sent full pieces, and has more to send.
Sending(q, pieces, content) ==
    LET ch == Last(q)
    IN  /\ Len(pieces[ch.id]) = ch.number
        /\ \A k \in 1 .. ch.number : Len(pieces[ch.id][k]) = MaxData
        /\ FlattenSeq(pieces[ch.id]) \o ch.buffer = Packed(content[ch.id])

\* The frames fs are pieces of what the channels hold, channels from n on hold
\* nothing yet, and the open channel of q goes on from the pieces it has sent.
Filled(fs, q, n, pieces, content) ==
    /\ \A i \in DOMAIN fs : Carries(fs[i], pieces)
    /\ \A c \in Nat : CutFrom(pieces[c], content[c])
    /\ \A c \in Nat : n <= c => pieces[c] = <<>>
    /\ Open(q) => Sending(q, pieces, content)

\* There are pieces and blocks for which all of that holds.
Contents(fs, q, n) ==
    \E pieces \in [Nat -> Seq(Seq(Block))], content \in [Nat -> Seq(Block)] :
        Filled(fs, q, n, pieces, content)

\* What fewer frames hold, once the queue is gone or as it was.
LEMMA FewerContents ==
    ASSUME NEW fs, NEW gs, NEW q, NEW r, NEW n, Contents(fs, q, n), r = q \/ ~ Open(r),
           \A i \in DOMAIN gs : \E j \in DOMAIN fs : gs[i] = fs[j]
    PROVE  Contents(gs, r, n)
<1>1. PICK pieces \in [Nat -> Seq(Seq(Block))], content \in [Nat -> Seq(Block)] :
          Filled(fs, q, n, pieces, content)
    BY DEF Contents
<1>2. Filled(gs, r, n, pieces, content)
    BY <1>1 DEF Filled, Carries
<1> QED BY <1>2 DEF Contents

\* What the frames hold that a step makes.
LEMMA MoreContents ==
    ASSUME NEW fs \in Seq(Frames), Contents(fs, channelQueue, nextId),
           NEW new \in Seq(Frames), FramesMade(new), FramesFilled(new),
           QueueStream(channelQueue), QueueStream(channelQueue'), nextId \in Nat \ {0}, nextId' \in Nat
    PROVE  Contents(fs \o new, channelQueue', nextId')
<1>1. PICK pieces \in [Nat -> Seq(Seq(Block))], content \in [Nat -> Seq(Block)] :
          Filled(fs, channelQueue, nextId, pieces, content)
    BY DEF Contents
<1> DEFINE held == FlattenSeq(BuffersOf(channelQueue))
           kept == FlattenSeq(BuffersOf(channelQueue'))
<1>2. PICK taken \in Seq(Block) : DataOf(new) \o kept = held \o Packed(taken)
    BY DEF FramesFilled
<1> DEFINE id == IF Open(channelQueue) THEN Last(channelQueue).id ELSE nextId
           first == IF Open(channelQueue) THEN Last(channelQueue).number ELSE 0
           before == IF Open(channelQueue) THEN content[id] ELSE <<>>
           now == Last(channelQueue')
           old == pieces[id]
           parts == DataParts(new)
           all == old \o parts
           bs == before \o taken
           more == [pieces EXCEPT ![id] = all]
           blks == [content EXCEPT ![id] = bs]
\* The open channel, before and after.
<1>3. /\ Open(channelQueue) => /\ Last(channelQueue).number \in Nat
                               /\ Last(channelQueue).id \in Nat \ {0}
                               /\ held = Last(channelQueue).buffer
      /\ ~ Open(channelQueue) => held = <<>>
      /\ Open(channelQueue') => kept = now.buffer
      /\ ~ Open(channelQueue') => kept = <<>>
    BY LastNumber
<1>4. held \in Seq(Block) /\ kept \in Seq(Block)
    <2>1. BuffersOf(channelQueue) \in Seq(Seq(Block)) /\ BuffersOf(channelQueue') \in Seq(Seq(Block))
        BY PartsOf
    <2> QED BY <2>1, FlattenType
<1> HIDE DEF held, kept
<1>5. id \in Nat /\ first \in Nat
    BY <1>3
<1>6. before \in Seq(Block)
    <2>1. content[id] \in Seq(Block)
        BY <1>5
    <2>2. <<>> \in Seq(Block)
        OBVIOUS
    <2> QED BY <2>1, <2>2
<1>7. /\ \A j \in 1 .. Len(new) : /\ new[j].chan = id /\ id < nextId'
                                  /\ new[j].num = first + j - 1
                                  /\ \A i \in 1 .. j - 1 : Len(new[i].data) = MaxData
      /\ Len(new) \in Nat /\ DOMAIN new = 1 .. Len(new)
      /\ nextId <= nextId'
    <2>1. Len(new) \in Nat /\ DOMAIN new = 1 .. Len(new)
        OBVIOUS
    <2> QED BY <2>1 DEF FramesMade, FramesFilled
<1>8. Open(channelQueue') => /\ now.id = id /\ now.number = first + Len(new)
                             /\ \A j \in 1 .. Len(new) : Len(new[j].data) = MaxData
    BY <1>7 DEF FramesMade, FramesFilled
<1>9. old \in Seq(Seq(Block)) /\ Len(old) = first
      /\ (\A k \in 1 .. Len(old) : Len(old[k]) = MaxData)
      /\ FlattenSeq(old) \o held = Packed(before)
    <2>1. old \in Seq(Seq(Block))
        BY <1>5
    <2>2. CASE Open(channelQueue)
        BY <1>1, <1>3, <2>1, <2>2 DEF Filled, Sending
    <2>3. CASE ~ Open(channelQueue)
        <3>1. old = <<>> /\ held = <<>>
            BY <1>1, <1>3, <1>5, <2>3 DEF Filled
        <3>2. FlattenSeq(old) \o held = <<>>
            <4>1. <<>> \o <<>> = <<>>
                OBVIOUS
            <4> HIDE DEF old
            <4> QED BY <3>1, <4>1, FlattenEmpty
        <3>3. Packed(before) = <<>> /\ first = 0
            BY <2>3, PackedNone
        <3>4. Len(<<>>) = 0
            OBVIOUS
        <3> HIDE DEF old, before, first
        <3> QED BY <2>1, <3>1, <3>2, <3>3, <3>4
    <2> QED BY <2>2, <2>3
<1>10. /\ parts \in Seq(Seq(Block)) /\ Len(parts) = Len(new)
       /\ \A j \in 1 .. Len(new) : parts[j] = new[j].data
       /\ FlattenSeq(parts) = DataOf(new)
    <2>1. \A j \in 1 .. Len(new) : new[j].data \in Seq(Block)
        <3>1. \A f \in Frames : f.data \in Seq(Block)
            BY DEF Frames
        <3>2. \A j \in 1 .. Len(new) : new[j] \in Frames
            OBVIOUS
        <3> QED BY ONLY <3>1, <3>2
    <2>2. parts = [j \in 1 .. Len(new) |-> new[j].data]
        BY <1>7 DEF DataParts
    <2>3. FlattenSeq(parts) = DataOf(new)
        BY DEF DataParts, DataOf
    <2> HIDE DEF parts
    <2> QED BY <1>7, <2>1, <2>2, <2>3
<1>11. ASSUME NEW c \in Nat
       PROVE  /\ more[c] = IF c = id THEN all ELSE pieces[c]
              /\ blks[c] = IF c = id THEN bs ELSE content[c]
    BY <1>5
<1>12. all \in Seq(Seq(Block)) /\ bs \in Seq(Block)
    BY <1>6, <1>9, <1>10
<1>13. more \in [Nat -> Seq(Seq(Block))] /\ blks \in [Nat -> Seq(Block)]
    BY <1>5, <1>12
<1> HIDE DEF id, first, before, now, old, parts, more, blks
<1>14. /\ FlattenSeq(all) \o kept = Packed(bs)
       /\ CutFrom(all, bs)
       /\ (\A j \in 1 .. Len(parts) : Len(parts[j]) = MaxData)
             => \A k \in 1 .. Len(all) : Len(all[k]) = MaxData
    <2>1. FlattenSeq(parts) \o kept = held \o Packed(taken)
        BY <1>2, <1>10
    <2>2. \A j \in 1 .. Len(parts) - 1 : Len(parts[j]) = MaxData
        <3> SUFFICES ASSUME NEW j \in 1 .. Len(new) - 1 PROVE Len(parts[j]) = MaxData
            BY <1>10
        <3>1. Len(new) \in 1 .. Len(new) /\ j \in 1 .. Len(new)
            BY <1>7
        <3> QED BY <1>7, <1>10, <3>1
    <2>3. \/ kept = <<>>
          \/ \A j \in 1 .. Len(parts) : Len(parts[j]) = MaxData
        BY <1>3, <1>8, <1>10
    <2>4. FlattenSeq(old) \o held = Packed(before) /\ \A k \in 1 .. Len(old) : Len(old[k]) = MaxData
        BY <1>9
    <2>5. /\ old \in Seq(Seq(Block)) /\ parts \in Seq(Seq(Block)) /\ taken \in Seq(Block)
          /\ before \in Seq(Block) /\ held \in Seq(Block) /\ kept \in Seq(Block)
        BY <1>4, <1>6, <1>9, <1>10
    <2>6. CutOn(old, parts, before, taken, held, kept)
        BY <2>1, <2>2, <2>3, <2>4 DEF CutOn
    <2> HIDE DEF all, bs
    <2>7. /\ FlattenSeq(old \o parts) \o kept = Packed(before \o taken)
          /\ CutFrom(old \o parts, before \o taken)
          /\ (\A j \in 1 .. Len(parts) : Len(parts[j]) = MaxData)
                => \A k \in 1 .. Len(old \o parts) : Len((old \o parts)[k]) = MaxData
        BY <2>5, <2>6, MorePieces, Zenon
    <2> QED BY <2>7 DEF all, bs
<1>15. /\ Len(all) = first + Len(new) /\ DOMAIN all = 1 .. first + Len(new)
       /\ \A k \in 1 .. first : all[k] = old[k]
       /\ \A j \in 1 .. Len(new) : all[first + j] = new[j].data
    <2>1. /\ Len(all) = Len(old) + Len(parts) /\ DOMAIN all = 1 .. Len(old) + Len(parts)
          /\ \A k \in 1 .. Len(old) : all[k] = old[k]
          /\ \A j \in 1 .. Len(parts) : all[Len(old) + j] = parts[j]
        <3>1. old \in Seq(Seq(Block)) /\ parts \in Seq(Seq(Block))
            BY <1>9, <1>10
        <3> QED BY ONLY <3>1, ConcatAt DEF all
    <2> HIDE DEF all
    <2> QED BY <1>9, <1>10, <2>1
<1> HIDE DEF all, bs
<1>16. ASSUME NEW f \in Frames, Carries(f, pieces) PROVE Carries(f, more)
    <2>1. f.chan \in Nat /\ f.num \in Nat
        BY DEF Frames
    <2>2. CASE f.chan = id
        <3>1. f.num + 1 \in DOMAIN old /\ f.data = old[f.num + 1]
            BY <1>16, <2>2 DEF Carries, old
        <3>5. f.num + 1 \in 1 .. first
            BY <1>9, <3>1
        <3>6. 1 .. first \subseteq DOMAIN all
            <4>1. first \in Nat /\ Len(new) \in Nat /\ DOMAIN all = 1 .. first + Len(new)
                BY <1>5, <1>7, <1>15
            <4> QED BY ONLY <4>1
        <3>2. f.num + 1 \in DOMAIN all
            BY <3>5, <3>6
        <3>3. more[f.chan] = all
            BY <1>5, <1>11, <2>2
        <3> QED BY <1>15, <3>1, <3>2, <3>3, <3>5 DEF Carries
    <2>3. CASE f.chan # id
        BY <1>11, <1>16, <2>1, <2>3 DEF Carries
    <2> QED BY <2>2, <2>3
<1>17. ASSUME NEW j \in 1 .. Len(new) PROVE Carries(new[j], more)
    <2>1. new[j].chan = id /\ new[j].num = first + j - 1
        BY <1>7
    <2>2. new[j].num + 1 = first + j /\ first + j \in 1 .. first + Len(new)
        BY <1>5, <1>7, <2>1
    <2>3. more[id] = all
        BY <1>5, <1>11
    <2> QED BY <1>15, <2>1, <2>2, <2>3 DEF Carries
<1>18. ASSUME NEW i \in DOMAIN (fs \o new) PROVE Carries((fs \o new)[i], more)
    <2> DEFINE z == fs \o new
    <2>1. /\ \A k \in 1 .. Len(fs) : z[k] = fs[k]
          /\ \A k \in 1 .. Len(new) : z[Len(fs) + k] = new[k]
          /\ \/ i \in 1 .. Len(fs)
             \/ i - Len(fs) \in 1 .. Len(new) /\ i = Len(fs) + (i - Len(fs))
        <3>1. /\ DOMAIN z = 1 .. Len(fs) + Len(new)
              /\ \A k \in 1 .. Len(fs) : z[k] = fs[k]
              /\ \A k \in 1 .. Len(new) : z[Len(fs) + k] = new[k]
              /\ \A k \in 1 .. Len(fs) + Len(new) :
                    \/ k \in 1 .. Len(fs)
                    \/ k - Len(fs) \in 1 .. Len(new) /\ k = Len(fs) + (k - Len(fs))
            <4>1. fs \in Seq(Frames) /\ new \in Seq(Frames)
                OBVIOUS
            <4>2. z = fs \o new
                OBVIOUS
            <4> HIDE DEF Frames, z
            <4>3. DOMAIN z = 1 .. Len(fs) + Len(new)
                BY ONLY <4>1, <4>2, ConcatAt, SMTT(30)
            <4>4. \A k \in 1 .. Len(fs) : z[k] = fs[k]
                BY ONLY <4>1, <4>2, ConcatAt, SMTT(30)
            <4>5. \A k \in 1 .. Len(new) : z[Len(fs) + k] = new[k]
                BY ONLY <4>1, <4>2, ConcatAt, SMTT(30)
            <4>6. ASSUME NEW k \in 1 .. Len(fs) + Len(new)
                  PROVE  \/ k \in 1 .. Len(fs)
                         \/ k - Len(fs) \in 1 .. Len(new) /\ k = Len(fs) + (k - Len(fs))
                BY <4>1
            <4> QED BY ONLY <4>3, <4>4, <4>5, <4>6
        <3>2. i \in DOMAIN z
            OBVIOUS
        <3> HIDE DEF z
        <3> QED BY <3>1, <3>2
    <2>2. DOMAIN fs = 1 .. Len(fs) /\ \A k \in 1 .. Len(fs) : fs[k] \in Frames
        OBVIOUS
    <2>6. i \in DOMAIN z
        OBVIOUS
    <2> HIDE DEF z
    <2>3. ASSUME i \in 1 .. Len(fs) PROVE Carries(z[i], more)
        BY <1>1, <1>16, <2>1, <2>2, <2>3 DEF Filled
    <2>4. ASSUME i - Len(fs) \in 1 .. Len(new), i = Len(fs) + (i - Len(fs)) PROVE Carries(z[i], more)
        <3>1. z[Len(fs) + (i - Len(fs))] = new[i - Len(fs)]
            BY <2>1, <2>4
        <3>2. z[i] = new[i - Len(fs)]
            BY <2>4, <3>1
        <3> QED BY <1>17, <2>4, <3>2
    <2>5. Carries(z[i], more)
        BY <2>1, <2>3, <2>4
    <2> QED BY <2>5 DEF z
<1>19. ASSUME NEW c \in Nat PROVE CutFrom(more[c], blks[c])
    BY <1>1, <1>11, <1>14 DEF Filled
<1>20. ASSUME NEW c \in Nat, nextId' <= c PROVE more[c] = <<>>
    <2>1. nextId <= c
        BY <1>7, <1>20
    <2>2. pieces[c] = <<>>
        BY <1>1, <2>1 DEF Filled
    <2>3. CASE c # id
        BY <1>11, <2>2, <2>3
    <2>4. CASE c = id /\ Len(new) = 0
        <3>1. old = <<>>
            BY <2>2, <2>4 DEF old
        <3>2. Len(all) = 0
            BY <1>5, <1>9, <1>15, <2>4, <3>1
        <3>3. all = <<>>
            BY <1>12, <3>2
        <3> QED BY <1>11, <2>4, <3>3
    <2>5. CASE c = id /\ Len(new) # 0
        <3>1. 1 \in 1 .. Len(new)
            BY <1>7, <2>5
        <3>2. id < nextId'
            BY <1>7, <3>1
        <3> QED BY <1>5, <1>20, <2>5, <3>2
    <2> QED BY <2>3, <2>4, <2>5
<1>21. ASSUME Open(channelQueue') PROVE Sending(channelQueue', more, blks)
    <2>1. now.id = id /\ now.number = first + Len(new) /\ kept = now.buffer
        BY <1>3, <1>8, <1>21
    <2>2. more[id] = all /\ blks[id] = bs
        BY <1>5, <1>11
    <2>3. \A k \in 1 .. Len(all) : Len(all[k]) = MaxData
        BY <1>8, <1>10, <1>14, <1>21
    <2> QED BY <1>14, <1>15, <2>1, <2>2, <2>3 DEF Sending, now
<1>22. Filled(fs \o new, channelQueue', nextId', more, blks)
    BY <1>18, <1>19, <1>20, <1>21 DEF Filled
<1> QED BY <1>13, <1>22 DEF Contents

-----------------------------------------------------------------------------
(* The frames on L1 and the frames to come. *)

\* All frames ever made that are not lost, in the order of L1.
Chain == FlattenSeq(l1) \o AllFrames

ChainIInv ==
    /\ OrderedIn(Chain, channelQueue, nextId)
    /\ Contents(Chain, channelQueue, nextId)

\* Three lists of frames in a row.
LEMMA FramesInARow ==
    \A r, s, t \in Seq(Frames) : (r \o s) \o t = r \o (s \o t) /\ r \o s \in Seq(Frames)
<1> SUFFICES ASSUME NEW r \in Seq(Frames), NEW s \in Seq(Frames), NEW t \in Seq(Frames)
             PROVE  (r \o s) \o t = r \o (s \o t) /\ r \o s \in Seq(Frames)
    OBVIOUS
<1>1. (r \o s) \o t = r \o (s \o t)
    BY ONLY r \in Seq(Frames), s \in Seq(Frames), t \in Seq(Frames), ConcatThree, SMTT(60)
<1> QED BY <1>1

\* Their types.
LEMMA ChainTyped ==
    ASSUME PipeTypeIInv
    PROVE  /\ FlattenSeq(l1) \in Seq(Frames) /\ AllFrames \in Seq(Frames)
           /\ Chain \in Seq(Frames)
           /\ QueueStream(channelQueue) /\ nextId \in Nat \ {0}
<1>1. /\ l1 \in Seq(Seq(Frames)) /\ BatcherIInv /\ ~ overlapped /\ StreamTyped /\ CallsAt
    BY DEF PipeTypeIInv, DeriverIInv, CallIInv
<1>2. FlattenSeq(l1) \in Seq(Frames)
    BY <1>1, FlattenType
<1>3. AllFrames \in Seq(Frames)
    BY <1>1, FramesSoFar
<1>4. Chain \in Seq(Frames)
    BY <1>2, <1>3 DEF Chain
<1> QED BY <1>1, <1>2, <1>3, <1>4 DEF StreamTyped, BatcherIInv, QueueOK

\* Some frames of the chain, with the queue as it was or gone.
LEMMA FrontOfChain ==
    ASSUME NEW gs \in Seq(Frames), NEW t \in Seq(Frames), NEW q, NEW r, NEW n,
           OrderedIn(gs \o t, q, n), Contents(gs \o t, q, n), r = q \/ ~ Open(r)
    PROVE  OrderedIn(gs, r, n) /\ Contents(gs, r, n)
<1>1. OrderedIn(gs, r, n)
    BY FrontInOrder
<1>2. /\ DOMAIN (gs \o t) = 1 .. Len(gs) + Len(t) /\ Len(gs) \in Nat /\ Len(t) \in Nat
      /\ \A k \in 1 .. Len(gs) : (gs \o t)[k] = gs[k]
    BY ConcatAt
<1>3. DOMAIN gs = 1 .. Len(gs)
    OBVIOUS
<1> DEFINE fs == gs \o t
<1>4. Contents(fs, q, n)
    OBVIOUS
<1>5. \A i \in DOMAIN gs : i \in DOMAIN fs /\ gs[i] = fs[i]
    BY <1>2, <1>3
<1> HIDE DEF fs
<1>6. Contents(gs, r, n)
    BY <1>4, <1>5, FewerContents
<1> QED BY <1>1, <1>6

\* All but one of the chain.
LEMMA ChainWithout ==
    ASSUME NEW s \in Seq(Frames), NEW t \in Seq(Frames), NEW x \in Frames, NEW q, NEW n,
           OrderedIn((s \o <<x>>) \o t, q, n), Contents((s \o <<x>>) \o t, q, n)
    PROVE  OrderedIn(s \o t, q, n) /\ Contents(s \o t, q, n)
<1>1. OrderedIn(s \o t, q, n)
    BY FewerInOrder
<1> DEFINE u == s \o <<x>>
           fs == u \o t
           gs == s \o t
<1>2. u \in Seq(Frames) /\ Len(u) = Len(s) + 1 /\ Len(s) \in Nat /\ Len(t) \in Nat
      /\ \A k \in 1 .. Len(s) : u[k] = s[k]
    <2>1. <<x>> \in Seq(Frames) /\ Len(<<x>>) = 1
        OBVIOUS
    <2>2. s \in Seq(Frames) /\ t \in Seq(Frames)
        OBVIOUS
    <2>3. Len(t) \in Nat
        BY <2>2
    <2>4. u \in Seq(Frames) /\ Len(u) = Len(s) + 1
        BY ONLY <2>1, <2>2, ConcatAt DEF u
    <2>5. \A k \in 1 .. Len(s) : u[k] = s[k]
        BY ONLY <2>1, <2>2, ConcatAt DEF u
    <2> QED BY <2>3, <2>4, <2>5
<1> HIDE DEF u
<1>3. /\ DOMAIN fs = 1 .. Len(u) + Len(t)
      /\ \A k \in 1 .. Len(u) : fs[k] = u[k]
      /\ \A k \in 1 .. Len(t) : fs[Len(u) + k] = t[k]
    <2>1. u \in Seq(Frames) /\ t \in Seq(Frames)
        BY <1>2
    <2> QED BY ONLY <2>1, ConcatAt DEF fs
<1>4. /\ DOMAIN gs = 1 .. Len(s) + Len(t)
      /\ \A k \in 1 .. Len(s) : gs[k] = s[k]
      /\ \A k \in 1 .. Len(t) : gs[Len(s) + k] = t[k]
    BY ConcatAt
<1>5. Contents(fs, q, n)
    BY DEF u
<1> HIDE DEF fs, gs
<1>6. ASSUME NEW i \in DOMAIN gs PROVE \E j \in DOMAIN fs : gs[i] = fs[j]
    <2>1. i \in 1 .. Len(s) + Len(t)
        BY <1>4
    <2>2. CASE i \in 1 .. Len(s)
        <3>1. i \in 1 .. Len(u) /\ i \in 1 .. Len(u) + Len(t)
            BY <1>2, <2>2
        <3> QED BY <1>2, <1>3, <1>4, <2>2, <3>1
    <2>3. CASE i \notin 1 .. Len(s)
        <3> DEFINE k == i - Len(s)
        <3>1. k \in 1 .. Len(t) /\ i = Len(s) + k /\ Len(u) + k \in 1 .. Len(u) + Len(t)
            BY <1>2, <2>1, <2>3
        <3> HIDE DEF k
        <3> QED BY <1>3, <1>4, <3>1
    <2> QED BY <2>2, <2>3
<1>7. Contents(gs, q, n)
    BY <1>5, <1>6, FewerContents
<1> QED BY <1>1, <1>7 DEF gs

\* The frames the batcher has: given to L1, being sent, and waiting.
Behind == SetToSeq(BeingSent) \o Waiters

\* These are frames, and behind the outbox they are all frames the batcher has;
\* a frame being sent comes next to the outbox.
LEMMA SentAndBehind ==
    ASSUME CallIInv, ~ overlapped
    PROVE  /\ outbox \in Seq(Frames) /\ Waiters \in Seq(Frames) /\ Behind \in Seq(Frames)
           /\ SetToSeq(BeingSent) \in Seq(Frames)
           /\ AllFrames = outbox \o Behind
           /\ \A f \in BeingSent : f \in Frames /\ AllFrames = Append(outbox, f) \o Waiters
<1>1. outbox \in Seq(Frames) /\ QueueStream(channelQueue)
    BY DEF CallIInv, StreamTyped
<1>2. Waiters \in Seq(Frames)
    <2>1. FramesOf(channelQueue) \in Seq(Seq(Frames))
        BY <1>1, PartsOf
    <2>2. Waiters = FlattenSeq(FramesOf(channelQueue))
        BY DEF Waiters, FramesOf
    <2> QED BY <2>1, <2>2, FlattenType
<1>3. /\ SetToSeq(BeingSent) \in Seq(Frames)
      /\ \A f \in BeingSent : f \in Frames /\ SetToSeq(BeingSent) = <<f>>
    <2>1. CASE BeingSent = {}
        <3>1. <<>> \in Seq(Frames)
            OBVIOUS
        <3> QED BY <2>1, <3>1, SetToSeqSmall
    <2>2. CASE BeingSent # {}
        <3>1. PICK b \in Batchers : sending[b] # NoFrame
            BY <2>2 DEF BeingSent
        <3>2. OnlySender(b) /\ BeingSent = {sending[b]}
            BY <3>1, PipelineAssumption DEF OnlySender, PipelineAssumption, BeingSent
        <3>3. SetToSeq(BeingSent) = <<sending[b]>>
            BY <3>1, <3>2, SentAlone
        <3>4. sending[b] \in Frames
            BY <3>1 DEF CallIInv, StreamTyped
        <3>5. <<sending[b]>> \in Seq(Frames)
            BY <3>4
        <3> QED BY <3>2, <3>3, <3>4, <3>5
    <2> QED BY <2>1, <2>2
<1> DEFINE one == SetToSeq(BeingSent)
<1>4. Behind = one \o Waiters /\ AllFrames = (outbox \o one) \o Waiters
    BY DEF Behind, AllFrames
<1>5. one \in Seq(Frames) /\ \A f \in BeingSent : f \in Frames /\ one = <<f>>
    BY <1>3
<1> HIDE DEF one
<1>6. (outbox \o one) \o Waiters = outbox \o (one \o Waiters) /\ one \o Waiters \in Seq(Frames)
    BY <1>1, <1>2, <1>5, FramesInARow
<1>7. ASSUME NEW f \in BeingSent PROVE Append(outbox, f) = outbox \o one
    BY <1>1, <1>5, AppendIsConcat
<1> QED BY <1>1, <1>2, <1>4, <1>5, <1>6, <1>7 DEF one

\* A step of the batcher adds frames behind the chain, or one of them is lost.
LEMMA ChainCall ==
    ASSUME PipeTypeIInv, PipeTypeIInv', ChainIInv, [BatcherNext]_batcherVars, l1' = l1
    PROVE  ChainIInv'
<1> DEFINE fl == FlattenSeq(l1)
<1>1. /\ fl \in Seq(Frames) /\ AllFrames \in Seq(Frames) /\ Chain \in Seq(Frames)
      /\ QueueStream(channelQueue) /\ nextId \in Nat \ {0}
    BY ChainTyped
<1>2. QueueStream(channelQueue') /\ nextId' \in Nat
    BY DEF PipeTypeIInv, CallIInv, StreamTyped, BatcherIInv, QueueOK
<1>3. CallIInv /\ ~ overlapped /\ ~ overlapped'
    BY DEF PipeTypeIInv
<1>4. ASSUME Chain' = Chain, UNCHANGED <<channelQueue, nextId>> PROVE ChainIInv'
    BY <1>4 DEF ChainIInv
<1>5. \/ Rests
      \/ \E bs : Packs(bs)
      \/ Sends
    BY <1>3, CallStep
<1>6. Chain' = fl \o AllFrames' /\ Chain = fl \o AllFrames
    BY DEF Chain
<1> HIDE DEF fl
<1>7. CASE Rests
    <2>1. AllFrames' = AllFrames /\ UNCHANGED <<channelQueue, nextId>>
        BY <1>7 DEF Rests, AllFrames, Waiters, BeingSent
    <2> QED BY <1>4, <1>6, <2>1
<1>8. CASE \E bs : Packs(bs)
    <2>1. PICK new \in Seq(Frames) :
              AllFrames' = AllFrames \o new /\ FramesMade(new) /\ FramesFilled(new)
        BY <1>8 DEF Packs
    <2>2. (fl \o AllFrames) \o new = fl \o (AllFrames \o new)
        <3>1. fl \in Seq(Frames) /\ AllFrames \in Seq(Frames) /\ new \in Seq(Frames)
            BY <1>1, <2>1
        <3> QED BY ONLY <3>1, FramesInARow, Zenon
    <2>3. Chain' = Chain \o new
        BY <1>6, <2>1, <2>2
    <2>4. OrderedIn(Chain \o new, channelQueue', nextId')
        BY <1>1, <1>2, <2>1, MoreInOrder DEF ChainIInv
    <2>5. Contents(Chain \o new, channelQueue', nextId')
        BY <1>1, <1>2, <2>1, MoreContents DEF ChainIInv
    <2> QED BY <2>3, <2>4, <2>5 DEF ChainIInv
<1>9. CASE Sends
    <2>1. UNCHANGED <<channelQueue, nextId>>
        BY <1>9 DEF Sends
    <2>2. CASE AllFrames' = AllFrames
        BY <1>4, <1>6, <2>1, <2>2
    <2>3. CASE \E s, t \in Seq(Frames), x \in Frames :
                  AllFrames = (s \o <<x>>) \o t /\ AllFrames' = s \o t
        <3>1. PICK s \in Seq(Frames), t \in Seq(Frames), x \in Frames :
                  AllFrames = (s \o <<x>>) \o t /\ AllFrames' = s \o t
            BY <2>3
        <3> DEFINE r == fl \o s
                   y == <<x>>
        <3>2. y \in Seq(Frames)
            OBVIOUS
        <3> HIDE DEF y, r
        <3>3. fl \o ((s \o y) \o t) = (fl \o (s \o y)) \o t /\ s \o y \in Seq(Frames)
            <4>1. s \o y \in Seq(Frames)
                BY <3>2
            <4>2. fl \in Seq(Frames) /\ s \o y \in Seq(Frames) /\ t \in Seq(Frames)
                BY <1>1, <4>1
            <4> QED BY ONLY <4>2, FramesInARow, SMTT(60)
        <3>4. fl \o (s \o y) = (fl \o s) \o y
            <4>1. fl \in Seq(Frames) /\ s \in Seq(Frames) /\ y \in Seq(Frames)
                BY <1>1, <3>2
            <4> QED BY ONLY <4>1, FramesInARow, SMTT(60)
        <3>5. fl \o (s \o t) = (fl \o s) \o t /\ fl \o s \in Seq(Frames)
            <4>1. fl \in Seq(Frames) /\ s \in Seq(Frames) /\ t \in Seq(Frames)
                BY <1>1
            <4> QED BY ONLY <4>1, FramesInARow, Zenon
        <3>6. Chain = (r \o <<x>>) \o t /\ Chain' = r \o t /\ r \in Seq(Frames)
            BY <1>6, <3>1, <3>3, <3>4, <3>5, Zenon DEF y, r
        <3>7. OrderedIn((r \o <<x>>) \o t, channelQueue, nextId)
              /\ Contents((r \o <<x>>) \o t, channelQueue, nextId)
            BY <3>6 DEF ChainIInv
        <3>8. OrderedIn(r \o t, channelQueue, nextId) /\ Contents(r \o t, channelQueue, nextId)
            BY <3>6, <3>7, ChainWithout
        <3> QED BY <2>1, <3>6, <3>8 DEF ChainIInv
    <2> QED BY <1>9, <2>2, <2>3 DEF Sends
<1> QED BY <1>5, <1>7, <1>8, <1>9

\* What L1 mines was first among the frames given to it.
LEMMA ChainMine ==
    ASSUME PipeTypeIInv, PipeTypeIInv', ChainIInv, NEW k \in 0 .. MaxBlockTxs, MineL1(k)
    PROVE  ChainIInv'
<1> DEFINE fl == FlattenSeq(l1)
           m == SubSeq(outbox, 1, k)
<1>1. k \in Nat /\ CallIInv /\ ~ overlapped /\ CallIInv' /\ ~ overlapped' /\ l1 \in Seq(Seq(Frames))
    BY PipelineAssumption DEF PipelineAssumption, PipeTypeIInv, DeriverIInv
<1>2. m \in Seq(Frames) /\ outbox' \in Seq(Frames) /\ outbox = m \o outbox'
    BY <1>1, MineIInv
<1>3. l1' = Append(l1, m) /\ UNCHANGED <<channelQueue, nextId, sending>>
    BY DEF MineL1, channelVars
<1> HIDE DEF m
<1>4. FlattenSeq(l1') = fl \o m
    BY <1>1, <1>2, <1>3, FlattenAppend
<1>5. Behind' = Behind /\ Behind \in Seq(Frames) /\ AllFrames = outbox \o Behind
    BY <1>1, <1>3, SentAndBehind DEF Behind, BeingSent, Waiters
<1>6. AllFrames' = outbox' \o Behind
    <2>1. AllFrames' = (outbox' \o SetToSeq(BeingSent)) \o Waiters
        BY <1>3 DEF AllFrames, BeingSent, Waiters
    <2>2. Behind = SetToSeq(BeingSent) \o Waiters /\ Waiters \in Seq(Frames)
        BY <1>1, SentAndBehind DEF Behind
    <2>3. SetToSeq(BeingSent) \in Seq(Frames)
        BY <1>1, SentAndBehind
    <2> DEFINE one == SetToSeq(BeingSent)
    <2>4. one \in Seq(Frames) /\ outbox' \in Seq(Frames) /\ Waiters \in Seq(Frames)
        BY <1>2, <2>2, <2>3
    <2> HIDE DEF one
    <2>5. (outbox' \o one) \o Waiters = outbox' \o (one \o Waiters)
        BY ONLY <2>4, FramesInARow, Zenon
    <2> QED BY <2>1, <2>2, <2>5 DEF one
<1>7. fl \in Seq(Frames)
    BY ChainTyped
<1>8. Chain = fl \o AllFrames /\ Chain' = FlattenSeq(l1') \o AllFrames'
    BY DEF Chain
<1> HIDE DEF fl
<1>9. (m \o outbox') \o Behind = m \o (outbox' \o Behind) /\ outbox' \o Behind \in Seq(Frames)
    BY <1>2, <1>5, FramesInARow
<1>10. (fl \o m) \o (outbox' \o Behind) = fl \o (m \o (outbox' \o Behind))
    BY <1>2, <1>7, <1>9, FramesInARow
<1>11. Chain' = Chain
    BY <1>2, <1>4, <1>5, <1>6, <1>8, <1>9, <1>10, Zenon
<1> QED BY <1>3, <1>11 DEF ChainIInv

\* A crash leaves what L1 has been given.
LEMMA ChainCrash ==
    ASSUME PipeTypeIInv, ChainIInv, Crash
    PROVE  ChainIInv'
<1> DEFINE fl == FlattenSeq(l1)
<1>1. /\ CallIInv /\ ~ overlapped
      /\ l1' = l1 /\ nextId' = nextId /\ channelQueue' = <<>>
      /\ sending' = [b \in Batchers |-> NoFrame]
      /\ \/ outbox' = outbox
         \/ \E f \in BeingSent : outbox' = Append(outbox, f)
    BY DEF PipeTypeIInv, Crash, BatcherBoot
<1>2. /\ outbox \in Seq(Frames) /\ Waiters \in Seq(Frames) /\ Behind \in Seq(Frames)
      /\ AllFrames = outbox \o Behind
      /\ \A f \in BeingSent : f \in Frames /\ AllFrames = Append(outbox, f) \o Waiters
    BY <1>1, SentAndBehind
<1>3. PICK t \in Seq(Frames) : AllFrames = outbox' \o t /\ outbox' \in Seq(Frames)
    <2>1. CASE outbox' = outbox
        BY <1>2, <2>1
    <2>2. ASSUME NEW f \in BeingSent, outbox' = Append(outbox, f)
          PROVE  outbox' \in Seq(Frames) /\ AllFrames = outbox' \o Waiters
        BY <1>2, <2>2
    <2> QED BY <1>1, <1>2, <2>1, <2>2
<1>4. AllFrames' = outbox'
    <2>1. BeingSent' = {}
        BY <1>1 DEF BeingSent
    <2>2. [k \in DOMAIN channelQueue' |-> channelQueue'[k].frames] = <<>>
        BY <1>1
    <2>3. Waiters' = <<>>
        BY <2>2, FlattenEmpty DEF Waiters
    <2>4. outbox' \o <<>> = outbox' /\ SetToSeq({}) = <<>>
        BY <1>3, ConcatEmptySeq, SetToSeqSmall
    <2> QED BY <2>1, <2>3, <2>4 DEF AllFrames
<1>5. fl \in Seq(Frames)
    BY ChainTyped
<1>6. Chain = fl \o AllFrames /\ Chain' = fl \o AllFrames'
    BY <1>1 DEF Chain
<1> HIDE DEF fl
<1>7. (fl \o outbox') \o t = fl \o (outbox' \o t) /\ fl \o outbox' \in Seq(Frames)
    BY <1>3, <1>5, FramesInARow, Zenon
<1>8. Chain' \in Seq(Frames) /\ Chain = Chain' \o t
    BY <1>3, <1>4, <1>6, <1>7
<1>9. ~ Open(channelQueue')
    BY <1>1 DEF Open
<1> DEFINE gs == Chain'
           q == channelQueue'
<1>10. OrderedIn(gs \o t, channelQueue, nextId) /\ Contents(gs \o t, channelQueue, nextId)
    BY <1>8 DEF ChainIInv
<1>11. gs \in Seq(Frames) /\ ~ Open(q)
    BY <1>8, <1>9
<1> HIDE DEF gs, q
<1>12. OrderedIn(gs, q, nextId) /\ Contents(gs, q, nextId)
    BY <1>10, <1>11, FrontOfChain
<1> QED BY <1>1, <1>12 DEF ChainIInv, gs, q

\* Every step keeps what is known of the chain; L1 orders what it is given.
LEMMA ChainStep ==
    ASSUME PipeTypeIInv, PipeTypeIInv', ChainIInv, [PipelineNext]_pipelineVars
    PROVE  ChainIInv'
<1>1. CASE UNCHANGED pipelineVars
    <2>1. [BatcherNext]_batcherVars /\ l1' = l1
        BY <1>1 DEF pipelineVars, deriverVars
    <2> QED BY <2>1, ChainCall
<1> QED BY <1>1, BatcherPart, ChainCall, ChainMine, ChainCrash

\* At first there are no frames.
LEMMA ChainInit == PipelineInit => ChainIInv
<1> SUFFICES ASSUME PipelineInit PROVE ChainIInv
    OBVIOUS
<1>1. Chain = <<>>
    <2>1. AllFrames = <<>> /\ FlattenSeq(l1) = <<>>
        BY SentInit, FlattenEmpty DEF PipelineInit, DeriverInit
    <2>2. <<>> \o <<>> = <<>>
        OBVIOUS
    <2> QED BY <2>1, <2>2 DEF Chain
<1>2. ~ Open(channelQueue)
    BY DEF PipelineInit, BatcherInit, Open
<1>3. OrderedIn(<<>>, channelQueue, nextId)
    BY <1>2 DEF OrderedIn, FullBefore, Ascending
<1>4. Contents(<<>>, channelQueue, nextId)
    <2> DEFINE pieces == [c \in Nat |-> <<>>]
    <2>1. pieces \in [Nat -> Seq(Seq(Block))] /\ pieces \in [Nat -> Seq(Block)]
        <3>1. <<>> \in Seq(Seq(Block)) /\ <<>> \in Seq(Block)
            OBVIOUS
        <3> QED BY <3>1
    <2>2. \A c \in Nat : pieces[c] = <<>>
        OBVIOUS
    <2> HIDE DEF pieces
    <2>3. CutFrom(<<>>, <<>>)
        <3>1. Len(<<>>) = 0
            OBVIOUS
        <3> QED BY <3>1 DEF CutFrom
    <2>4. Filled(<<>>, channelQueue, nextId, pieces, pieces)
        BY <1>2, <2>2, <2>3 DEF Filled
    <2> QED BY <2>1, <2>4 DEF Contents
<1> QED BY <1>1, <1>3, <1>4 DEF ChainIInv

-----------------------------------------------------------------------------
(* How far the deriver is on L1. *)

\* How many L1 blocks it has begun to read.
Mark == IF datas # <<>> THEN l1Number ELSE IF l1Number = 0 THEN 0 ELSE l1Number - 1

\* The bank holds frames read, each in its channel.
BankFrom(chs, read) ==
    \A k \in DOMAIN chs : \A f \in chs[k].inputs :
        f.chan = chs[k].id /\ \E j \in DOMAIN read : read[j] = f

\* The blocks s have been begun, the blocks t have not, and of the frames in s
\* the bank has got those in read and not those in the stages in front of it.
PlacedAt(s, t, read) ==
    /\ l1 = s \o t /\ Len(s) = Mark
    /\ FlattenSeq(s) = read \o (frameQueue \o datas)
    /\ BankFrom(bank, read)

Placed == \E s, t \in Seq(Seq(Frames)), read \in Seq(Frames) : PlacedAt(s, t, read)

\* A call that asks where to start is not under way on L1.
Starting == \A l \in Derivations : deriverAt[l] = "starting" => l1Number = 0

\* Where the deriver is between two steps.
PlacedIInv == Placed /\ Starting

\* More frames read.
LEMMA BankFromMore ==
    ASSUME NEW chs, NEW read \in Seq(Frames), NEW f \in Frames, BankFrom(chs, read)
    PROVE  BankFrom(chs, Append(read, f))
<1>1. \A j \in DOMAIN read : j \in DOMAIN Append(read, f) /\ Append(read, f)[j] = read[j]
    OBVIOUS
<1> DEFINE more == Append(read, f)
<1> HIDE DEF more
<1> QED BY <1>1 DEF BankFrom, more

\* A frame that is ingested is read.
LEMMA IngestFrom ==
    ASSUME BankTyped(bank), NEW read \in Seq(Frames), NEW f \in Frames, BankFrom(bank, read),
           Ingest(f)
    PROVE  BankFrom(bank', Append(read, f))
<1> DEFINE at == {k \in DOMAIN bank : bank[k].id = f.chan}
           new == [id |-> f.chan, inputs |-> {f}]
           more == Append(read, f)
<1>1. bank \in Seq(Channels) /\ Len(bank) \in Nat /\ DOMAIN bank = 1 .. Len(bank)
    BY DEF BankTyped
<1>2. BankFrom(bank, more)
    BY BankFromMore
<1>3. \E j \in DOMAIN more : more[j] = f
    <2>1. Len(read) + 1 \in DOMAIN more /\ more[Len(read) + 1] = f
        BY AppendAt
    <2> QED BY <2>1
<1> HIDE DEF more
<1>4. CASE at = {} /\ bank' = Append(bank, new)
    <2>1. new \in Channels /\ new.id = f.chan /\ new.inputs = {f}
        BY DEF Channels, Frames
    <2> HIDE DEF new
    <2>2. /\ DOMAIN bank' = 1 .. Len(bank) + 1
          /\ bank'[Len(bank) + 1] = new
          /\ \A k \in 1 .. Len(bank) : bank'[k] = bank[k]
        BY <1>1, <1>4, <2>1, AppendAt
    <2>3. ASSUME NEW k \in DOMAIN bank', NEW g \in bank'[k].inputs
          PROVE  g.chan = bank'[k].id /\ \E j \in DOMAIN more : more[j] = g
        <3>1. CASE k = Len(bank) + 1
            BY <1>3, <2>1, <2>2, <2>3, <3>1
        <3>2. CASE k # Len(bank) + 1
            <4>1. k \in 1 .. Len(bank)
                BY <1>1, <2>2, <3>2
            <4> QED BY <1>1, <1>2, <2>2, <2>3, <4>1 DEF BankFrom
        <3> QED BY <3>1, <3>2
    <2> QED BY <2>3 DEF BankFrom, more
<1>5. ASSUME NEW k \in at, bank' = [bank EXCEPT ![k].inputs = @ \cup {f}]
      PROVE  BankFrom(bank', more)
    <2> DEFINE grown == [bank[k] EXCEPT !.inputs = @ \cup {f}]
    <2>1. bank' = [bank EXCEPT ![k] = grown] /\ k \in 1 .. Len(bank) /\ bank[k].id = f.chan
        BY <1>1, <1>5
    <2>2. bank[k] \in Channels
        BY <1>1, <2>1
    <2>3. grown.inputs = bank[k].inputs \cup {f} /\ grown.id = bank[k].id
        BY <2>2 DEF Channels
    <2> HIDE DEF grown
    <2>4. DOMAIN bank' = DOMAIN bank
          /\ \A j \in DOMAIN bank : bank'[j] = IF j = k THEN grown ELSE bank[j]
        BY <1>1, <2>1
    <2>5. ASSUME NEW i \in DOMAIN bank', NEW g \in bank'[i].inputs
          PROVE  g.chan = bank'[i].id /\ \E j \in DOMAIN more : more[j] = g
        <3>1. CASE i = k /\ g = f
            BY <1>3, <2>1, <2>3, <2>4, <3>1
        <3>2. CASE i # k \/ g # f
            <4>1. i \in DOMAIN bank /\ g \in bank[i].inputs /\ bank'[i].id = bank[i].id
                BY <2>3, <2>4, <2>5, <3>2
            <4> QED BY <1>2, <4>1 DEF BankFrom
        <3> QED BY <3>1, <3>2
    <2> QED BY <2>5 DEF BankFrom
<1> QED BY <1>4, <1>5 DEF Ingest, more

\* A channel that leaves the bank leaves the others.
LEMMA RemoveFrom ==
    ASSUME BankTyped(bank), NEW k \in DOMAIN bank, NEW read, BankFrom(bank, read)
    PROVE  BankFrom(RemoveAt(bank, k), read)
<1> DEFINE r == RemoveAt(bank, k)
<1>1. \A j \in DOMAIN r : \E i \in DOMAIN bank : r[j] = bank[i]
    BY RemoveFromBank
<1> HIDE DEF r
<1> QED BY <1>1 DEF BankFrom, r

\* With no frame in the stages, the block behind the mark is begun.
LEMMA NextBlockBegun ==
    ASSUME DeriverIInv, datas = <<>>, frameQueue = <<>>, l1Number # 0, l1Number <= Len(l1),
           NEW s \in Seq(Seq(Frames)), NEW t \in Seq(Seq(Frames)), NEW read \in Seq(Frames),
           PlacedAt(s, t, read)
    PROVE  \E u, v \in Seq(Seq(Frames)) :
              /\ l1 = u \o v /\ Len(u) = l1Number
              /\ FlattenSeq(u) = read \o l1[l1Number]
              /\ l1[l1Number] \in Seq(Frames)
<1>2. l1 = s \o t /\ Len(s) = l1Number - 1 /\ FlattenSeq(s) = read /\ BankFrom(bank, read)
    <2>1. FlattenSeq(s) = read \o (<<>> \o <<>>) /\ Len(s) = l1Number - 1
        BY DEF PlacedAt, Mark
    <2>2. read \o (<<>> \o <<>>) = read
        OBVIOUS
    <2> QED BY <2>1, <2>2 DEF PlacedAt
<1>3. l1Number \in Nat /\ Len(t) \in Nat /\ Len(l1) = Len(s) + Len(t) /\ l1[Len(s) + 1] = t[1]
      /\ t # <<>>
    <2>1. l1Number \in Nat
        BY DEF DeriverIInv, AtL1
    <2>2. /\ Len(t) \in Nat /\ Len(l1) = Len(s) + Len(t) /\ Len(s) \in Nat
          /\ \A k \in 1 .. Len(t) : l1[Len(s) + k] = t[k]
        <3>1. s \in Seq(Seq(Frames)) /\ t \in Seq(Seq(Frames)) /\ l1 = s \o t
            BY <1>2
        <3> QED BY ONLY <3>1, ConcatAt
    <2>3. 1 \in 1 .. Len(t)
        BY <1>2, <2>1, <2>2
    <2> QED BY <2>1, <2>2, <2>3
<1> DEFINE d == Head(t)
           u == Append(s, d)
           v == Tail(t)
<1>4. d \in Seq(Frames) /\ v \in Seq(Seq(Frames)) /\ d = l1[l1Number] /\ t = <<d>> \o v
      /\ <<d>> \in Seq(Seq(Frames))
    <2>1. d \in Seq(Frames) /\ v \in Seq(Seq(Frames)) /\ t = <<d>> \o v /\ d = t[1]
        BY <1>3
    <2> QED BY <1>2, <1>3, <2>1
<1>5. u \in Seq(Seq(Frames)) /\ Len(u) = l1Number
    BY <1>2, <1>3, <1>4
<1>6. FlattenSeq(u) = read \o d
    <2> HIDE DEF d
    <2> QED BY <1>2, <1>4, FlattenAppend
<1>7. u = s \o <<d>>
    BY <1>4, AppendIsConcat
<1> HIDE DEF d, u, v
<1>8. l1 = u \o v
    <2> DEFINE y == <<d>>
    <2>1. s \in Seq(Seq(Frames)) /\ y \in Seq(Seq(Frames)) /\ v \in Seq(Seq(Frames))
        BY <1>4
    <2>2. l1 = s \o (y \o v) /\ u = s \o y
        BY <1>2, <1>4, <1>7
    <2> HIDE DEF y
    <2>3. (s \o y) \o v = s \o (y \o v)
        BY ONLY <2>1, ConcatThree, SMTT(60)
    <2> QED BY <2>2, <2>3
<1> QED BY <1>2, <1>4, <1>5, <1>6, <1>8

\* How a pass of the loop changes the frames read, read before it and more after
\* it: not at all, or one is ingested, with nothing in the stages behind.
ReadsOn(l, read, more) ==
    \/ more = read /\ UNCHANGED <<bank, reader, derived>>
    \/ more = read /\ (DecodeBatch(l) \/ OpenChannel(l))
    \/ /\ NeedsFrame(l) \/ deriverAt[l] = "fetch"
       /\ \E f \in Frames : more = Append(read, f) /\ Ingest(f)
       /\ UNCHANGED <<reader, derived>>

PlacedOn(l, read) ==
    \E s, t \in Seq(Seq(Frames)), more \in Seq(Frames) :
        PlacedAt(s, t, more)' /\ ReadsOn(l, read, more)

\* The frames at hand are taken.
LEMMA TakePlaced ==
    ASSUME DeriverIInv, frameQueue = <<>>, NEW l \in Derivations, NEW d \in Seq(Frames), d # <<>>,
           NEW s \in Seq(Seq(Frames)), NEW t \in Seq(Seq(Frames)), NEW read \in Seq(Frames),
           l1 = s \o t, Len(s) = l1Number, FlattenSeq(s) = read \o d, BankFrom(bank, read),
           l1Number # 0, l1' = l1, TakeData(l, d), ~ Throw(l),
           NeedsFrame(l) \/ deriverAt[l] = "fetch"
    PROVE  PlacedOn(l, read)
<1> DEFINE f == Head(d)
<1>0. l1Number \in Nat
    BY DEF DeriverIInv, AtL1
<1>1. f \in Frames /\ Tail(d) \in Seq(Frames) /\ d = <<f>> \o Tail(d) /\ Len(d) \in Nat
      /\ (Len(d) = 1 => d = <<f>>) /\ (Len(d) > 1 => Tail(d) # <<>>)
    <2>1. f \in Frames /\ Tail(d) \in Seq(Frames) /\ Len(d) \in Nat /\ Len(d) # 0
        OBVIOUS
    <2>2. d = <<f>> \o Tail(d)
        OBVIOUS
    <2>3. Len(Tail(d)) = Len(d) - 1
        OBVIOUS
    <2>4. Len(d) > 1 => Tail(d) # <<>>
        <3> DEFINE z == Tail(d)
                   n == Len(d)
        <3>1. Len(<<>>) = 0
            OBVIOUS
        <3>2. n \in Nat /\ Len(z) = n - 1
            BY <2>1, <2>3
        <3> HIDE DEF z, n
        <3>3. n > 1 => z # <<>>
            BY ONLY <3>1, <3>2
        <3> QED BY <3>3 DEF z, n
    <2>5. Len(d) = 1 => d = <<f>>
        OBVIOUS
    <2> QED BY <2>1, <2>2, <2>4, <2>5
<1>2. Append(frameQueue, f) = <<f>> /\ Head(<<f>>) = f /\ Tail(<<f>>) = <<>>
    OBVIOUS
<1> HIDE DEF f
<1>3. CASE /\ Len(d) = 1
           /\ frameQueue' = <<f>>
           /\ datas' = <<>>
           /\ l1Number' = l1Number + 1
           /\ UNCHANGED <<bank, reader, derived>>
    <2>1. Mark' = l1Number
        BY <1>0, <1>3 DEF Mark
    <2>2. frameQueue' \o datas' = d
        <3>1. <<f>> \o <<>> = <<f>>
            BY <1>1
        <3> QED BY <1>1, <1>3, <3>1
    <2>3. PlacedAt(s, t, read)'
        BY <1>3, <2>1, <2>2 DEF PlacedAt
    <2> QED BY <1>3, <2>3 DEF PlacedOn, ReadsOn
<1>4. CASE /\ Len(d) > 1
           /\ Ingest(f)
           /\ frameQueue' = <<>>
           /\ datas' = Tail(d)
           /\ UNCHANGED <<l1Number, reader, derived>>
    <2> DEFINE more == Append(read, f)
    <2>1. Mark' = l1Number
        BY <1>1, <1>4 DEF Mark
    <2>2. BankFrom(bank', more)
        BY <1>1, <1>4, IngestFrom DEF DeriverIInv, StagesTyped
    <2>3. more = read \o <<f>> /\ more \in Seq(Frames) /\ <<f>> \in Seq(Frames)
        <3>1. f \in Frames /\ read \in Seq(Frames)
            BY <1>1
        <3> QED BY ONLY <3>1, AppendIsConcat, SMTT(30)
    <2>4. frameQueue' \o datas' = Tail(d)
        <3>1. <<>> \o Tail(d) = Tail(d)
            BY <1>1
        <3> QED BY <1>4, <3>1
    <2>7. ReadsOn(l, read, more)
        BY <1>1, <1>4 DEF ReadsOn
    <2> HIDE DEF more
    <2>5. read \o d = more \o Tail(d)
        <3> DEFINE y == <<f>>
                   z == Tail(d)
        <3>1. read \in Seq(Frames) /\ y \in Seq(Frames) /\ z \in Seq(Frames)
            BY <1>1, <2>3
        <3>2. d = y \o z /\ more = read \o y
            BY <1>1, <2>3
        <3> HIDE DEF y, z
        <3>3. (read \o y) \o z = read \o (y \o z)
            BY ONLY <3>1, FramesInARow, Zenon
        <3> QED BY <3>2, <3>3 DEF z
    <2>6. PlacedAt(s, t, more)'
        BY <1>4, <2>1, <2>2, <2>4, <2>5 DEF PlacedAt
    <2> QED BY <2>3, <2>6, <2>7 DEF PlacedOn
<1> QED BY <1>2, <1>3, <1>4 DEF TakeData, delivery, f

\* A step that moves no frame.
LEMMA PlacedSame ==
    ASSUME NEW s, NEW t, NEW read, PlacedAt(s, t, read),
           UNCHANGED <<l1, l1Number, datas, frameQueue, bank>>
    PROVE  PlacedAt(s, t, read)'
BY DEF PlacedAt, Mark

LEMMA PlacedStays ==
    ASSUME Placed, UNCHANGED <<l1, l1Number, datas, frameQueue, bank>>
    PROVE  Placed'
BY PlacedSame DEF Placed

\* Every pass of the loop keeps count of the frames.
LEMMA DerivePlaced ==
    ASSUME DeriverIInv, NEW l \in Derivations, Derive(l),
           NEW s \in Seq(Seq(Frames)), NEW t \in Seq(Seq(Frames)), NEW read \in Seq(Frames),
           PlacedAt(s, t, read)
    PROVE  PlacedOn(l, read)
<1>0. /\ BankTyped(bank) /\ l1Number \in Nat /\ Len(l1) \in Nat /\ l1 \in Seq(Seq(Frames))
      /\ datas \in Seq(Frames) /\ frameQueue \in Seq(Frames)
    BY DEF DeriverIInv, StagesTyped, AtL1
<1>8. ASSUME UNCHANGED <<l1, l1Number, datas, frameQueue, bank, reader, derived>>
      PROVE  PlacedOn(l, read)
    <2>1. PlacedAt(s, t, read)'
        BY <1>8, PlacedSame
    <2> QED BY <1>8, <2>1 DEF PlacedOn, ReadsOn
<1>9. ASSUME Throw(l), l1' = l1 PROVE PlacedOn(l, read)
    BY <1>8, <1>9 DEF Throw, stages, delivery
<1>1. CASE DecodeBatch(l)
    <2>1. UNCHANGED <<l1, l1Number, datas, frameQueue, bank>>
        BY <1>1 DEF DecodeBatch, ReadBatch, Throw, stages
    <2>2. PlacedAt(s, t, read)'
        BY <2>1, PlacedSame
    <2> QED BY <1>1, <2>2 DEF PlacedOn, ReadsOn
<1>2. CASE OpenChannel(l)
    <2>1. PICK k \in ReadyAt :
              /\ UNCHANGED <<l1, l1Number, datas, frameQueue>>
              /\ bank' = RemoveAt(bank, k) \/ bank' = bank
        BY <1>2 DEF OpenChannel, ReadBatch, Throw, stages
    <2>2. k \in DOMAIN bank
        BY DEF ReadyAt
    <2>3. BankFrom(bank', read)
        <3>1. BankFrom(bank, read)
            BY DEF PlacedAt
        <3> QED BY <1>0, <2>1, <2>2, <3>1, RemoveFrom
    <2>4. PlacedAt(s, t, read)'
        BY <2>1, <2>3 DEF PlacedAt, Mark
    <2> QED BY <1>2, <2>4 DEF PlacedOn, ReadsOn
<1>3. CASE IngestQueued(l)
    <2>1. CASE Throw(l)
        BY <1>3, <1>9, <2>1 DEF IngestQueued
    <2>2. CASE /\ Ingest(Head(frameQueue))
               /\ frameQueue' = Tail(frameQueue)
               /\ UNCHANGED <<l1, l1Number, datas, reader, derived>>
        <3>0. Head(frameQueue) \in Frames /\ Tail(frameQueue) \in Seq(Frames)
              /\ frameQueue = <<Head(frameQueue)>> \o Tail(frameQueue)
            BY <1>0, <1>3 DEF IngestQueued
        <3>9. PICK f \in Frames, z \in Seq(Frames) :
                  f = Head(frameQueue) /\ z = Tail(frameQueue) /\ frameQueue = <<f>> \o z
            BY <3>0
        <3> DEFINE y == <<f>>
        <3>1. f \in Frames /\ y \in Seq(Frames) /\ z \in Seq(Frames) /\ frameQueue = y \o z
            BY <3>9
        <3> DEFINE more == Append(read, f)
        <3>3. BankFrom(bank', more)
            <4>1. Ingest(f) /\ BankFrom(bank, read)
                BY <2>2, <3>9 DEF PlacedAt
            <4> QED BY <1>0, <3>1, <4>1, IngestFrom
        <3>4. more = read \o y /\ more \in Seq(Frames)
            BY <3>1, AppendIsConcat
        <3>5. frameQueue' = z
            BY <2>2, <3>9
        <3>8. ReadsOn(l, read, more)
            BY <1>3, <2>2, <3>9 DEF ReadsOn, IngestQueued
        <3> HIDE DEF more, y
        <3>6. read \o ((y \o z) \o datas) = (read \o y) \o (z \o datas)
            <4>1. (y \o z) \o datas = y \o (z \o datas) /\ z \o datas \in Seq(Frames)
                BY ONLY <1>0, <3>1, FramesInARow, SMTT(60)
            <4>2. read \o (y \o (z \o datas)) = (read \o y) \o (z \o datas)
                <5>1. read \in Seq(Frames) /\ y \in Seq(Frames) /\ z \o datas \in Seq(Frames)
                    BY <3>1, <4>1
                <5> QED BY ONLY <5>1, FramesInARow, Zenon
            <4> QED BY <4>1, <4>2
        <3>7. PlacedAt(s, t, more)'
            BY <2>2, <3>1, <3>3, <3>4, <3>5, <3>6 DEF PlacedAt, Mark
        <3> QED BY <3>4, <3>7, <3>8 DEF PlacedOn
    <2> QED BY <1>3, <2>1, <2>2 DEF IngestQueued, delivery
<1>4. CASE SplitDatas(l)
    <2>1. /\ l1' = l1 /\ frameQueue = <<>> /\ datas # <<>> /\ TakeData(l, datas) /\ NeedsFrame(l)
        BY <1>4 DEF SplitDatas
    <2>3. l1 = s \o t /\ Len(s) = l1Number /\ FlattenSeq(s) = read \o datas /\ BankFrom(bank, read)
        <3>1. <<>> \o datas = datas
            BY <1>0
        <3> QED BY <2>1, <3>1 DEF PlacedAt, Mark
    <2>4. l1Number # 0
        <3>1. CASE l1Number = 0
            <4>1. s = <<>>
                BY <2>3, <3>1
            <4>2. read \o datas = <<>>
                BY <2>3, <4>1, FlattenEmpty
            <4>3. Len(read \o datas) = Len(read) + Len(datas) /\ Len(datas) # 0 /\ Len(read) \in Nat
                  /\ Len(datas) \in Nat
                BY <1>0, <2>1
            <4>4. Len(<<>>) = 0
                OBVIOUS
            <4> QED BY <4>2, <4>3, <4>4
        <3> QED BY <3>1
    <2>5. CASE ~ Throw(l)
        BY <1>0, <2>1, <2>3, <2>4, <2>5, TakePlaced
    <2> QED BY <1>9, <2>1, <2>5
<1>5. CASE Fetch(l)
    <2>1. UNCHANGED <<l1, l1Number, datas, frameQueue, bank, reader, derived>>
        BY <1>5 DEF Fetch, stages, delivery
    <2> QED BY <1>8, <2>1
<1>6. CASE FetchReply(l)
    <2>1. /\ l1' = l1 /\ asked[l] = l1Number /\ datas = <<>> /\ frameQueue = <<>>
          /\ deriverAt[l] = "fetch"
        BY <1>6 DEF FetchReply, DeriverIInv, Fetching
    <2>2. CASE UNCHANGED <<l1Number, stages, delivery>>
        <3>1. UNCHANGED <<l1, l1Number, datas, frameQueue, bank, reader, derived>>
            BY <2>1, <2>2 DEF stages, delivery
        <3> QED BY <1>8, <3>1
    <2>3. CASE /\ asked[l] <= Len(l1)
               /\ FramesAt(asked[l]) = <<>>
               /\ l1Number' = l1Number + 1
               /\ UNCHANGED <<stages, delivery>>
        <3>1. UNCHANGED <<datas, frameQueue, bank, reader, derived>>
            BY <2>3 DEF stages, delivery
        <3>2. CASE l1Number = 0
            <4>1. Mark' = Mark
                BY <2>1, <2>3, <3>1, <3>2 DEF Mark
            <4>2. PlacedAt(s, t, read)'
                BY <2>1, <3>1, <4>1 DEF PlacedAt
            <4> QED BY <3>1, <4>2 DEF PlacedOn, ReadsOn
        <3>3. CASE l1Number # 0
            <4>1. l1[l1Number] = <<>> /\ l1Number <= Len(l1)
                BY <2>1, <2>3, <3>3 DEF FramesAt
            <4>2. PICK u \in Seq(Seq(Frames)), v \in Seq(Seq(Frames)) :
                      /\ l1 = u \o v /\ Len(u) = l1Number
                      /\ FlattenSeq(u) = read \o <<>>
                BY <2>1, <3>3, <4>1, NextBlockBegun
            <4>3. Mark' = l1Number
                BY <1>0, <2>1, <2>3, <3>1 DEF Mark
            <4>4. <<>> \o <<>> = <<>>
                OBVIOUS
            <4>5. PlacedAt(u, v, read)'
                BY <2>1, <3>1, <4>2, <4>3, <4>4 DEF PlacedAt
            <4> QED BY <3>1, <4>5 DEF PlacedOn, ReadsOn
        <3> QED BY <3>2, <3>3
    <2>4. CASE /\ asked[l] <= Len(l1)
               /\ FramesAt(asked[l]) # <<>>
               /\ TakeData(l, FramesAt(asked[l]))
        <3> DEFINE d == l1[l1Number]
        <3>1. l1Number # 0 /\ l1Number <= Len(l1) /\ d # <<>> /\ TakeData(l, d)
            BY <2>1, <2>4 DEF FramesAt
        <3>2. PICK u \in Seq(Seq(Frames)), v \in Seq(Seq(Frames)) :
                  /\ l1 = u \o v /\ Len(u) = l1Number
                  /\ FlattenSeq(u) = read \o d
                  /\ d \in Seq(Frames)
            BY <2>1, <3>1, NextBlockBegun
        <3>3. BankFrom(bank, read)
            BY DEF PlacedAt
        <3> HIDE DEF d
        <3>4. CASE ~ Throw(l)
            BY <2>1, <3>1, <3>2, <3>3, <3>4, TakePlaced
        <3> QED BY <1>9, <2>1, <3>4
    <2> QED BY <1>6, <2>2, <2>3, <2>4 DEF FetchReply
<1>7. CASE DeriverWake(l)
    <2>1. UNCHANGED <<l1, l1Number, datas, frameQueue, bank, reader, derived>>
        BY <1>7 DEF DeriverWake, stages, delivery
    <2> QED BY <1>8, <2>1
<1> QED BY <1>1, <1>2, <1>3, <1>4, <1>5, <1>6, <1>7 DEF Derive

\* More blocks on L1 are more to read.
LEMMA PlacedMine ==
    ASSUME CallIInv, ~ overlapped, l1 \in Seq(Seq(Frames)), NEW k \in 0 .. MaxBlockTxs, MineL1(k),
           NEW s \in Seq(Seq(Frames)), NEW t \in Seq(Seq(Frames)), NEW read, PlacedAt(s, t, read)
    PROVE  \E u \in Seq(Seq(Frames)) : PlacedAt(s, u, read)'
<1> DEFINE m == SubSeq(outbox, 1, k)
<1>1. k \in Nat
    BY PipelineAssumption DEF PipelineAssumption
<1>2. m \in Seq(Frames)
    BY <1>1, MineIInv
<1>3. l1' = Append(l1, m) /\ UNCHANGED <<l1Number, datas, frameQueue, bank>>
    BY DEF MineL1, stages
<1> HIDE DEF m
<1>4. PICK u \in Seq(Seq(Frames)) : l1' = s \o u
    <2> DEFINE y == <<m>>
               u == Append(t, m)
    <2>1. y \in Seq(Seq(Frames)) /\ u \in Seq(Seq(Frames)) /\ u = t \o y
        BY <1>2, AppendIsConcat
    <2>2. l1' = (s \o t) \o y
        <3>1. l1 = s \o t
            BY DEF PlacedAt
        <3> QED BY <1>2, <1>3, <3>1, AppendIsConcat
    <2> HIDE DEF y, u
    <2>3. (s \o t) \o y = s \o (t \o y)
        <3>1. s \in Seq(Seq(Frames)) /\ t \in Seq(Seq(Frames)) /\ y \in Seq(Seq(Frames))
            BY <2>1
        <3> QED BY ONLY <3>1, ConcatThree, SMTT(60)
    <2> QED BY <2>1, <2>2, <2>3
<1>5. PlacedAt(s, u, read)'
    BY <1>3, <1>4 DEF PlacedAt, Mark
<1> QED BY <1>5

\* A new process has read nothing.
LEMMA PlacedBoot ==
    ASSUME datas' = <<>>, frameQueue' = <<>>, bank' = <<>>, l1Number' = 0,
           NEW t \in Seq(Seq(Frames)), l1' = t
    PROVE  PlacedAt(<<>>, t, <<>>)'
<1>1. /\ <<>> \o t = t /\ Len(<<>>) = 0 /\ <<>> \o (<<>> \o <<>>) = <<>>
    OBVIOUS
<1>2. BankFrom(<<>>, <<>>)
    BY DEF BankFrom
<1>3. Mark' = 0
    BY DEF Mark
<1> QED BY <1>1, <1>2, <1>3, FlattenEmpty DEF PlacedAt

\* Every step does.
LEMMA PlacedStep ==
    ASSUME OneDerivation, PipeTypeIInv, PlacedIInv, [PipelineNext]_pipelineVars
    PROVE  PlacedIInv'
<1>0. Placed /\ Starting /\ DeriverIInv /\ CallIInv /\ ~ overlapped
    BY DEF PlacedIInv, PipeTypeIInv
<1>1. CASE UNCHANGED deriverVars
    <2>1. UNCHANGED <<l1, l1Number, datas, frameQueue, bank, deriverAt>>
        BY <1>1 DEF deriverVars, stages
    <2> QED BY <1>0, <2>1, PlacedStays DEF PlacedIInv, Starting
<1>2. ASSUME NEW k \in 0 .. MaxBlockTxs, MineL1(k) PROVE PlacedIInv'
    <2>1. PICK s \in Seq(Seq(Frames)), t \in Seq(Seq(Frames)), read \in Seq(Frames) : PlacedAt(s, t, read)
        BY <1>0 DEF Placed
    <2>2. PICK u \in Seq(Seq(Frames)) : PlacedAt(s, u, read)'
        BY <1>0, <1>2, <2>1, PlacedMine DEF DeriverIInv
    <2>3. UNCHANGED <<l1Number, deriverAt>>
        BY <1>2 DEF MineL1
    <2> QED BY <1>0, <2>2, <2>3 DEF PlacedIInv, Placed, Starting
<1>3. CASE /\ deriving' = FALSE
           /\ UNCHANGED <<l1, deriverAt, asked, l1Number, stages, delivery>>
    <2>1. UNCHANGED <<l1, l1Number, datas, frameQueue, bank, deriverAt>>
        BY <1>3 DEF stages
    <2> QED BY <1>0, <2>1, PlacedStays DEF PlacedIInv, Starting
<1>4. ASSUME NEW l \in Derivations, DerivateStart(l) PROVE PlacedIInv'
    <2>1. UNCHANGED <<l1, l1Number, datas, frameQueue, bank>>
        BY <1>4 DEF DerivateStart, stages
    <2>2. \/ l1Number = 0
          \/ deriverAt' = [deriverAt EXCEPT ![l] = "next"]
        BY <1>4 DEF DerivateStart, Goto
    <2>3. Starting'
        <3>1. deriverAt \in [Derivations -> DeriverPlaces]
            BY <1>0 DEF DeriverIInv
        <3> QED BY <1>0, <2>1, <2>2, <3>1 DEF Starting
    <2> QED BY <1>0, <2>1, <2>3, PlacedStays DEF PlacedIInv
<1>5. CASE DeriverBoot /\ l1' = l1
    <2>1. /\ datas' = <<>> /\ frameQueue' = <<>> /\ bank' = <<>> /\ l1Number' = 0
          /\ l1' = l1 /\ l1 \in Seq(Seq(Frames))
        BY <1>0, <1>5 DEF DeriverBoot, DeriverIInv
    <2>2. PICK t \in Seq(Seq(Frames)) : l1' = t
        BY <2>1
    <2>3. PlacedAt(<<>>, t, <<>>)'
        BY <2>1, <2>2, PlacedBoot
    <2>4. <<>> \in Seq(Seq(Frames)) /\ <<>> \in Seq(Frames)
        OBVIOUS
    <2> QED BY <2>1, <2>3, <2>4 DEF PlacedIInv, Placed, Starting
<1>6. ASSUME NEW l \in Derivations, StartReply(l, 0) PROVE PlacedIInv'
    <2>1. deriverAt[l] = "starting" /\ l1Number' = 0 /\ UNCHANGED <<l1, datas, frameQueue, bank>>
        BY <1>6 DEF StartReply, stages
    <2>2. l1Number' = l1Number
        BY <1>0, <2>1 DEF Starting
    <2> QED BY <1>0, <2>1, <2>2, PlacedStays DEF PlacedIInv, Starting
<1>7. ASSUME NEW l \in Derivations, Derive(l) PROVE PlacedIInv'
    <2>1. Placed'
        <3>1. PICK s \in Seq(Seq(Frames)), t \in Seq(Seq(Frames)), read \in Seq(Frames) : PlacedAt(s, t, read)
            BY <1>0 DEF Placed
        <3>2. PlacedOn(l, read)
            BY <1>0, <1>7, <3>1, DerivePlaced
        <3> QED BY <3>2 DEF PlacedOn, Placed
    <2>2. \A m \in Derivations : deriverAt'[m] # "starting"
        <3>1. \E place \in {"next", "idle", "sleep", "fetch", "thrown"} : Goto(l, place)
            BY <1>7 DEF Derive, DecodeBatch, OpenChannel, IngestQueued, SplitDatas, Fetch, FetchReply,
                        DeriverWake, ReadBatch, TakeData, Throw, Continue
        <3>2. deriverAt \in [Derivations -> DeriverPlaces]
            BY <1>0 DEF DeriverIInv
        <3> QED BY <3>1, <3>2 DEF Goto, OneDerivation
    <2> QED BY <2>1, <2>2 DEF PlacedIInv, Starting
<1> QED BY <1>1, <1>2, <1>3, <1>4, <1>5, <1>6, <1>7, DeriverPart

\* And the first state is in order.
LEMMA PlacedInit == PipelineInit => PlacedIInv
<1> SUFFICES ASSUME PipelineInit PROVE PlacedIInv
    OBVIOUS
<1>1. /\ datas = <<>> /\ frameQueue = <<>> /\ bank = <<>> /\ l1Number = 0 /\ l1 = <<>>
    BY DEF PipelineInit, DeriverInit
<1>2. /\ <<>> \o <<>> = <<>> /\ Len(<<>>) = 0 /\ <<>> \o (<<>> \o <<>>) = <<>>
      /\ <<>> \in Seq(Seq(Frames)) /\ <<>> \in Seq(Frames)
    OBVIOUS
<1>3. BankFrom(<<>>, <<>>)
    BY DEF BankFrom
<1>4. Mark = 0
    BY <1>1 DEF Mark
<1>5. PlacedAt(<<>>, <<>>, <<>>)
    BY <1>1, <1>2, <1>3, <1>4, FlattenEmpty DEF PlacedAt
<1> QED BY <1>1, <1>2, <1>5 DEF PlacedIInv, Placed, Starting

-----------------------------------------------------------------------------
(* No frame on L1 makes the deriver throw. *)

\* Some frame on L1 is a last one that is full.
SomeLastFull == \E f \in FramesOnL1 : f.isLast /\ Len(f.data) = MaxData

\* None of these frames is.
NoLastFull(fs) == \A j \in DOMAIN fs : fs[j].isLast => Len(fs[j].data) # MaxData

\* With no full last frame on L1 there is none in the sequence of its frames.
LEMMA NoneOnL1 ==
    ASSUME l1 \in Seq(Seq(Frames)), ~ SomeLastFull
    PROVE  NoLastFull(FlattenSeq(l1))
<1> DEFINE fs == FlattenSeq(l1)
<1> SUFFICES ASSUME NEW j \in DOMAIN fs PROVE fs[j] \in FramesOnL1
    BY DEF SomeLastFull, NoLastFull
<1>1. PICK n \in DOMAIN l1 : \E i \in DOMAIN l1[n] : fs[j] = l1[n][i]
    BY FlattenMembers
<1> HIDE DEF fs
<1> QED BY <1>1 DEF FramesOnL1, ToSet

\* The next frame fits the bank.
LEMMA FitsNext ==
    ASSUME NEW read \in Seq(Frames), NEW f \in Frames, NEW rest \in Seq(Frames), NEW fs,
           fs = read \o (<<f>> \o rest), FullBefore(fs), NoLastFull(fs), BankFrom(bank, read)
    PROVE  Fits(f)
<1> DEFINE y == <<f>>
           v == y \o rest
           n == Len(read)
<1>1. v \in Seq(Frames) /\ v[1] = f /\ Len(v) \in Nat /\ Len(v) >= 1
    <2>1. y \in Seq(Frames) /\ rest \in Seq(Frames) /\ Len(y) = 1 /\ y[1] = f /\ Len(rest) \in Nat
        OBVIOUS
    <2> HIDE DEF y
    <2>2. v \in Seq(Frames) /\ Len(v) = 1 + Len(rest)
        <3>1. v \in Seq(Frames)
            BY ONLY <2>1, ConcatAt DEF v
        <3>2. Len(v) = Len(y) + Len(rest)
            BY ONLY <2>1, ConcatAt DEF v
        <3> QED BY <2>1, <3>1, <3>2
    <2>3. \A k \in 1 .. 1 : v[k] = y[k]
        BY ONLY <2>1, ConcatAt DEF v
    <2> QED BY <2>1, <2>2, <2>3
<1> HIDE DEF v
<1>2. /\ n \in Nat /\ DOMAIN fs = 1 .. n + Len(v)
      /\ \A k \in 1 .. n : fs[k] = read[k]
      /\ fs[n + 1] = f
    <2>1. read \in Seq(Frames) /\ v \in Seq(Frames) /\ fs = read \o v
        BY <1>1 DEF v
    <2>2. n \in Nat /\ DOMAIN fs = 1 .. n + Len(v)
        BY ONLY <2>1, ConcatAt
    <2>3. \A k \in 1 .. n : fs[k] = read[k]
        BY ONLY <2>1, ConcatAt
    <2>4. \A k \in 1 .. Len(v) : fs[n + k] = v[k]
        BY ONLY <2>1, ConcatAt
    <2>5. 1 \in 1 .. Len(v)
        BY <1>1
    <2> QED BY <1>1, <2>2, <2>3, <2>4, <2>5
<1>3. DOMAIN read = 1 .. n
    OBVIOUS
<1> HIDE DEF n
<1> SUFFICES ASSUME NEW k \in DOMAIN bank, bank[k].id = f.chan PROVE Accepts(bank[k], f)
    BY DEF Fits
<1>4. ASSUME NEW g \in bank[k].inputs PROVE g.num # f.num /\ ~ g.isLast
    <2>1. g.chan = f.chan /\ \E j \in DOMAIN read : read[j] = g
        BY <1>4 DEF BankFrom
    <2>2. PICK j \in 1 .. n : read[j] = g
        BY <1>3, <2>1
    <2>3. fs[j] = g /\ j \in 1 .. (n + 1) - 1 /\ n + 1 \in DOMAIN fs /\ j \in DOMAIN fs
        <3>1. /\ n \in Nat /\ Len(v) \in Nat /\ Len(v) >= 1
              /\ DOMAIN fs = 1 .. n + Len(v) /\ j \in 1 .. n
            BY <1>1, <1>2
        <3>2. j \in 1 .. (n + 1) - 1 /\ n + 1 \in DOMAIN fs /\ j \in DOMAIN fs
            BY ONLY <3>1
        <3>3. fs[j] = g
            BY <1>2, <2>2
        <3> QED BY <3>2, <3>3
    <2>4. g.num < f.num /\ Len(g.data) = MaxData
        BY <1>2, <2>1, <2>3 DEF FullBefore
    <2>5. f.num \in Nat
        BY DEF Frames
    <2>6. ~ g.isLast
        BY <2>3, <2>4 DEF NoLastFull
    <2>7. g.num # f.num
        BY <2>4, <2>5
    <2> QED BY <2>6, <2>7
<1> QED BY <1>4 DEF Accepts, NumbersIn, LastFrames

\* A channel of the bank that is ready is whole, and holds the bytes of blocks.
LEMMA ReadyIsWhole ==
    ASSUME NEW fs \in Seq(Frames), FullBefore(fs), NoLastFull(fs),
           NEW pieces \in [Nat -> Seq(Seq(Block))], NEW content \in [Nat -> Seq(Block)],
           \A i \in DOMAIN fs : Carries(fs[i], pieces),
           \A c \in Nat : CutFrom(pieces[c], content[c]),
           NEW ch \in Channels, IsReady(ch),
           \A f \in ch.inputs : f.chan = ch.id /\ \E j \in DOMAIN fs : fs[j] = f
    PROVE  Readable(ch) /\ ChannelData(ch) = Packed(content[ch.id])
<1> DEFINE e == EndFrameNumber(ch)
           ps == pieces[ch.id]
           x == CHOOSE f \in LastFrames(ch) : TRUE
<1>1. ch.id \in Nat /\ ch.inputs \subseteq Frames
    BY DEF Channels
<1>2. ps \in Seq(Seq(Block)) /\ Len(ps) \in Nat /\ DOMAIN ps = 1 .. Len(ps) /\ CutFrom(ps, content[ch.id])
    <2>1. ps \in Seq(Seq(Block))
        BY <1>1
    <2>2. CutFrom(ps, content[ch.id])
        BY <1>1
    <2> HIDE DEF ps
    <2>3. Len(ps) \in Nat /\ DOMAIN ps = 1 .. Len(ps)
        BY <2>1
    <2> QED BY <2>1, <2>2, <2>3
<1>3. x \in ch.inputs /\ x.isLast /\ e = x.num
    <2>1. LastFrames(ch) # {}
        BY DEF IsReady
    <2>2. x \in LastFrames(ch)
        BY <2>1
    <2> QED BY <2>2 DEF LastFrames, EndFrameNumber
<1> HIDE DEF e, ps, x
<1>4. ASSUME NEW f \in ch.inputs
      PROVE  /\ f.num \in Nat /\ f.num + 1 \in 1 .. Len(ps) /\ f.data = ps[f.num + 1]
             /\ f.isLast => Len(f.data) # MaxData
    <2>1. f.num \in Nat
        BY <1>1 DEF Frames
    <2>2. PICK j \in DOMAIN fs : fs[j] = f
        BY <1>4
    <2>3. Carries(f, pieces) /\ f.chan = ch.id
        BY <1>4, <2>2
    <2> QED BY <1>2, <2>1, <2>2, <2>3 DEF Carries, ps, NoLastFull
<1>5. e \in Nat /\ e + 1 = Len(ps) /\ Len(ps) # 0 /\ Len(ps[Len(ps)]) # MaxData
    <2>1. e \in Nat /\ e + 1 \in 1 .. Len(ps) /\ Len(ps[e + 1]) # MaxData
        BY <1>3, <1>4
    <2>2. \A k \in 1 .. Len(ps) - 1 : Len(ps[k]) = MaxData
        BY <1>2 DEF CutFrom
    <2>3. e + 1 \notin 1 .. Len(ps) - 1
        BY <2>1, <2>2
    <2> DEFINE k == Len(ps)
    <2>4. k \in Nat /\ e \in Nat /\ e + 1 \in 1 .. k /\ e + 1 \notin 1 .. k - 1
        BY <1>2, <2>1, <2>3
    <2> HIDE DEF k
    <2>5. e + 1 = k /\ k # 0
        BY ONLY <2>4
    <2> QED BY <2>1, <2>5 DEF k
<1>6. FlattenSeq(ps) = Packed(content[ch.id])
    BY <1>2, <1>5 DEF CutFrom
<1>7. \A f \in ch.inputs : f.num \in 0 .. e
    <2> SUFFICES ASSUME NEW f \in ch.inputs PROVE f.num \in 0 .. e
        OBVIOUS
    <2> DEFINE n == f.num
               k == Len(ps)
    <2>1. n \in Nat /\ n + 1 \in 1 .. k /\ e \in Nat /\ e + 1 = k
        BY <1>4, <1>5
    <2> HIDE DEF n, k
    <2>2. n \in 0 .. e
        BY ONLY <2>1
    <2> QED BY <2>2 DEF n
<1>8. Readable(ch)
    <2>1. CASE 0 .. e \subseteq NumbersIn(ch)
        BY <2>1 DEF Readable, e
    <2>2. CASE Cardinality(ch.inputs) = e + 1
        <3> DEFINE num == [f \in ch.inputs |-> f.num]
        <3>1. ASSUME NEW f \in ch.inputs, NEW g \in ch.inputs, f.num = g.num PROVE f = g
            <4> DEFINE n == f.num
                       m == g.num
                       len == Len(fs)
            <4>1. DOMAIN fs = 1 .. len /\ len \in Nat
                OBVIOUS
            <4>2. PICK i \in 1 .. len, j \in 1 .. len : fs[i] = f /\ fs[j] = g
                <5>1. \E i \in DOMAIN fs : fs[i] = f
                    BY <3>1
                <5>2. \E j \in DOMAIN fs : fs[j] = g
                    BY <3>1
                <5> QED BY ONLY <4>1, <5>1, <5>2, Zenon
            <4>3. f.chan = g.chan
                <5>1. f.chan = ch.id /\ g.chan = ch.id
                    BY <3>1
                <5> QED BY <5>1
            <4>4. n \in Nat /\ m \in Nat /\ n = m
                BY <1>4, <3>1
            <4>5. ASSUME i \in 1 .. j - 1 PROVE n < m
                BY <4>1, <4>2, <4>3, <4>5 DEF FullBefore
            <4>6. ASSUME j \in 1 .. i - 1 PROVE m < n
                BY <4>1, <4>2, <4>3, <4>6 DEF FullBefore
            <4> HIDE DEF n, m, len
            <4>7. i \notin 1 .. j - 1 /\ j \notin 1 .. i - 1
                BY <4>4, <4>5, <4>6
            <4>8. i = j
                BY ONLY <4>1, <4>7, i \in 1 .. len, j \in 1 .. len
            <4> QED BY <4>2, <4>8
        <3>2. num \in Injection(ch.inputs, 0 .. e)
            <4>1. num \in [ch.inputs -> 0 .. e] /\ \A f \in ch.inputs : num[f] = f.num
                BY <1>7
            <4>2. \A f, g \in ch.inputs : num[f] = num[g] => f = g
                BY ONLY <3>1, <4>1
            <4> HIDE DEF num
            <4> QED BY ONLY <4>1, <4>2 DEF Injection, IsInjective
        <3>3. IsFiniteSet(0 .. e) /\ Cardinality(0 .. e) = e + 1
            <4>1. 0 \in Int /\ e \in Int /\ e \in Nat
                BY <1>5
            <4>2. IsFiniteSet(0 .. e) /\ Cardinality(0 .. e) = IF 0 > e THEN 0 ELSE e - 0 + 1
                BY ONLY <4>1, FS_Interval
            <4> QED BY <4>1, <4>2
        <3>4. num \in Surjection(ch.inputs, 0 .. e)
            <4> HIDE DEF num
            <4> QED BY <2>2, <3>2, <3>3, FS_Injection
        <3>5. \A n \in 0 .. e : \E f \in ch.inputs : f.num = n
            BY <3>4 DEF Surjection
        <3> QED BY <3>5 DEF Readable, NumbersIn, e
    <2> QED BY <2>1, <2>2 DEF IsReady, e
<1>9. [i \in 1 .. e + 1 |-> FrameNumbered(ch, i - 1).data] = ps
    <2>1. ASSUME NEW i \in 1 .. e + 1 PROVE FrameNumbered(ch, i - 1).data = ps[i]
        <3>1. i - 1 \in 0 .. e /\ (i - 1) + 1 = i
            <4>1. e \in Nat /\ i \in 1 .. e + 1
                BY <1>5
            <4> QED BY ONLY <4>1
        <3>2. LastFrames(ch) # {}
            BY DEF IsReady
        <3>3. FrameNumbered(ch, i - 1) \in ch.inputs /\ FrameNumbered(ch, i - 1).num = i - 1
            BY <1>8, <3>1, <3>2, ChannelDataType DEF e
        <3> HIDE DEF FrameNumbered
        <3> QED BY <1>4, <3>1, <3>3
    <2>2. DOMAIN ps = 1 .. e + 1
        BY <1>2, <1>5
    <2>3. \A i \in 1 .. e + 1 : FrameNumbered(ch, i - 1).data = ps[i]
        BY <2>1
    <2>4. ps = [i \in DOMAIN ps |-> ps[i]]
        BY <1>2
    <2> QED BY <2>2, <2>3, <2>4, Zenon
<1>10. ChannelData(ch) = FlattenSeq(ps)
    <2> DEFINE gs == [i \in 1 .. e + 1 |-> FrameNumbered(ch, i - 1)]
    <2>1. [k \in DOMAIN gs |-> gs[k].data] = [i \in 1 .. e + 1 |-> FrameNumbered(ch, i - 1).data]
        OBVIOUS
    <2>2. ChannelData(ch) = DataOf(gs)
        BY DEF ChannelData, e
    <2>3. DataOf(gs) = FlattenSeq([k \in DOMAIN gs |-> gs[k].data])
        BY DEF DataOf
    <2> HIDE DEF gs
    <2> QED BY <1>9, <2>1, <2>2, <2>3
<1> QED BY <1>6, <1>8, <1>10

\* The data being read is the bytes of some blocks.
ReaderWhole == reader = <<>> \/ \E bs \in Seq(Block) : reader = <<Packed(bs)>>

\* The inductive invariant of NeverThrows.
NoThrowIInv ==
    /\ PipeTypeIInv /\ ChainIInv /\ PlacedIInv
    /\ SomeLastFull \/ (NeverThrows /\ ReaderWhole)

\* What is known of the chain holds of the frames on L1.
LEMMA FramesMined ==
    ASSUME PipeTypeIInv, ChainIInv
    PROVE  /\ FlattenSeq(l1) \in Seq(Frames)
           /\ OrderedIn(FlattenSeq(l1), channelQueue, nextId)
           /\ Contents(FlattenSeq(l1), channelQueue, nextId)
<1> DEFINE fl == FlattenSeq(l1)
<1>1. fl \in Seq(Frames) /\ AllFrames \in Seq(Frames)
    BY ChainTyped
<1>2. OrderedIn(fl \o AllFrames, channelQueue, nextId) /\ Contents(fl \o AllFrames, channelQueue, nextId)
    BY DEF ChainIInv, Chain
<1> HIDE DEF fl
<1>3. OrderedIn(fl, channelQueue, nextId) /\ Contents(fl, channelQueue, nextId)
    BY <1>1, <1>2, FrontOfChain
<1> QED BY <1>1, <1>3 DEF fl

\* The next frame of a block on L1 fits.
LEMMA NextFits ==
    ASSUME PipeTypeIInv, ChainIInv, ~ SomeLastFull,
           NEW s \in Seq(Seq(Frames)), NEW t \in Seq(Seq(Frames)), NEW read \in Seq(Frames),
           NEW f \in Frames, NEW rest \in Seq(Frames),
           l1 = s \o t, FlattenSeq(s) = read \o (<<f>> \o rest), BankFrom(bank, read)
    PROVE  Fits(f)
<1> DEFINE fl == FlattenSeq(l1)
           y == <<f>>
           z == FlattenSeq(t)
           more == rest \o z
<1>1. FullBefore(fl) /\ NoLastFull(fl)
    <2>1. OrderedIn(fl, channelQueue, nextId)
        BY FramesMined
    <2>2. NoLastFull(fl)
        BY NoneOnL1 DEF PipeTypeIInv, DeriverIInv
    <2> QED BY <2>1, <2>2 DEF OrderedIn
<1>2. z \in Seq(Frames) /\ y \in Seq(Frames)
    BY FlattenType
<1>3. fl = FlattenSeq(s) \o z
    BY FlattenConcat
<1> HIDE DEF fl, y, z, more
<1>4. fl = read \o (y \o more) /\ more \in Seq(Frames)
    <2>1. read \in Seq(Frames) /\ rest \in Seq(Frames) /\ y \in Seq(Frames) /\ z \in Seq(Frames)
        BY <1>2
    <2>2. (y \o rest) \o z = y \o (rest \o z) /\ rest \o z \in Seq(Frames) /\ y \o rest \in Seq(Frames)
        BY ONLY <2>1, FramesInARow, SMTT(60)
    <2>3. (read \o (y \o rest)) \o z = read \o ((y \o rest) \o z)
        <3>1. read \in Seq(Frames) /\ y \o rest \in Seq(Frames) /\ z \in Seq(Frames)
            BY <2>1, <2>2
        <3> QED BY ONLY <3>1, FramesInARow, Zenon
    <2>4. FlattenSeq(s) = read \o (y \o rest)
        BY DEF y
    <2> QED BY <1>3, <2>2, <2>3, <2>4 DEF more
<1> QED BY <1>1, <1>4, FitsNext DEF y

\* A call goes on, and not by an exception.
Survives(l) == \E place \in DeriverPlaces \ {"thrown"} : Goto(l, place)

\* Going on is surviving.
LEMMA ContinueSurvives == \A l : Continue(l) => Survives(l)
BY DEF Continue, Survives, DeriverPlaces

\* Reading the bytes of blocks leaves the bytes of blocks.
LEMMA ReadWhole ==
    ASSUME NEW l, NEW bs \in Seq(Block)
    PROVE  /\ AtEnd(Packed(bs)) \/ Whole(Packed(bs))
           /\ ReadBatch(l, Packed(bs)) => ReaderWhole' /\ Survives(l)
<1> DEFINE data == Packed(bs)
<1>1. /\ bs = <<>> => AtEnd(data)
      /\ bs # <<>> => Whole(data) /\ AfterFirst(data) = Packed(Tail(bs)) /\ Tail(bs) \in Seq(Block)
    BY PackedRead
<1>2. bs = <<>> => ~ (~ AtEnd(data))
    BY <1>1
<1> HIDE DEF data
<1>3. ASSUME ReadBatch(l, data) PROVE ReaderWhole' /\ Survives(l)
    <2>1. CASE reader' = <<>> /\ Continue(l)
        BY <2>1, ContinueSurvives DEF ReaderWhole
    <2>2. CASE ~ AtEnd(data) /\ reader' = <<AfterFirst(data)>> /\ Continue(l)
        <3>1. reader' = <<Packed(Tail(bs))>> /\ Tail(bs) \in Seq(Block)
            BY <1>1, <1>2, <2>2
        <3> QED BY <2>2, <3>1, ContinueSurvives DEF ReaderWhole
    <2> QED BY <1>3, <2>1, <2>2 DEF ReadBatch
<1> QED BY <1>1, <1>3 DEF data

\* With none full among the last frames, a pass of the loop does not throw.
LEMMA DeriveSurvives ==
    ASSUME PipeTypeIInv, ChainIInv, Placed, ~ SomeLastFull, ReaderWhole,
           NEW l \in Derivations, Derive(l)
    PROVE  Survives(l) /\ ReaderWhole'
<1>0. /\ DeriverIInv /\ BankTyped(bank) /\ l1Number \in Nat /\ Len(l1) \in Nat /\ l1 \in Seq(Seq(Frames))
      /\ datas \in Seq(Frames) /\ frameQueue \in Seq(Frames)
    BY DEF PipeTypeIInv, DeriverIInv, StagesTyped, AtL1
<1>1. CASE DecodeBatch(l)
    <2>1. PICK bs \in Seq(Block) : reader = <<Packed(bs)>>
        BY <1>1 DEF DecodeBatch, ReaderWhole
    <2>2. reader[1] = Packed(bs)
        BY <2>1
    <2>3. ReadBatch(l, Packed(bs))
        BY <1>1, <2>2, ReadWhole DEF DecodeBatch
    <2> QED BY <2>3, ReadWhole
<1>2. CASE OpenChannel(l)
    <2>1. PICK k \in ReadyAt :
              IF Readable(bank[k])
              THEN IF AtEnd(ChannelData(bank[k])) \/ Whole(ChannelData(bank[k]))
                   THEN ReadBatch(l, ChannelData(bank[k]))
                   ELSE Throw(l)
              ELSE Throw(l)
        BY <1>2 DEF OpenChannel
    <2> DEFINE ch == bank[k]
               fl == FlattenSeq(l1)
    <2>2. ch \in Channels /\ IsReady(ch) /\ k \in DOMAIN bank
        BY <1>0 DEF ReadyAt, BankTyped
    <2>3. /\ fl \in Seq(Frames) /\ FullBefore(fl) /\ NoLastFull(fl)
          /\ Contents(fl, channelQueue, nextId)
        BY <1>0, FramesMined, NoneOnL1 DEF OrderedIn
    <2>4. PICK pieces \in [Nat -> Seq(Seq(Block))], content \in [Nat -> Seq(Block)] :
              Filled(fl, channelQueue, nextId, pieces, content)
        BY <2>3 DEF Contents
    <2>5. PICK s \in Seq(Seq(Frames)), t \in Seq(Seq(Frames)), read \in Seq(Frames) : PlacedAt(s, t, read)
        BY DEF Placed
    <2>6. \A j \in DOMAIN read : j \in DOMAIN fl /\ fl[j] = read[j]
        <3> DEFINE v == frameQueue \o datas
                   u == FlattenSeq(s)
                   w == FlattenSeq(t)
        <3>1. u = read \o v /\ fl = u \o w /\ v \in Seq(Frames) /\ u \in Seq(Frames) /\ w \in Seq(Frames)
            <4>1. l1 = s \o t /\ u = read \o v
                BY <2>5 DEF PlacedAt
            <4>2. fl = u \o w
                BY <4>1, FlattenConcat
            <4>3. v \in Seq(Frames)
                BY <1>0
            <4>4. u \in Seq(Frames) /\ w \in Seq(Frames)
                BY FlattenType
            <4> QED BY <4>1, <4>2, <4>3, <4>4
        <3> HIDE DEF u, v, w, fl
        <3>2. /\ DOMAIN u = 1 .. Len(read) + Len(v) /\ Len(read) \in Nat /\ Len(v) \in Nat
              /\ \A k1 \in 1 .. Len(read) : u[k1] = read[k1]
            <4>1. read \in Seq(Frames) /\ v \in Seq(Frames) /\ u = read \o v
                BY <3>1
            <4>2. DOMAIN u = 1 .. Len(read) + Len(v) /\ Len(read) \in Nat /\ Len(v) \in Nat
                BY ONLY <4>1, ConcatAt
            <4>3. \A k1 \in 1 .. Len(read) : u[k1] = read[k1]
                BY ONLY <4>1, ConcatAt
            <4> QED BY <4>2, <4>3
        <3>3. /\ DOMAIN fl = 1 .. Len(u) + Len(w) /\ Len(u) \in Nat /\ Len(w) \in Nat
              /\ \A k1 \in 1 .. Len(u) : fl[k1] = u[k1]
            <4>1. u \in Seq(Frames) /\ w \in Seq(Frames) /\ fl = u \o w
                BY <3>1
            <4>2. DOMAIN fl = 1 .. Len(u) + Len(w) /\ Len(u) \in Nat /\ Len(w) \in Nat
                BY ONLY <4>1, ConcatAt
            <4>3. \A k1 \in 1 .. Len(u) : fl[k1] = u[k1]
                BY ONLY <4>1, ConcatAt
            <4> QED BY <4>2, <4>3
        <3>4. DOMAIN read = 1 .. Len(read) /\ DOMAIN u = 1 .. Len(u)
            BY <3>1
        <3>5. ASSUME NEW j \in 1 .. Len(read) PROVE j \in DOMAIN fl /\ fl[j] = read[j]
            <4>1. j \in 1 .. Len(read) + Len(v)
                BY <3>2
            <4>2. j \in 1 .. Len(u) /\ j \in 1 .. Len(u) + Len(w)
                <5>1. j \in 1 .. Len(u)
                    BY <3>2, <3>4, <4>1
                <5> QED BY <3>3, <5>1
            <4> QED BY <3>2, <3>3, <4>2
        <3> QED BY <3>4, <3>5
    <2>7. BankFrom(bank, read)
        BY <2>5 DEF PlacedAt
    <2> HIDE DEF fl
    <2>8. \A f \in ch.inputs : f.chan = ch.id /\ \E j \in DOMAIN fl : fl[j] = f
        BY <2>2, <2>6, <2>7 DEF BankFrom
    <2>9. /\ \A i \in DOMAIN fl : Carries(fl[i], pieces)
          /\ \A c \in Nat : CutFrom(pieces[c], content[c])
        BY <2>4 DEF Filled
    <2> HIDE DEF ch
    <2>10. Readable(ch) /\ ChannelData(ch) = Packed(content[ch.id])
        BY <2>2, <2>3, <2>8, <2>9, ReadyIsWhole
    <2>11. content[ch.id] \in Seq(Block)
        BY <2>2 DEF Channels
    <2>12. ReadBatch(l, Packed(content[ch.id]))
        <3>1. AtEnd(ChannelData(ch)) \/ Whole(ChannelData(ch))
            BY <2>10, <2>11, ReadWhole
        <3> QED BY <2>1, <2>10, <3>1 DEF ch
    <2> QED BY <2>11, <2>12, ReadWhole
<1>3. CASE IngestQueued(l)
    <2>1. PICK s \in Seq(Seq(Frames)), t \in Seq(Seq(Frames)), read \in Seq(Frames) : PlacedAt(s, t, read)
        BY DEF Placed
    <2> DEFINE f == Head(frameQueue)
               z == Tail(frameQueue)
               y == <<f>>
    <2>2. f \in Frames /\ z \in Seq(Frames) /\ frameQueue = y \o z /\ y \in Seq(Frames)
        BY <1>0, <1>3 DEF IngestQueued
    <2>3. l1 = s \o t /\ FlattenSeq(s) = read \o (frameQueue \o datas) /\ BankFrom(bank, read)
        BY <2>1 DEF PlacedAt
    <2> HIDE DEF f, y, z
    <2>4. frameQueue \o datas = y \o (z \o datas) /\ z \o datas \in Seq(Frames)
        BY ONLY <1>0, <2>2, FramesInARow, SMTT(60)
    <2>5. Fits(f)
        BY <2>2, <2>3, <2>4, NextFits DEF y
    <2>6. Continue(l) /\ reader' = reader
        BY <1>3, <2>5 DEF IngestQueued, f
    <2> QED BY <2>6, ContinueSurvives DEF ReaderWhole
<1>4. ASSUME NEW d \in Seq(Frames), d # <<>>, frameQueue = <<>>, TakeData(l, d),
             NEW s \in Seq(Seq(Frames)), NEW t \in Seq(Seq(Frames)), NEW read \in Seq(Frames),
             l1 = s \o t, FlattenSeq(s) = read \o d, BankFrom(bank, read)
      PROVE  Survives(l) /\ ReaderWhole'
    <2> DEFINE f == Head(d)
               z == Tail(d)
    <2>1. f \in Frames /\ z \in Seq(Frames) /\ d = <<f>> \o z
        BY <1>4
    <2>2. Head(Append(<<>>, f)) = f
        OBVIOUS
    <2> HIDE DEF f, z
    <2>3. Fits(f)
        BY <1>4, <2>1, NextFits
    <2>4. Continue(l) /\ reader' = reader
        <3>1. Head(Append(frameQueue, Head(d))) = f
            BY <1>4, <2>2 DEF f
        <3> QED BY <1>4, <2>3, <3>1 DEF TakeData
    <2> QED BY <2>4, ContinueSurvives DEF ReaderWhole
<1>5. CASE SplitDatas(l)
    <2>1. frameQueue = <<>> /\ datas # <<>> /\ TakeData(l, datas)
        BY <1>5 DEF SplitDatas
    <2>2. PICK s \in Seq(Seq(Frames)), t \in Seq(Seq(Frames)), read \in Seq(Frames) : PlacedAt(s, t, read)
        BY DEF Placed
    <2>3. l1 = s \o t /\ FlattenSeq(s) = read \o datas /\ BankFrom(bank, read)
        <3>1. <<>> \o datas = datas
            BY <1>0
        <3> QED BY <2>1, <2>2, <3>1 DEF PlacedAt
    <2> QED BY <1>0, <1>4, <2>1, <2>3
<1>6. CASE Fetch(l)
    <2>1. reader' = reader /\ Goto(l, "fetch")
        BY <1>6 DEF Fetch, stages
    <2> QED BY <2>1 DEF ReaderWhole, Survives, DeriverPlaces
<1>7. CASE FetchReply(l)
    <2>1. asked[l] = l1Number /\ datas = <<>> /\ frameQueue = <<>>
        BY <1>0, <1>7 DEF FetchReply, DeriverIInv, Fetching
    <2>2. CASE (Goto(l, "sleep") \/ Continue(l)) /\ UNCHANGED stages
        <3>1. reader' = reader
            BY <2>2 DEF stages
        <3>2. Survives(l)
            BY <2>2, ContinueSurvives DEF Survives, DeriverPlaces
        <3> QED BY <3>1, <3>2 DEF ReaderWhole
    <2>3. CASE /\ asked[l] <= Len(l1)
               /\ FramesAt(asked[l]) # <<>>
               /\ TakeData(l, FramesAt(asked[l]))
        <3> DEFINE d == l1[l1Number]
        <3>1. l1Number # 0 /\ l1Number <= Len(l1) /\ d # <<>> /\ TakeData(l, d)
            BY <2>1, <2>3 DEF FramesAt
        <3>2. PICK s \in Seq(Seq(Frames)), t \in Seq(Seq(Frames)), read \in Seq(Frames) : PlacedAt(s, t, read)
            BY DEF Placed
        <3>3. PICK u \in Seq(Seq(Frames)), v \in Seq(Seq(Frames)) :
                  /\ l1 = u \o v /\ Len(u) = l1Number
                  /\ FlattenSeq(u) = read \o d
                  /\ d \in Seq(Frames)
            BY <1>0, <2>1, <3>1, <3>2, NextBlockBegun
        <3>4. BankFrom(bank, read)
            BY <3>2 DEF PlacedAt
        <3> HIDE DEF d
        <3> QED BY <1>4, <2>1, <3>1, <3>3, <3>4
    <2> QED BY <1>7, <2>2, <2>3 DEF FetchReply
<1>8. CASE DeriverWake(l)
    <2>1. Continue(l) /\ reader' = reader
        BY <1>8 DEF DeriverWake, stages
    <2> QED BY <2>1, ContinueSurvives DEF ReaderWhole
<1> QED BY <1>1, <1>2, <1>3, <1>5, <1>6, <1>7, <1>8 DEF Derive

\* What L1 holds it keeps.
LEMMA LastFullStays ==
    ASSUME PipeTypeIInv, SomeLastFull, [PipelineNext]_pipelineVars
    PROVE  SomeLastFull'
<1>0. PICK n \in DOMAIN l1 : \E f \in ToSet(l1[n]) : f.isLast /\ Len(f.data) = MaxData
    BY DEF SomeLastFull, FramesOnL1
<1>1. PICK f \in ToSet(l1[n]) : f.isLast /\ Len(f.data) = MaxData
    BY <1>0
<1>2. l1' = l1 \/ \E m : l1' = Append(l1, m)
    <2>1. CASE UNCHANGED pipelineVars
        BY <2>1 DEF pipelineVars, deriverVars
    <2>2. CASE PipelineNext
        <3>1. (\E k \in 0 .. MaxBlockTxs : MineL1(k)) => \E m : l1' = Append(l1, m)
            BY DEF MineL1
        <3>2. Crash => l1' = l1
            BY DEF Crash
        <3> QED BY <2>2, <3>1, <3>2, BatcherPart
    <2> QED BY <2>1, <2>2
<1>3. n \in DOMAIN l1' /\ l1'[n] = l1[n]
    <2>1. l1 \in Seq(Seq(Frames))
        BY DEF PipeTypeIInv, DeriverIInv
    <2>2. ASSUME NEW m, l1' = Append(l1, m) PROVE n \in DOMAIN l1' /\ l1'[n] = l1[n]
        BY <2>1, <2>2
    <2> QED BY <1>2, <2>2
<1>4. f \in FramesOnL1'
    BY <1>1, <1>3 DEF FramesOnL1
<1> QED BY <1>1, <1>4 DEF SomeLastFull

\* No step of the data path brings a throw on, unless a last frame on L1 is full.
LEMMA NoThrowStep ==
    ASSUME OneDerivation, NoThrowIInv, [PipelineNext]_pipelineVars
    PROVE  NoThrowIInv'
<1>1. /\ PipeTypeIInv /\ ChainIInv /\ Placed
      /\ PipeTypeIInv' /\ ChainIInv' /\ PlacedIInv'
    BY PipeStep, ChainStep, PlacedStep DEF NoThrowIInv, PlacedIInv
<1>2. CASE SomeLastFull
    BY <1>1, <1>2, LastFullStays DEF NoThrowIInv
<1>3. CASE ~ SomeLastFull
    <2>0. NeverThrows /\ ReaderWhole /\ deriverAt \in [Derivations -> DeriverPlaces]
        BY <1>1, <1>3 DEF NoThrowIInv, PipeTypeIInv, DeriverIInv
    <2>1. ASSUME NEW l \in Derivations, Survives(l) PROVE NeverThrows'
        BY <2>0, <2>1 DEF Survives, Goto, NeverThrows
    <2>2. ASSUME UNCHANGED deriverVars PROVE NeverThrows' /\ ReaderWhole'
        BY <2>0, <2>2 DEF deriverVars, stages, NeverThrows, ReaderWhole
    <2>3. ASSUME NEW k \in 0 .. MaxBlockTxs, MineL1(k) PROVE NeverThrows' /\ ReaderWhole'
        BY <2>0, <2>3 DEF MineL1, stages, NeverThrows, ReaderWhole
    <2>4. ASSUME UNCHANGED <<l1, deriverAt, asked, l1Number, stages, delivery>>
          PROVE  NeverThrows' /\ ReaderWhole'
        BY <2>0, <2>4 DEF stages, NeverThrows, ReaderWhole
    <2>5. ASSUME NEW l \in Derivations, DerivateStart(l) PROVE NeverThrows' /\ ReaderWhole'
        <3>1. Survives(l) /\ reader' = reader
            BY <2>5 DEF DerivateStart, Survives, DeriverPlaces, stages
        <3> QED BY <2>0, <2>1, <3>1 DEF ReaderWhole
    <2>6. ASSUME DeriverBoot PROVE NeverThrows' /\ ReaderWhole'
        BY <2>6 DEF DeriverBoot, NeverThrows, ReaderWhole
    <2>7. ASSUME NEW l \in Derivations, StartReply(l, 0) PROVE NeverThrows' /\ ReaderWhole'
        <3>1. Survives(l) /\ reader' = reader
            BY <2>7 DEF StartReply, Survives, DeriverPlaces, stages
        <3> QED BY <2>0, <2>1, <3>1 DEF ReaderWhole
    <2>8. ASSUME NEW l \in Derivations, Derive(l) PROVE NeverThrows' /\ ReaderWhole'
        BY <1>1, <1>3, <2>0, <2>1, <2>8, DeriveSurvives
    <2>9. NeverThrows' /\ ReaderWhole'
        BY <2>2, <2>3, <2>4, <2>5, <2>6, <2>7, <2>8, DeriverPart
    <2> QED BY <1>1, <2>9 DEF NoThrowIInv
<1> QED BY <1>2, <1>3

\* While one call of derivateStart runs, no frame on L1 makes the deriver throw,
\* whichever frames were lost and wherever crashes cut the channels, unless one of
\* them is a last frame that is full: then the channel may go on behind it, as
\* outputFrame marks a frame as the last when it takes all there is
\* (batcher.channel.out.ts).
THEOREM NoThrowUnlessFull ==
    ASSUME OneDerivation
    PROVE  PipelineSpec =>
               [](\/ NeverThrows
                  \/ \E f \in FramesOnL1 : f.isLast /\ Len(f.data) = MaxData)
<1>1. PipelineInit => NoThrowIInv
    <2>1. PipelineInit => NeverThrows /\ ReaderWhole
        BY DEF PipelineInit, DeriverInit, NeverThrows, ReaderWhole
    <2> QED BY <2>1, PipeInit, ChainInit, PlacedInit DEF NoThrowIInv
<1>2. NoThrowIInv /\ [PipelineNext]_pipelineVars => NoThrowIInv'
    BY NoThrowStep
<1>3. NoThrowIInv => \/ NeverThrows
                     \/ \E f \in FramesOnL1 : f.isLast /\ Len(f.data) = MaxData
    BY DEF NoThrowIInv, SomeLastFull
<1> QED BY <1>1, <1>2, <1>3, PTL DEF PipelineSpec

-----------------------------------------------------------------------------
(* The blocks of a channel. *)

\* Two lists of blocks that are packed to the same bytes are the same.
LEMMA PackedOnce ==
    \A bs, cs \in Seq(Block) : Packed(bs) = Packed(cs) => bs = cs
<1> DEFINE C == {n \in Nat : \A bs, cs \in Seq(Block) :
                                Len(bs) = n /\ Packed(bs) = Packed(cs) => bs = cs}
<1>1. 0 \in C
    <2> SUFFICES ASSUME NEW bs \in Seq(Block), NEW cs \in Seq(Block),
                        Len(bs) = 0, Packed(bs) = Packed(cs)
                 PROVE  bs = cs
        OBVIOUS
    <2>1. bs = <<>>
        OBVIOUS
    <2>2. AtEnd(Packed(cs))
        BY <2>1, PackedRead
    <2> QED BY <2>1, <2>2, PackedRead
<1>2. ASSUME NEW n \in Nat, n \in C PROVE n + 1 \in C
    <2> SUFFICES ASSUME NEW bs \in Seq(Block), NEW cs \in Seq(Block),
                        Len(bs) = n + 1, Packed(bs) = Packed(cs)
                 PROVE  bs = cs
        OBVIOUS
    <2>1. bs # <<>>
        OBVIOUS
    <2>2. cs # <<>>
        BY <2>1, PackedRead
    <2>3. Head(bs) = Head(cs) /\ Packed(Tail(bs)) = Packed(Tail(cs))
        BY <2>1, <2>2, PackedRead
    <2>4. Tail(bs) \in Seq(Block) /\ Tail(cs) \in Seq(Block) /\ Len(Tail(bs)) = n
        BY <2>1, <2>2
    <2>5. Tail(bs) = Tail(cs)
        BY <1>2, <2>3, <2>4
    <2>6. bs = <<Head(bs)>> \o Tail(bs) /\ cs = <<Head(cs)>> \o Tail(cs)
        BY <2>1, <2>2
    <2> QED BY <2>3, <2>5, <2>6
<1>3. Nat \subseteq C
    <2> HIDE DEF C
    <2> QED BY <1>1, <1>2, NatInduct
<1> SUFFICES ASSUME NEW bs \in Seq(Block), NEW cs \in Seq(Block), Packed(bs) = Packed(cs)
             PROVE  bs = cs
    OBVIOUS
<1>4. Len(bs) \in Nat
    OBVIOUS
<1> QED BY <1>3, <1>4

\* Every block is among its bytes, and there are no fewer bytes than blocks.
LEMMA PackedHolds ==
    \A bs \in Seq(Block) :
        /\ Len(bs) <= Len(Packed(bs))
        /\ \A k \in 1 .. Len(bs) : bs[k] \in ToSet(Packed(bs))
<1> DEFINE C == {bs \in Seq(Block) :
                    /\ Len(bs) <= Len(Packed(bs))
                    /\ \A k \in 1 .. Len(bs) : bs[k] \in ToSet(Packed(bs))}
<1>1. <<>> \in C
    <2>1. Len(<<>>) = 0 /\ <<>> \in Seq(Block)
        OBVIOUS
    <2> QED BY <2>1, PackedNone
<1>2. ASSUME NEW bs \in Seq(Block), NEW b \in Block, bs \in C PROVE Append(bs, b) \in C
    <2> DEFINE x == Packed(bs)
               y == Bytes(b)
               cs == Append(bs, b)
    <2>1. x \in Seq(Block) /\ y \in Seq(Block) /\ Packed(cs) = x \o y
        BY PackedAppend, PackedConcat, BytesType
    <2>2. Len(y) \in Nat /\ 1 \in 1 .. Len(y) /\ y[1] = b
        <3>1. PrefixSize \in Nat \ {0} /\ Size[b] \in Nat
            BY CodecAssumption DEF CodecAssumption
        <3>2. Len(y) = PrefixSize + Size[b] /\ 1 \in 1 .. PrefixSize + Size[b]
            BY <3>1, BytesType
        <3> QED BY <3>1, <3>2 DEF Bytes
    <2>3. /\ cs \in Seq(Block) /\ Len(cs) = Len(bs) + 1 /\ Len(bs) \in Nat
          /\ cs[Len(bs) + 1] = b /\ \A k \in 1 .. Len(bs) : cs[k] = bs[k]
        BY AppendAt
    <2>4. Len(bs) <= Len(x) /\ \A k \in 1 .. Len(bs) : bs[k] \in ToSet(x)
        BY <1>2
    <2> HIDE DEF x, y, cs
    <2>5. /\ Len(x) \in Nat /\ Len(x \o y) = Len(x) + Len(y) /\ DOMAIN (x \o y) = 1 .. Len(x) + Len(y)
          /\ \A k \in 1 .. Len(x) : (x \o y)[k] = x[k]
          /\ \A k \in 1 .. Len(y) : (x \o y)[Len(x) + k] = y[k]
        <3>1. x \in Seq(Block) /\ y \in Seq(Block)
            BY <2>1
        <3>2. Len(x) \in Nat /\ Len(x \o y) = Len(x) + Len(y) /\ DOMAIN (x \o y) = 1 .. Len(x) + Len(y)
            BY ONLY <3>1, ConcatAt
        <3>3. \A k \in 1 .. Len(x) : (x \o y)[k] = x[k]
            BY ONLY <3>1, ConcatAt
        <3>4. \A k \in 1 .. Len(y) : (x \o y)[Len(x) + k] = y[k]
            BY ONLY <3>1, ConcatAt
        <3> QED BY <3>2, <3>3, <3>4
    <2>6. ToSet(x) \subseteq ToSet(x \o y)
        <3>1. DOMAIN x = 1 .. Len(x)
            BY <2>1
        <3>2. \A k \in 1 .. Len(x) : k \in 1 .. Len(x) + Len(y)
            BY <2>2, <2>5
        <3> QED BY <2>5, <3>1, <3>2 DEF ToSet
    <2>7. b \in ToSet(x \o y)
        <3>1. Len(x) + 1 \in 1 .. Len(x) + Len(y)
            BY <2>2, <2>5
        <3>2. (x \o y)[Len(x) + 1] = b
            BY <2>2, <2>5
        <3> QED BY <2>5, <3>1, <3>2 DEF ToSet
    <2>8. Len(cs) <= Len(x \o y)
        BY <2>2, <2>3, <2>4, <2>5
    <2>9. ASSUME NEW k \in 1 .. Len(cs) PROVE cs[k] \in ToSet(x \o y)
        <3>1. k = Len(bs) + 1 \/ k \in 1 .. Len(bs)
            BY <2>3
        <3> QED BY <2>3, <2>4, <2>6, <2>7, <3>1
    <2>10. cs \in C
        BY <2>1, <2>3, <2>8, <2>9
    <2> QED BY <2>10 DEF cs
<1>3. Seq(Block) \subseteq C
    <2> HIDE DEF C
    <2> QED BY <1>1, <1>2, SeqInduct
<1> QED BY <1>3

\* BlocksIn finds the blocks in their bytes.
LEMMA BlocksInPacked == \A bs \in Seq(Block) : BlocksIn(Packed(bs)) = bs
<1> SUFFICES ASSUME NEW bs \in Seq(Block) PROVE BlocksIn(Packed(bs)) = bs
    OBVIOUS
<1> DEFINE data == Packed(bs)
           S == BoundedSeq(ToSet(data), Len(data))
           cs == CHOOSE x \in S : Packed(x) = data
<1>1. data \in Seq(Block) /\ Len(data) \in Nat
    BY PackedConcat
<1>2. /\ Len(bs) \in Nat /\ DOMAIN bs = 1 .. Len(bs) /\ Len(bs) <= Len(data)
      /\ \A k \in 1 .. Len(bs) : bs[k] \in ToSet(data)
    BY PackedHolds
<1>3. ToSet(data) \subseteq Block
    <2> HIDE DEF data
    <2> QED BY <1>1 DEF ToSet
<1> HIDE DEF data
<1>4. bs \in S
    <2>1. Len(bs) \in 0 .. Len(data)
        BY <1>1, <1>2
    <2>2. bs \in [1 .. Len(bs) -> ToSet(data)]
        BY <1>2
    <2> QED BY <2>1, <2>2 DEF BoundedSeq, SeqOf
<1>5. S \subseteq Seq(Block)
    <2> SUFFICES ASSUME NEW x \in S PROVE x \in Seq(Block)
        OBVIOUS
    <2>1. PICK m \in 0 .. Len(data) : x \in [1 .. m -> ToSet(data)]
        BY DEF BoundedSeq, SeqOf
    <2>2. m \in Nat /\ x \in [1 .. m -> Block]
        BY <1>1, <1>3, <2>1
    <2> QED BY <2>2
<1>6. Packed(bs) = data
    BY DEF data
<1>7. cs \in S /\ Packed(cs) = data
    <2> HIDE DEF S
    <2> QED BY <1>4, <1>6
<1>8. cs \in Seq(Block)
    BY <1>5, <1>7
<1>9. BlocksIn(data) = cs
    BY DEF BlocksIn
<1> HIDE DEF cs
<1>10. cs = bs
    BY <1>6, <1>7, <1>8, PackedOnce
<1> QED BY <1>9, <1>10 DEF data

-----------------------------------------------------------------------------
(* What the frames read give. *)

\* A channel as far as it is in the frames fs, the blocks it gives, and the
\* blocks the first n channels give.
ChannelOf(fs, c) == [id |-> c, inputs |-> {f \in ToSet(fs) : f.chan = c}]
Content(fs, c) == BlocksOfChannel(ChannelOf(fs, c))
Given(fs, n) == FlattenSeq([c \in 1 .. n |-> Content(fs, c)])

\* The newest channel in fs.
Top(fs) == IF fs = <<>> THEN 0 ELSE Last(fs).chan

\* The frames are in the order of their channels, and a channel that is ready
\* has all its frames and gives the blocks they carry.
Sound(fs) ==
    /\ fs \in Seq(Frames) /\ FullBefore(fs) /\ Ascending(fs) /\ NoLastFull(fs)
    /\ \A c \in Nat \ {0} :
          /\ Content(fs, c) \in Seq(Block)
          /\ IsReady(ChannelOf(fs, c)) =>
                /\ IsComplete(ChannelOf(fs, c))
                /\ ChannelData(ChannelOf(fs, c)) = Packed(Content(fs, c))

\* So are the frames in front on L1.
LEMMA SoundPart ==
    ASSUME PipeTypeIInv, ChainIInv, ~ SomeLastFull,
           NEW fs \in Seq(Frames), NEW rest \in Seq(Frames), FlattenSeq(l1) = fs \o rest
    PROVE  Sound(fs)
<1> DEFINE fl == FlattenSeq(l1)
<1>1. /\ OrderedIn(fs, channelQueue, nextId) /\ Contents(fs, channelQueue, nextId)
    <2>1. OrderedIn(fl, channelQueue, nextId) /\ Contents(fl, channelQueue, nextId)
        BY FramesMined
    <2> QED BY <2>1, FrontOfChain
<1>2. NoLastFull(fs)
    <2>1. NoLastFull(fl)
        BY NoneOnL1 DEF PipeTypeIInv, DeriverIInv
    <2>2. DOMAIN fl = 1 .. Len(fs) + Len(rest) /\ Len(fs) \in Nat /\ Len(rest) \in Nat
          /\ \A k \in 1 .. Len(fs) : fl[k] = fs[k]
        BY ConcatAt
    <2>3. DOMAIN fs = 1 .. Len(fs)
        OBVIOUS
    <2> HIDE DEF fl
    <2>4. \A k \in DOMAIN fs : k \in DOMAIN fl /\ fl[k] = fs[k]
        BY <2>2, <2>3
    <2> QED BY <2>1, <2>4 DEF NoLastFull
<1>3. FullBefore(fs) /\ Ascending(fs)
    BY <1>1 DEF OrderedIn
<1>4. PICK pieces \in [Nat -> Seq(Seq(Block))], content \in [Nat -> Seq(Block)] :
          Filled(fs, channelQueue, nextId, pieces, content)
    BY <1>1 DEF Contents
<1>5. ASSUME NEW c \in Nat \ {0}
      PROVE  /\ Content(fs, c) \in Seq(Block)
             /\ IsReady(ChannelOf(fs, c)) =>
                   /\ IsComplete(ChannelOf(fs, c))
                   /\ ChannelData(ChannelOf(fs, c)) = Packed(Content(fs, c))
    <2> DEFINE ch == ChannelOf(fs, c)
    <2>1. ch \in Channels /\ ch.id = c
        <3>1. ToSet(fs) \subseteq Frames
            BY DEF ToSet
        <3> QED BY <3>1 DEF Channels, ChannelOf
    <2>2. \A f \in ch.inputs : f.chan = ch.id /\ \E j \in DOMAIN fs : fs[j] = f
        BY DEF ChannelOf, ToSet
    <2>3. IsComplete(ch) => IsReady(ch)
        BY DEF IsComplete, IsReady, Readable
    <2>4. content[c] \in Seq(Block)
        OBVIOUS
    <2> HIDE DEF ch
    <2>5. ASSUME IsReady(ch)
          PROVE  IsComplete(ch) /\ ChannelData(ch) = Packed(content[c])
        <3>1. \A i \in DOMAIN fs : Carries(fs[i], pieces)
            BY <1>4 DEF Filled
        <3>2. \A d \in Nat : CutFrom(pieces[d], content[d])
            BY <1>4 DEF Filled
        <3>3. Readable(ch) /\ ChannelData(ch) = Packed(content[ch.id])
            BY <1>2, <1>3, <2>1, <2>2, <2>5, <3>1, <3>2, ReadyIsWhole
        <3>4. LastFrames(ch) # {}
            BY <2>5 DEF IsReady
        <3> QED BY <2>1, <3>3, <3>4 DEF IsComplete
    <2>6. ASSUME IsComplete(ch) PROVE BlocksOfChannel(ch) = content[c]
        <3>1. BlocksOfChannel(ch) = BlocksIn(Packed(content[c]))
            BY <2>3, <2>5, <2>6 DEF BlocksOfChannel
        <3> QED BY <2>4, <3>1, BlocksInPacked
    <2>7. ASSUME ~ IsComplete(ch) PROVE BlocksOfChannel(ch) = <<>>
        BY <2>7 DEF BlocksOfChannel
    <2>8. <<>> \in Seq(Block)
        OBVIOUS
    <2> QED BY <2>4, <2>5, <2>6, <2>7, <2>8 DEF Content, ch
<1> QED BY <1>2, <1>3, <1>5 DEF Sound

\* The blocks of one more channel.
LEMMA GivenNext ==
    ASSUME NEW fs, Sound(fs), NEW n \in Nat
    PROVE  /\ Given(fs, n) \in Seq(Block)
           /\ Given(fs, n + 1) = Given(fs, n) \o Content(fs, n + 1)
<1>1. \A c \in Nat \ {0} : Content(fs, c) \in Seq(Block)
    BY DEF Sound
<1> DEFINE s(m) == [c \in 1 .. m |-> Content(fs, c)]
<1>2. \A m \in Nat : s(m) \in Seq(Seq(Block)) /\ Len(s(m)) = m
    BY <1>1
<1>3. n + 1 \in Nat \ {0} /\ n + 1 \in 1 .. n + 1
    OBVIOUS
<1>4. s(n + 1) = Append(s(n), Content(fs, n + 1))
    <2> DEFINE v == s(n + 1)
               u == s(n)
               e == Content(fs, n + 1)
    <2>1. u \in Seq(Seq(Block)) /\ v \in Seq(Seq(Block)) /\ e \in Seq(Block)
          /\ Len(u) = n /\ Len(v) = n + 1
        BY <1>1, <1>2, <1>3
    <2>2. v[n + 1] = e /\ \A j \in 1 .. n : v[j] = u[j]
        BY <1>3
    <2> HIDE DEF u, v, e
    <2>3. v = Append(u, e)
        BY <2>1, <2>2, IsAppend
    <2> QED BY <2>3 DEF u, v, e
<1>5. Given(fs, n) = FlattenSeq(s(n)) /\ Given(fs, n + 1) = FlattenSeq(s(n + 1))
    BY DEF Given
<1>6. s(n) \in Seq(Seq(Block)) /\ Content(fs, n + 1) \in Seq(Block)
    BY <1>1, <1>2, <1>3
<1> HIDE DEF s
<1>7. FlattenSeq(Append(s(n), Content(fs, n + 1))) = FlattenSeq(s(n)) \o Content(fs, n + 1)
    BY <1>6, FlattenAppend
<1>8. FlattenSeq(s(n)) \in Seq(Block)
    BY <1>6, FlattenType
<1> QED BY <1>4, <1>5, <1>7, <1>8

\* No channel gives no blocks.
LEMMA GivenNone == \A fs : Given(fs, 0) = <<>>
<1> SUFFICES ASSUME NEW fs PROVE Given(fs, 0) = <<>>
    OBVIOUS
<1>1. [c \in 1 .. 0 |-> Content(fs, c)] = <<>>
    OBVIOUS
<1> QED BY <1>1, FlattenEmpty DEF Given

\* More channels give more blocks.
LEMMA GivenGrows ==
    ASSUME NEW fs, Sound(fs), NEW m \in Nat, NEW n \in Nat, m <= n
    PROVE  \E t \in Seq(Block) : Given(fs, n) = Given(fs, m) \o t
<1> DEFINE C == {k \in Nat : \E t \in Seq(Block) : Given(fs, m + k) = Given(fs, m) \o t}
<1>1. 0 \in C
    <2>1. <<>> \in Seq(Block) /\ m + 0 = m
        OBVIOUS
    <2>2. Given(fs, m) \in Seq(Block)
        BY GivenNext
    <2>3. Given(fs, m) = Given(fs, m) \o <<>>
        BY <2>2, ConcatEmptySeq
    <2> QED BY <2>1, <2>3
<1>2. ASSUME NEW k \in Nat, k \in C PROVE k + 1 \in C
    <2>1. PICK t \in Seq(Block) : Given(fs, m + k) = Given(fs, m) \o t
        BY <1>2
    <2> DEFINE g == Given(fs, m)
               e == Content(fs, m + k + 1)
    <2>2. m + k \in Nat /\ m + k + 1 \in Nat \ {0} /\ m + (k + 1) = m + k + 1 /\ k + 1 \in Nat
        OBVIOUS
    <2>3. g \in Seq(Block) /\ e \in Seq(Block)
        BY <2>2, GivenNext DEF Sound
    <2>4. Given(fs, m + (k + 1)) = (g \o t) \o e
        BY <2>1, <2>2, GivenNext
    <2> HIDE DEF g, e
    <2>5. (g \o t) \o e = g \o (t \o e)
        BY ONLY <2>3, t \in Seq(Block), ConcatThree, SMTT(60)
    <2>6. t \o e \in Seq(Block)
        BY <2>3
    <2> QED BY <2>2, <2>4, <2>5, <2>6 DEF g
<1>3. Nat \subseteq C
    <2> HIDE DEF C
    <2> QED BY <1>1, <1>2, NatInduct
<1>4. n - m \in Nat /\ m + (n - m) = n
    OBVIOUS
<1> QED BY <1>3, <1>4

\* Channels that give nothing make no difference.
LEMMA GivenStays ==
    ASSUME NEW fs, Sound(fs), NEW m \in Nat, NEW n \in Nat, m <= n,
           \A c \in Nat : m < c => Content(fs, c) = <<>>
    PROVE  Given(fs, n) = Given(fs, m)
<1> DEFINE C == {k \in Nat : Given(fs, m + k) = Given(fs, m)}
<1>1. 0 \in C
    OBVIOUS
<1>2. ASSUME NEW k \in Nat, k \in C PROVE k + 1 \in C
    <2>1. m + k \in Nat /\ m + k + 1 \in Nat /\ m + (k + 1) = m + k + 1 /\ k + 1 \in Nat /\ m < m + k + 1
        OBVIOUS
    <2>2. Given(fs, m + k + 1) = Given(fs, m + k) \o <<>> /\ Given(fs, m + k) \in Seq(Block)
        BY <2>1, GivenNext
    <2>3. Given(fs, m + k + 1) = Given(fs, m)
        BY <1>2, <2>2, ConcatEmptySeq
    <2> QED BY <2>1, <2>3
<1>3. Nat \subseteq C
    <2> HIDE DEF C
    <2> QED BY <1>1, <1>2, NatInduct
<1>4. n - m \in Nat /\ m + (n - m) = n
    OBVIOUS
<1> QED BY <1>3, <1>4

\* The same channels give the same blocks.
LEMMA GivenSame ==
    ASSUME NEW fs, NEW gs, NEW n, \A c \in 1 .. n : ChannelOf(fs, c) = ChannelOf(gs, c)
    PROVE  Given(fs, n) = Given(gs, n)
<1>1. \A c \in 1 .. n : Content(fs, c) = Content(gs, c)
    BY DEF Content
<1> QED BY <1>1, Zenon DEF Given

\* The newest channel is the last one.
LEMMA TopIs ==
    ASSUME NEW fs, Sound(fs)
    PROVE  Top(fs) \in Nat /\ \A f \in ToSet(fs) : f.chan \in Nat \ {0} /\ f.chan <= Top(fs)
<1>1. fs \in Seq(Frames) /\ DOMAIN fs = 1 .. Len(fs) /\ Len(fs) \in Nat /\ Ascending(fs)
    BY DEF Sound
<1>2. CASE fs = <<>>
    <2>1. ToSet(fs) = {}
        BY <1>2 DEF ToSet
    <2> QED BY <1>2, <2>1 DEF Top
<1>3. CASE fs # <<>>
    <2> DEFINE n == Len(fs)
    <2>1. n \in DOMAIN fs /\ fs[n] \in Frames /\ Top(fs) = fs[n].chan
        <3>1. n # 0
            BY <1>1, <1>3
        <3> QED BY <1>1, <1>3, <3>1 DEF Top, Last
    <2>2. ASSUME NEW j \in DOMAIN fs PROVE fs[j].chan \in Nat \ {0} /\ fs[j].chan <= fs[n].chan
        <3>1. fs[j] \in Frames
            BY <1>1
        <3>2. fs[j].chan \in Nat \ {0} /\ fs[n].chan \in Nat
            BY <2>1, <3>1 DEF Frames
        <3>3. j = n \/ j \in 1 .. n - 1
            BY <1>1
        <3>4. j \in 1 .. n - 1 => fs[j].chan <= fs[n].chan
            BY <1>1, <2>1 DEF Ascending
        <3> QED BY <3>2, <3>3, <3>4
    <2>3. fs[n].chan \in Nat
        BY <2>1 DEF Frames
    <2> QED BY <2>1, <2>2, <2>3 DEF ToSet
<1> QED BY <1>2, <1>3

\* One more frame read belongs to the newest channel or a newer one, which has
\* not given its last frame yet.
LEMMA OneMore ==
    ASSUME NEW read, Sound(read), NEW f \in Frames, Sound(Append(read, f))
    PROVE  /\ Top(Append(read, f)) = f.chan /\ Top(read) <= f.chan /\ f.chan \in Nat \ {0}
           /\ \A d : d # f.chan => ChannelOf(Append(read, f), d) = ChannelOf(read, d)
           /\ ChannelOf(Append(read, f), f.chan).inputs = ChannelOf(read, f.chan).inputs \cup {f}
           /\ \A d \in Nat : f.chan <= d => LastFrames(ChannelOf(read, d)) = {} /\ Content(read, d) = <<>>
<1> DEFINE more == Append(read, f)
           n == Len(read)
<1>1. read \in Seq(Frames) /\ n \in Nat /\ DOMAIN read = 1 .. n
      /\ DOMAIN more = 1 .. n + 1 /\ more[n + 1] = f /\ \A k \in 1 .. n : more[k] = read[k]
    <2>1. read \in Seq(Frames)
        BY DEF Sound
    <2> QED BY <2>1, AppendAt
<1>2. f.chan \in Nat \ {0}
    BY DEF Frames
<1>3. Top(more) = f.chan
    <2>1. more \in Seq(Frames) /\ Len(more) = n + 1 /\ more # <<>>
        BY <1>1
    <2> QED BY <1>1, <2>1 DEF Top, Last
<1>4. ToSet(more) = ToSet(read) \cup {f}
    <2>1. \A k \in 1 .. n + 1 : k = n + 1 \/ k \in 1 .. n
        BY <1>1
    <2>2. \A k \in 1 .. n : k \in 1 .. n + 1
        BY <1>1
    <2>3. n + 1 \in 1 .. n + 1
        BY <1>1
    <2> HIDE DEF more, n
    <2> QED BY <1>1, <2>1, <2>2, <2>3 DEF ToSet
<1>5. Top(more) \in Nat /\ \A g \in ToSet(more) : g.chan \in Nat \ {0} /\ g.chan <= Top(more)
    BY TopIs
<1>6. Top(read) <= f.chan
    <2>1. CASE read = <<>>
        BY <1>2, <2>1 DEF Top
    <2>2. CASE read # <<>>
        <3>1. n # 0 /\ n \in DOMAIN read /\ Top(read) = read[n].chan
            BY <1>1, <2>2 DEF Top, Last
        <3>2. read[n] \in ToSet(read)
            BY <3>1 DEF ToSet
        <3> HIDE DEF more
        <3> QED BY <1>3, <1>4, <1>5, <3>1, <3>2
    <2> QED BY <2>1, <2>2
<1> HIDE DEF more
<1>7. ASSUME NEW d, d # f.chan PROVE ChannelOf(more, d) = ChannelOf(read, d)
    BY <1>4, <1>7 DEF ChannelOf
<1>8. ChannelOf(more, f.chan).inputs = ChannelOf(read, f.chan).inputs \cup {f}
    BY <1>4 DEF ChannelOf
<1>9. ASSUME NEW d \in Nat, f.chan <= d PROVE LastFrames(ChannelOf(read, d)) = {}
    <2> SUFFICES ASSUME NEW g \in ToSet(read), g.chan = d, g.isLast PROVE FALSE
        BY DEF LastFrames, ChannelOf
    <2>1. g.chan = f.chan
        <3>1. g.chan <= f.chan
            BY <1>3, <1>4, <1>5
        <3>2. g.chan \in Nat
            BY <1>4, <1>5
        <3> QED BY <1>2, <1>9, <3>1, <3>2
    <2>2. PICK j \in 1 .. n : read[j] = g
        BY <1>1 DEF ToSet
    <2>3. more[j] = g /\ j \in DOMAIN more /\ j \in 1 .. (n + 1) - 1 /\ n + 1 \in DOMAIN more
        BY <1>1, <2>2
    <2>4. Len(g.data) = MaxData
        <3>1. FullBefore(more)
            BY DEF Sound, more
        <3> QED BY <1>1, <2>1, <2>3, <3>1 DEF FullBefore
    <2>5. NoLastFull(more)
        BY DEF Sound, more
    <2> QED BY <2>3, <2>4, <2>5 DEF NoLastFull
<1>10. ASSUME NEW d \in Nat, f.chan <= d PROVE Content(read, d) = <<>>
    BY <1>9, <1>10 DEF Content, BlocksOfChannel, IsComplete
<1> QED BY <1>2, <1>3, <1>6, <1>7, <1>8, <1>9, <1>10 DEF more

-----------------------------------------------------------------------------
(* What the deriver has handed on. *)

\* The blocks left in the reader come behind those handed to the block map, and
\* these are the blocks of the channels read, but for one that is ready.
HandedOn(read) ==
    \E left \in Seq(Block) :
        /\ reader = <<Packed(left)>> \/ (reader = <<>> /\ left = <<>>)
        /\ derived \o left = Given(read, IF ReadyAt = {} THEN Top(read) ELSE Top(read) - 1)

\* The bank has the channels read that were not complete when they were last
\* looked at; only the newest can be ready.
Drained(read) ==
    /\ \A k \in DOMAIN bank : bank[k] = ChannelOf(read, bank[k].id)
    /\ \A f \in ToSet(read) : \/ \E k \in DOMAIN bank : bank[k].id = f.chan
                              \/ LastFrames(ChannelOf(read, f.chan)) # {}
    /\ \A k \in ReadyAt : bank[k].id = Top(read)
    /\ HandedOn(read)

\* The reader hands on the blocks of its data one by one.
LEMMA ReadMore ==
    ASSUME NEW l, NEW left \in Seq(Block), derived \in Seq(Block), ReadBatch(l, Packed(left))
    PROVE  \E more \in Seq(Block) :
              /\ reader' = <<Packed(more)>> \/ (reader' = <<>> /\ more = <<>>)
              /\ derived' \o more = derived \o left
<1>1. /\ left = <<>> => AtEnd(Packed(left))
      /\ left # <<>> => /\ ~ AtEnd(Packed(left))
                        /\ FirstBatch(Packed(left)) = Head(left)
                        /\ AfterFirst(Packed(left)) = Packed(Tail(left))
                        /\ Head(left) \in Block /\ Tail(left) \in Seq(Block)
    BY PackedRead
<1>2. CASE left = <<>>
    <2>1. reader' = <<>> /\ derived' = derived
        BY <1>1, <1>2 DEF ReadBatch, delivery
    <2> QED BY <1>2, <2>1
<1>3. CASE left # <<>>
    <2> DEFINE h == Head(left)
               t == Tail(left)
    <2>1. reader' = <<Packed(t)>> /\ derived' = Append(derived, h) /\ h \in Block /\ t \in Seq(Block)
        BY <1>1, <1>3 DEF ReadBatch
    <2>2. left = <<h>> \o t
        BY <1>3
    <2> HIDE DEF h, t
    <2> DEFINE y == <<h>>
    <2>3. y \in Seq(Block) /\ derived' = derived \o y
        BY <2>1, AppendIsConcat
    <2> HIDE DEF y
    <2>4. (derived \o y) \o t = derived \o (y \o t)
        BY ONLY <2>1, <2>3, derived \in Seq(Block), ConcatThree, SMTT(60)
    <2> QED BY <2>1, <2>2, <2>3, <2>4 DEF y
<1> QED BY <1>2, <1>3

\* What has been read is in front of what is on L1.
LEMMA InFront ==
    ASSUME NEW s \in Seq(Seq(Frames)), NEW t \in Seq(Seq(Frames)),
           NEW fs \in Seq(Frames), NEW v \in Seq(Frames), FlattenSeq(s) = fs \o v
    PROVE  \E rest \in Seq(Frames) : FlattenSeq(s \o t) = fs \o rest
<1> DEFINE z == FlattenSeq(t)
<1>1. z \in Seq(Frames) /\ FlattenSeq(s \o t) = FlattenSeq(s) \o z
    BY FlattenConcat, FlattenType
<1> HIDE DEF z
<1>2. (fs \o v) \o z = fs \o (v \o z)
    BY ONLY <1>1, fs \in Seq(Frames), v \in Seq(Frames), FramesInARow, SMTT(60)
<1>3. v \o z \in Seq(Frames)
    BY <1>1
<1> QED BY <1>1, <1>2, <1>3

\* The reader takes a block.
LEMMA DrainedDecode ==
    ASSUME DeriverIInv, NEW read, Drained(read), NEW l, DecodeBatch(l)
    PROVE  Drained(read)'
<1>1. PICK left \in Seq(Block) :
          /\ reader = <<Packed(left)>> \/ (reader = <<>> /\ left = <<>>)
          /\ derived \o left = Given(read, IF ReadyAt = {} THEN Top(read) ELSE Top(read) - 1)
    BY DEF Drained, HandedOn
<1>2. reader = <<Packed(left)>> /\ reader[1] = Packed(left)
    BY <1>1 DEF DecodeBatch
<1>3. AtEnd(Packed(left)) \/ Whole(Packed(left))
    BY ReadWhole
<1>4. ReadBatch(l, Packed(left)) /\ bank' = bank
    BY <1>2, <1>3 DEF DecodeBatch
<1>5. derived \in Seq(Block)
    BY DEF DeriverIInv, DeliveryTyped
<1>6. HandedOn(read)'
    <2>1. PICK more \in Seq(Block) :
              /\ reader' = <<Packed(more)>> \/ (reader' = <<>> /\ more = <<>>)
              /\ derived' \o more = derived \o left
        BY <1>4, <1>5, ReadMore
    <2>2. ReadyAt' = ReadyAt
        BY <1>4 DEF ReadyAt
    <2> QED BY <1>1, <2>1, <2>2 DEF HandedOn
<1> QED BY <1>4, <1>6 DEF Drained, ReadyAt

\* A channel that is ready is read.
LEMMA DrainedOpen ==
    ASSUME DeriverIInv, NEW read, Sound(read), Drained(read), NEW l, OpenChannel(l)
    PROVE  Drained(read)' \/ UNCHANGED <<bank, reader, derived>>
<1> DEFINE ch(k) == bank[k]
           n == Top(read)
<1>0. BankTyped(bank) /\ derived \in Seq(Block) /\ reader = <<>>
    BY DEF DeriverIInv, StagesTyped, DeliveryTyped, OpenChannel
<1>1. PICK k \in ReadyAt :
          IF Readable(bank[k])
          THEN IF AtEnd(ChannelData(bank[k])) \/ Whole(ChannelData(bank[k]))
               THEN ReadBatch(l, ChannelData(bank[k])) /\ bank' = RemoveAt(bank, k)
               ELSE Throw(l)
          ELSE Throw(l)
    BY DEF OpenChannel
<1>2. k \in DOMAIN bank /\ bank[k] = ChannelOf(read, n) /\ bank[k].id = n /\ IsReady(bank[k])
    BY DEF ReadyAt, Drained
<1>3. n \in Nat \ {0}
    <2>1. bank[k] \in Channels
        BY <1>0, <1>2 DEF BankTyped
    <2> QED BY <1>2, <2>1 DEF Channels
<1>4. /\ Content(read, n) \in Seq(Block)
      /\ Readable(bank[k]) /\ LastFrames(bank[k]) # {}
      /\ ChannelData(bank[k]) = Packed(Content(read, n))
    <2> HIDE DEF n
    <2> QED BY <1>2, <1>3 DEF Sound, IsComplete
<1>5. AtEnd(Packed(Content(read, n))) \/ Whole(Packed(Content(read, n)))
    BY <1>4, ReadWhole
<1>6. ReadBatch(l, Packed(Content(read, n))) /\ bank' = RemoveAt(bank, k)
    BY <1>1, <1>4, <1>5
<1>7. /\ \A j \in DOMAIN bank' : \E i \in DOMAIN bank \ {k} : bank'[j] = bank[i]
      /\ \A i \in DOMAIN bank \ {k} : \E j \in DOMAIN bank' : bank'[j] = bank[i]
    BY <1>0, <1>2, <1>6, RemoveFromBank
<1>8. \A j \in DOMAIN bank' : bank'[j] = ChannelOf(read, bank'[j].id)
    BY <1>7 DEF Drained
<1>9. ASSUME NEW f \in ToSet(read)
      PROVE  \/ \E j \in DOMAIN bank' : bank'[j].id = f.chan
             \/ LastFrames(ChannelOf(read, f.chan)) # {}
    <2>1. CASE f.chan = n
        BY <1>2, <1>4, <2>1
    <2>2. CASE f.chan # n
        <3>1. \A i \in DOMAIN bank : bank[i].id = f.chan => i \in DOMAIN bank \ {k}
            BY <1>2, <2>2
        <3> QED BY <1>7, <3>1 DEF Drained
    <2> QED BY <2>1, <2>2
<1>10. ReadyAt' = {}
    <2> SUFFICES ASSUME NEW j \in DOMAIN bank', IsReady(bank'[j]) PROVE FALSE
        BY DEF ReadyAt
    <2>1. PICK i \in DOMAIN bank \ {k} : bank'[j] = bank[i]
        BY <1>7
    <2>2. i \in ReadyAt
        BY <2>1 DEF ReadyAt
    <2>3. bank[i].id = bank[k].id
        BY <1>2, <2>2 DEF Drained
    <2> QED BY <1>0, <1>2, <2>3 DEF BankTyped
<1>11. HandedOn(read)'
    <2>1. derived = Given(read, n - 1)
        <3>1. PICK left \in Seq(Block) :
                  /\ reader = <<Packed(left)>> \/ (reader = <<>> /\ left = <<>>)
                  /\ derived \o left = Given(read, IF ReadyAt = {} THEN Top(read) ELSE Top(read) - 1)
            BY DEF Drained, HandedOn
        <3>2. left = <<>> /\ derived \o left = Given(read, n - 1)
            BY <1>0, <3>1
        <3>3. derived \o <<>> = derived
            BY <1>0, ConcatEmptySeq
        <3> QED BY <3>2, <3>3
    <2>2. Given(read, n) = Given(read, n - 1) \o Content(read, n)
        <3>1. n - 1 \in Nat /\ (n - 1) + 1 = n
            BY <1>3
        <3> HIDE DEF n
        <3>2. Given(read, (n - 1) + 1) = Given(read, n - 1) \o Content(read, (n - 1) + 1)
            BY <3>1, GivenNext
        <3> QED BY <3>1, <3>2
    <2>3. PICK more \in Seq(Block) :
              /\ reader' = <<Packed(more)>> \/ (reader' = <<>> /\ more = <<>>)
              /\ derived' \o more = derived \o Content(read, n)
        BY <1>0, <1>4, <1>6, ReadMore
    <2>4. derived' \o more = Given(read, n)
        BY <2>1, <2>2, <2>3
    <2> QED BY <1>10, <2>3, <2>4 DEF HandedOn
<1>12. \A j \in ReadyAt' : bank'[j].id = Top(read)
    BY <1>10
<1>13. Drained(read)'
    BY <1>8, <1>9, <1>11, <1>12 DEF Drained
<1> QED BY <1>13

\* A frame is ingested.
LEMMA DrainedIngest ==
    ASSUME DeriverIInv, NEW read, NEW f \in Frames, Sound(read), Sound(Append(read, f)),
           Drained(read), reader = <<>>, ReadyAt = {}, Ingest(f), UNCHANGED <<reader, derived>>
    PROVE  Drained(Append(read, f))'
<1> DEFINE more == Append(read, f)
           c == f.chan
           at == {k \in DOMAIN bank : bank[k].id = c}
<1>0. BankTyped(bank) /\ derived \in Seq(Block) /\ bank \in Seq(Channels)
      /\ DOMAIN bank = 1 .. Len(bank) /\ Len(bank) \in Nat
    BY DEF DeriverIInv, StagesTyped, DeliveryTyped, BankTyped
<1>1. /\ Top(more) = c /\ Top(read) <= c /\ c \in Nat \ {0}
      /\ \A d : d # c => ChannelOf(more, d) = ChannelOf(read, d)
      /\ ChannelOf(more, c).inputs = ChannelOf(read, c).inputs \cup {f}
      /\ \A d \in Nat : c <= d => LastFrames(ChannelOf(read, d)) = {} /\ Content(read, d) = <<>>
    BY OneMore
<1>2. /\ \A k \in DOMAIN bank : bank[k] = ChannelOf(read, bank[k].id)
      /\ \A g \in ToSet(read) : \/ \E k \in DOMAIN bank : bank[k].id = g.chan
                                \/ LastFrames(ChannelOf(read, g.chan)) # {}
    BY DEF Drained
<1>3. ToSet(more) = ToSet(read) \cup {f}
    <2>1. read \in Seq(Frames)
        BY DEF Sound
    <2>2. /\ DOMAIN read = 1 .. Len(read) /\ DOMAIN more = 1 .. Len(read) + 1 /\ Len(read) \in Nat
          /\ more[Len(read) + 1] = f /\ \A k \in 1 .. Len(read) : more[k] = read[k]
        BY <2>1, AppendAt
    <2>3. /\ \A k \in 1 .. Len(read) + 1 : k = Len(read) + 1 \/ k \in 1 .. Len(read)
          /\ \A k \in 1 .. Len(read) : k \in 1 .. Len(read) + 1
          /\ Len(read) + 1 \in 1 .. Len(read) + 1
        BY <2>2
    <2> HIDE DEF more
    <2> QED BY <2>2, <2>3 DEF ToSet
<1> HIDE DEF more, c
\* The channel of the frame is in the bank now, and the others are as they were.
<1> DEFINE Joined ==
           /\ \A k \in DOMAIN bank' : bank'[k] = ChannelOf(more, bank'[k].id)
           /\ \A k \in DOMAIN bank : \E j \in DOMAIN bank' : bank'[j].id = bank[k].id
           /\ \E k \in DOMAIN bank' : bank'[k].id = c
           /\ \A k \in DOMAIN bank' : bank'[k].id # c => \E j \in DOMAIN bank : bank'[k] = bank[j]
<1>3a. Joined
    <2>1. CASE at = {} /\ bank' = Append(bank, [id |-> c, inputs |-> {f}])
        <3> DEFINE new == [id |-> c, inputs |-> {f}]
                   m == Len(bank)
        <3>1. new = ChannelOf(more, c)
            <4>1. ChannelOf(read, c).inputs = {}
                <5> SUFFICES ASSUME NEW g \in ToSet(read), g.chan = c PROVE FALSE
                    BY DEF ChannelOf
                <5>1. LastFrames(ChannelOf(read, c)) # {}
                    BY <1>2, <2>1
                <5> QED BY <1>1, <5>1
            <4>2. ChannelOf(more, c).inputs = {f} /\ ChannelOf(more, c).id = c
                BY <1>1, <4>1 DEF ChannelOf
            <4> QED BY <4>2 DEF ChannelOf
        <3>2. new \in Channels /\ new.id = c
            BY <1>1 DEF Channels, Frames
        <3>3. bank' = Append(bank, new)
            BY <2>1
        <3> HIDE DEF new
        <3>4. /\ DOMAIN bank' = 1 .. m + 1 /\ bank'[m + 1] = new
              /\ \A k \in 1 .. m : bank'[k] = bank[k]
            BY <1>0, <3>2, <3>3, AppendAt
        <3>5. /\ \A k \in 1 .. m + 1 : k = m + 1 \/ k \in 1 .. m
              /\ \A k \in 1 .. m : k \in 1 .. m + 1
              /\ m + 1 \in 1 .. m + 1
            BY <1>0
        <3>6. \A k \in 1 .. m : bank[k].id # c /\ bank[k] = ChannelOf(more, bank[k].id)
            BY <1>0, <1>1, <1>2, <2>1
        <3>7. \A k \in DOMAIN bank' : bank'[k] = ChannelOf(more, bank'[k].id)
            BY <3>1, <3>2, <3>4, <3>5, <3>6
        <3>8. \A k \in DOMAIN bank : \E j \in DOMAIN bank' : bank'[j].id = bank[k].id
            BY <1>0, <3>4, <3>5
        <3>9. \E k \in DOMAIN bank' : bank'[k].id = c
            BY <3>2, <3>4, <3>5
        <3>10. \A k \in DOMAIN bank' : bank'[k].id # c => \E j \in DOMAIN bank : bank'[k] = bank[j]
            BY <1>0, <3>2, <3>4, <3>5
        <3> QED BY <3>7, <3>8, <3>9, <3>10
    <2>2. ASSUME NEW k \in at, bank' = [bank EXCEPT ![k].inputs = @ \cup {f}] PROVE Joined
        <3> DEFINE grown == [bank[k] EXCEPT !.inputs = @ \cup {f}]
        <3>1. bank' = [bank EXCEPT ![k] = grown] /\ k \in DOMAIN bank /\ bank[k].id = c
            BY <1>0, <2>2
        <3>2. bank[k] \in Channels /\ bank[k] = ChannelOf(read, c)
            BY <1>0, <1>2, <3>1
        <3>3. grown = ChannelOf(more, c) /\ grown.id = c
            <4>1. grown = [id |-> c, inputs |-> bank[k].inputs \cup {f}]
                <5>1. PICK i \in Nat \ {0}, x \in SUBSET Frames : bank[k] = [id |-> i, inputs |-> x]
                    BY <3>2 DEF Channels
                <5>2. i = c
                    BY <3>1, <5>1
                <5>3. grown = [[id |-> i, inputs |-> x] EXCEPT !.inputs = @ \cup {f}]
                    BY <5>1
                <5>4. grown = [id |-> i, inputs |-> x \cup {f}]
                    BY ONLY <5>3
                <5>5. bank[k].inputs = x
                    BY ONLY <5>1
                <5> QED BY ONLY <5>2, <5>4, <5>5
            <4>2. bank[k].inputs \cup {f} = ChannelOf(more, c).inputs
                BY <1>1, <3>2
            <4> QED BY <4>1, <4>2 DEF ChannelOf
        <3> HIDE DEF grown
        <3>4. DOMAIN bank' = DOMAIN bank
              /\ \A j \in DOMAIN bank : bank'[j] = IF j = k THEN grown ELSE bank[j]
            BY <1>0, <3>1
        <3>5. \A j \in DOMAIN bank : bank'[j].id = bank[j].id /\ (bank[j].id = c => j = k)
            BY <1>0, <3>1, <3>3, <3>4 DEF BankTyped
        <3>6. \A j \in DOMAIN bank' : bank'[j] = ChannelOf(more, bank'[j].id)
            <4> SUFFICES ASSUME NEW j \in DOMAIN bank' PROVE bank'[j] = ChannelOf(more, bank'[j].id)
                OBVIOUS
            <4>1. CASE j = k
                BY <3>3, <3>4, <4>1
            <4>2. CASE j # k
                <5>1. j \in DOMAIN bank /\ bank'[j] = bank[j] /\ bank[j].id # c
                    BY <3>4, <3>5, <4>2
                <5> QED BY <1>1, <1>2, <5>1
            <4> QED BY <4>1, <4>2
        <3>7. \A j \in DOMAIN bank' : bank'[j].id # c => \E i \in DOMAIN bank : bank'[j] = bank[i]
            BY <3>1, <3>4, <3>5
        <3> QED BY <3>1, <3>4, <3>5, <3>6, <3>7
    <2>3. \/ at = {} /\ bank' = Append(bank, [id |-> c, inputs |-> {f}])
          \/ \E k \in at : bank' = [bank EXCEPT ![k].inputs = @ \cup {f}]
        BY DEF Ingest, c
    <2> HIDE DEF Joined, at
    <2> QED BY <2>1, <2>2, <2>3
<1>4. Joined
    BY <1>3a
<1>5. ASSUME NEW g \in ToSet(more)
      PROVE  \/ \E k \in DOMAIN bank' : bank'[k].id = g.chan
             \/ LastFrames(ChannelOf(more, g.chan)) # {}
    <2>1. CASE g.chan = c
        BY <1>4, <2>1
    <2>2. CASE g.chan # c
        <3>1. g \in ToSet(read) /\ ChannelOf(more, g.chan) = ChannelOf(read, g.chan)
            BY <1>1, <1>3, <2>2 DEF c
        <3> QED BY <1>2, <1>4, <3>1
    <2> QED BY <2>1, <2>2
<1>6. ASSUME NEW k \in ReadyAt' PROVE bank'[k].id = c
    <2> SUFFICES ASSUME bank'[k].id # c PROVE FALSE
        OBVIOUS
    <2>1. k \in DOMAIN bank' /\ IsReady(bank'[k])
        BY DEF ReadyAt
    <2>2. PICK j \in DOMAIN bank : bank'[k] = bank[j]
        BY <1>4, <2>1
    <2>3. j \in ReadyAt
        BY <2>1, <2>2 DEF ReadyAt
    <2> QED BY <2>3
<1>7. derived = Given(more, c - 1)
    <2> DEFINE n == Top(read)
    <2>0. c - 1 \in Nat /\ (c - 1) + 1 = c /\ c \in Nat
        BY <1>1
    <2>1. derived = Given(read, n)
        <3>1. PICK left \in Seq(Block) :
                  /\ reader = <<Packed(left)>> \/ (reader = <<>> /\ left = <<>>)
                  /\ derived \o left = Given(read, IF ReadyAt = {} THEN Top(read) ELSE Top(read) - 1)
            BY DEF Drained, HandedOn
        <3>2. left = <<>> /\ derived \o left = Given(read, n)
            BY <3>1
        <3>3. derived \o <<>> = derived
            BY <1>0, ConcatEmptySeq
        <3> QED BY <3>2, <3>3
    <2>2. Given(more, c - 1) = Given(read, c - 1)
        <3>1. \A d \in 1 .. c - 1 : d # c
            BY <2>0
        <3>2. \A d \in 1 .. c - 1 : ChannelOf(more, d) = ChannelOf(read, d)
            BY <1>1, <3>1
        <3> QED BY <3>2, GivenSame
    <2>3. n \in Nat /\ \A g \in ToSet(read) : g.chan \in Nat \ {0} /\ g.chan <= n
        BY TopIs
    <2>4. ASSUME NEW d \in Nat, n < d PROVE Content(read, d) = <<>>
        <3>1. \A g \in ToSet(read) : g.chan # d
            BY <2>3, <2>4
        <3>2. LastFrames(ChannelOf(read, d)) = {}
            BY <3>1 DEF LastFrames, ChannelOf
        <3> QED BY <3>2 DEF Content, BlocksOfChannel, IsComplete
    <2>5. CASE n = c
        <3>1. Given(read, (c - 1) + 1) = Given(read, c - 1) \o Content(read, (c - 1) + 1)
              /\ Given(read, c - 1) \in Seq(Block)
            BY <2>0, GivenNext
        <3>2. Content(read, c) = <<>>
            BY <1>1, <2>0
        <3>3. Given(read, c) = Given(read, c - 1)
            BY <2>0, <3>1, <3>2, ConcatEmptySeq
        <3> QED BY <2>1, <2>2, <2>5, <3>3
    <2>6. CASE n # c
        <3>1. n <= c - 1
            BY <1>1, <2>0, <2>3, <2>6
        <3> HIDE DEF n
        <3>2. Given(read, c - 1) = Given(read, n)
            BY <2>0, <2>3, <2>4, <3>1, GivenStays
        <3> QED BY <2>1, <2>2, <3>2
    <2> QED BY <2>5, <2>6
<1>8. ASSUME ReadyAt' = {} PROVE Given(more, c) = Given(more, c - 1)
    <2>0. c - 1 \in Nat /\ (c - 1) + 1 = c
        BY <1>1
    <2>1. PICK k \in DOMAIN bank' : bank'[k].id = c
        BY <1>4
    <2>2. ~ IsReady(ChannelOf(more, c))
        BY <1>4, <1>8, <2>1 DEF ReadyAt
    <2>3. Content(more, c) = <<>>
        <3>1. ~ IsComplete(ChannelOf(more, c))
            BY <2>2 DEF IsReady, IsComplete, Readable
        <3> QED BY <3>1 DEF Content, BlocksOfChannel
    <2>4. Sound(more)
        BY DEF more
    <2>5. Given(more, (c - 1) + 1) = Given(more, c - 1) \o Content(more, (c - 1) + 1)
          /\ Given(more, c - 1) \in Seq(Block)
        BY <2>0, <2>4, GivenNext
    <2> QED BY <2>0, <2>3, <2>5, ConcatEmptySeq
<1>9. HandedOn(more)'
    <2>1. reader' = <<>> /\ derived' = derived /\ <<>> \in Seq(Block) /\ derived \o <<>> = derived
        BY <1>0, ConcatEmptySeq
    <2>2. derived = Given(more, IF ReadyAt' = {} THEN Top(more) ELSE Top(more) - 1)
        BY <1>1, <1>7, <1>8
    <2> QED BY <2>1, <2>2 DEF HandedOn
<1>10. Drained(more)'
    BY <1>1, <1>4, <1>5, <1>6, <1>9 DEF Drained
<1> QED BY <1>10 DEF more

\* A list is a prefix of itself with another behind it.
LEMMA PrefixIs ==
    ASSUME NEW S, NEW x \in Seq(S), NEW y \in Seq(S)
    PROVE  IsPrefix(x, x \o y)
<1>1. Len(x) \in Nat /\ Len(y) \in Nat /\ Len(x \o y) = Len(x) + Len(y)
    BY ConcatAt
<1>2. SubSeq(x, 1, Len(x)) = x
    BY SubSeqFull
<1>3. CASE Len(x) = 0
    <2>1. SubSeq(x, 1, 0) = <<>> /\ SubSeq(x \o y, 1, 0) = <<>>
        BY SubSeqEmpty
    <2> QED BY <1>1, <1>3, <2>1 DEF IsPrefix
<1>4. CASE Len(x) # 0
    <2>1. 1 \in 1 .. Len(x) /\ Len(x) \in 1 .. Len(x)
        BY <1>1, <1>4
    <2>2. SubSeq(x \o y, 1, Len(x)) = SubSeq(x, 1, Len(x))
        BY <2>1, SubSeqOfConcat1
    <2>3. Len(x) <= Len(x \o y)
        BY <1>1
    <2> QED BY <2>2, <2>3 DEF IsPrefix
<1> QED BY <1>3, <1>4

\* What fewer frames give comes first.
LEMMA GivenFirst ==
    ASSUME NEW read \in Seq(Frames), NEW rest \in Seq(Frames), Sound(read), Sound(read \o rest),
           NEW n \in Nat, n <= Top(read)
    PROVE  \E t \in Seq(Block) :
               Given(read \o rest, Top(read \o rest)) = Given(read, n) \o t
<1> DEFINE fl == read \o rest
           m == Top(read)
           k == Len(read)
<1>1. /\ DOMAIN fl = 1 .. k + Len(rest) /\ k \in Nat /\ Len(rest) \in Nat
      /\ \A j \in 1 .. k : fl[j] = read[j]
      /\ \A j \in 1 .. Len(rest) : fl[k + j] = rest[j]
      /\ \A j \in 1 .. k + Len(rest) : j \in 1 .. k \/ (j - k \in 1 .. Len(rest) /\ j = k + (j - k))
    BY ConcatAt
<1>2. DOMAIN read = 1 .. k /\ fl \in Seq(Frames)
    OBVIOUS
<1> HIDE DEF fl, k
<1>3. /\ \A j \in 1 .. k : j \in DOMAIN fl
      /\ \A j \in DOMAIN fl : j \in 1 .. k \/ (j > k /\ j \in Nat)
    BY <1>1
<1>4. ToSet(read) \subseteq ToSet(fl)
    BY <1>1, <1>2, <1>3 DEF ToSet
<1>5. /\ m \in Nat /\ \A f \in ToSet(read) : f.chan \in Nat \ {0} /\ f.chan <= m
      /\ Top(fl) \in Nat /\ \A f \in ToSet(fl) : f.chan \in Nat \ {0} /\ f.chan <= Top(fl)
    <2>1. Sound(fl)
        BY DEF fl
    <2> QED BY <2>1, TopIs
\* The newest channel read is that of the last frame read.
<1>6. CASE read = <<>>
    <2>1. m = 0 /\ n = 0
        BY <1>6 DEF Top
    <2>2. Given(fl, Top(fl)) \in Seq(Block)
        <3>1. Sound(fl)
            BY DEF fl
        <3> QED BY <1>5, <3>1, GivenNext
    <2>3. Given(read, n) = <<>>
        BY <2>1, GivenNone
    <2>4. <<>> \o Given(fl, Top(fl)) = Given(fl, Top(fl))
        BY <2>2, ConcatEmptySeq
    <2> QED BY <2>2, <2>3, <2>4 DEF fl
<1>7. CASE read # <<>>
    <2>1. k # 0 /\ k \in DOMAIN fl /\ fl[k].chan = m /\ k \in 1 .. k
        <3>1. k # 0 /\ Top(read) = read[k].chan
            BY <1>2, <1>7 DEF Top, Last, k
        <3>2. k \in 1 .. k
            BY <1>1, <3>1
        <3> QED BY <1>1, <1>3, <3>1, <3>2
    <2>2. m <= Top(fl)
        <3>1. fl[k] \in ToSet(fl)
            BY <2>1 DEF ToSet
        <3> QED BY <1>5, <2>1, <3>1
    \* The frames behind are not of older channels.
    <2>3. ASSUME NEW j \in DOMAIN fl, j \notin 1 .. k PROVE m <= fl[j].chan
        <3>1. k \in 1 .. j - 1
            BY <1>1, <1>3, <2>1, <2>3
        <3>2. Ascending(fl)
            BY DEF Sound, fl
        <3> QED BY <2>1, <3>1, <3>2 DEF Ascending
    <2>4. ASSUME NEW c, \A j \in DOMAIN fl : j \notin 1 .. k => fl[j].chan # c
          PROVE  ChannelOf(read, c) = ChannelOf(fl, c)
        <3>1. \A f \in ToSet(fl) : f.chan = c => f \in ToSet(read)
            BY <1>1, <1>2, <2>4 DEF ToSet
        <3> QED BY <1>4, <3>1 DEF ChannelOf
    <2>5. ASSUME NEW c \in Nat, c < m PROVE ChannelOf(read, c) = ChannelOf(fl, c)
        <3>1. \A j \in DOMAIN fl : j \notin 1 .. k => fl[j].chan # c
            <4> SUFFICES ASSUME NEW j \in DOMAIN fl, j \notin 1 .. k, fl[j].chan = c PROVE FALSE
                OBVIOUS
            <4>1. m <= c
                BY <2>3
            <4> QED BY <1>5, <2>5, <4>1
        <3> QED BY <2>4, <3>1
    <2>6. ASSUME NEW i \in Nat, i < m PROVE Given(read, i) = Given(fl, i)
        <3>1. \A c \in 1 .. i : c \in Nat /\ c < m
            BY <1>5, <2>6
        <3> QED BY <2>5, <3>1, GivenSame
    \* Nor of the newest one, once it is complete.
    <2>7. ASSUME IsComplete(ChannelOf(read, m)) PROVE ChannelOf(read, m) = ChannelOf(fl, m)
        <3>1. PICK g \in ToSet(read) : g.chan = m /\ g.isLast
            BY <2>7 DEF IsComplete, LastFrames, ChannelOf
        <3>2. PICK i \in 1 .. k : read[i] = g
            BY <1>2, <3>1 DEF ToSet
        <3>3. i \in DOMAIN fl /\ fl[i] = g
            BY <1>1, <1>3, <3>2
        <3>4. FullBefore(fl) /\ NoLastFull(fl)
            BY DEF Sound, fl
        <3>5. ASSUME NEW j \in DOMAIN fl, j \notin 1 .. k, fl[j].chan = m PROVE FALSE
            <4>1. i \in 1 .. j - 1
                BY <1>1, <1>3, <3>2, <3>5
            <4>2. Len(g.data) = MaxData
                BY <3>1, <3>3, <3>4, <3>5, <4>1 DEF FullBefore
            <4> QED BY <3>1, <3>3, <3>4, <4>2 DEF NoLastFull
        <3> QED BY <2>4, <3>5
    \* So what is given is what the same channels give in the end, or fewer.
    <2>8. PICK i \in Nat : i <= Top(fl) /\ Given(read, n) = Given(fl, i)
        <3>1. CASE n < m
            <4>1. n <= Top(fl)
                BY <1>5, <2>2, <3>1
            <4> QED BY <2>6, <3>1, <4>1
        <3>2. CASE n = m /\ IsComplete(ChannelOf(read, m))
            <4>1. \A c \in 1 .. m : c = m \/ (c \in Nat /\ c < m)
                BY <1>5
            <4>2. \A c \in 1 .. m : ChannelOf(read, c) = ChannelOf(fl, c)
                BY <2>5, <2>7, <3>2, <4>1
            <4>3. Given(read, m) = Given(fl, m)
                BY <4>2, GivenSame
            <4> QED BY <1>5, <2>2, <3>2, <4>3
        <3>3. CASE n = m /\ ~ IsComplete(ChannelOf(read, m))
            <4>1. m # 0
                <5>1. read[k] \in ToSet(read) /\ read[k].chan = m
                    BY <1>1, <1>2, <2>1 DEF ToSet
                <5> QED BY <1>5, <5>1
            <4>2. m - 1 \in Nat /\ (m - 1) + 1 = m /\ m - 1 < m
                BY <1>5, <4>1
            <4>3. Content(read, m) = <<>>
                BY <3>3 DEF Content, BlocksOfChannel
            <4>4. Given(read, (m - 1) + 1) = Given(read, m - 1) \o Content(read, (m - 1) + 1)
                  /\ Given(read, m - 1) \in Seq(Block)
                BY <4>2, GivenNext
            <4>5. Given(read, m) = Given(read, m - 1)
                BY <4>2, <4>3, <4>4, ConcatEmptySeq
            <4>6. Given(read, m - 1) = Given(fl, m - 1)
                BY <2>6, <4>2
            <4>7. m - 1 <= Top(fl)
                BY <1>5, <2>2, <4>2
            <4> QED BY <3>3, <4>2, <4>5, <4>6, <4>7
        <3> QED BY <1>5, <3>1, <3>2, <3>3
    <2>9. \E t \in Seq(Block) : Given(fl, Top(fl)) = Given(fl, i) \o t
        <3>1. Sound(fl)
            BY DEF fl
        <3> QED BY <1>5, <2>8, <3>1, GivenGrows
    <2> QED BY <2>8, <2>9 DEF fl
<1> QED BY <1>6, <1>7

\* The frames on L1 are those of its blocks in a row.
LEMMA FramesInRow ==
    \A s \in Seq(Seq(Frames)) : UNION {ToSet(s[n]) : n \in DOMAIN s} = ToSet(FlattenSeq(s))
<1> DEFINE All(s) == UNION {ToSet(s[n]) : n \in DOMAIN s}
           C == {s \in Seq(Seq(Frames)) : All(s) = ToSet(FlattenSeq(s))}
<1>1. <<>> \in C
    <2>1. <<>> \in Seq(Seq(Frames)) /\ DOMAIN <<>> = {}
        OBVIOUS
    <2> QED BY <2>1, FlattenEmpty DEF ToSet
<1>2. ASSUME NEW s \in Seq(Seq(Frames)), NEW e \in Seq(Frames), s \in C PROVE Append(s, e) \in C
    <2> DEFINE t == Append(s, e)
               x == FlattenSeq(s)
               n == Len(s)
    <2>1. /\ t \in Seq(Seq(Frames)) /\ n \in Nat /\ DOMAIN s = 1 .. n /\ DOMAIN t = 1 .. n + 1
          /\ t[n + 1] = e /\ \A k \in 1 .. n : t[k] = s[k]
        BY AppendAt
    <2>2. /\ \A k \in 1 .. n + 1 : k = n + 1 \/ k \in 1 .. n
          /\ \A k \in 1 .. n : k \in 1 .. n + 1
          /\ n + 1 \in 1 .. n + 1
        BY <2>1
    <2>3. FlattenSeq(t) = x \o e /\ x \in Seq(Frames)
        BY FlattenAppend, FlattenType
    <2>4. All(s) = ToSet(x)
        BY <1>2
    <2> HIDE DEF t, x, n
    <2>5. All(t) = All(s) \cup ToSet(e)
        BY <2>1, <2>2
    <2>6. ToSet(x \o e) = ToSet(x) \cup ToSet(e)
        <3>1. /\ DOMAIN (x \o e) = 1 .. Len(x) + Len(e) /\ Len(x) \in Nat /\ Len(e) \in Nat
              /\ \A k \in 1 .. Len(x) : (x \o e)[k] = x[k]
            BY <2>3, ConcatAt
        <3>2. /\ \A k \in 1 .. Len(e) : (x \o e)[Len(x) + k] = e[k]
              /\ \A k \in 1 .. Len(x) + Len(e) :
                    \/ k \in 1 .. Len(x)
                    \/ k - Len(x) \in 1 .. Len(e) /\ k = Len(x) + (k - Len(x))
            BY <2>3, ConcatAt
        <3>3. DOMAIN x = 1 .. Len(x) /\ DOMAIN e = 1 .. Len(e)
            BY <2>3
        <3>4. (\A k \in 1 .. Len(x) : k \in 1 .. Len(x) + Len(e))
              /\ (\A k \in 1 .. Len(e) : Len(x) + k \in 1 .. Len(x) + Len(e))
            BY <3>1
        <3>5. ToSet(x) \cup ToSet(e) \subseteq ToSet(x \o e)
            BY <3>1, <3>2, <3>3, <3>4 DEF ToSet
        <3>6. ASSUME NEW k \in 1 .. Len(x) + Len(e) PROVE (x \o e)[k] \in ToSet(x) \cup ToSet(e)
            <4>1. CASE k \in 1 .. Len(x)
                BY <3>1, <3>3, <4>1 DEF ToSet
            <4>2. CASE k - Len(x) \in 1 .. Len(e) /\ k = Len(x) + (k - Len(x))
                <5>1. (x \o e)[k] = e[k - Len(x)]
                    BY <3>2, <4>2
                <5> QED BY <3>3, <4>2, <5>1 DEF ToSet
            <4> QED BY <3>2, <4>1, <4>2
        <3>7. ToSet(x \o e) \subseteq ToSet(x) \cup ToSet(e)
            BY <3>1, <3>6 DEF ToSet
        <3> QED BY <3>5, <3>7
    <2>7. t \in C
        BY <2>1, <2>3, <2>4, <2>5, <2>6
    <2> QED BY <2>7 DEF t
<1>3. Seq(Seq(Frames)) \subseteq C
    <2> HIDE DEF C
    <2> QED BY <1>1, <1>2, SeqInduct
<1> QED BY <1>3

\* The blocks on L1 are those its channels give.
LEMMA OnL1 ==
    ASSUME l1 \in Seq(Seq(Frames)), Sound(FlattenSeq(l1))
    PROVE  BlocksOnL1 = Given(FlattenSeq(l1), Top(FlattenSeq(l1)))
<1> DEFINE fl == FlattenSeq(l1)
           S == {0} \cup {f.chan : f \in FramesOnL1}
<1>1. FramesOnL1 = ToSet(fl)
    BY FramesInRow DEF FramesOnL1
<1>2. Sound(fl)
    OBVIOUS
<1> HIDE DEF fl
<1>3. \A c : ChannelOnL1(c) = ChannelOf(fl, c)
    BY <1>1 DEF ChannelOnL1, ChannelOf
<1>4. Top(fl) \in Nat /\ \A f \in ToSet(fl) : f.chan \in Nat \ {0} /\ f.chan <= Top(fl)
    BY <1>2, TopIs
<1>5. Top(fl) \in S
    <2>1. CASE fl = <<>>
        BY <2>1 DEF Top
    <2>2. CASE fl # <<>>
        <3>1. fl \in Seq(Frames)
            BY <1>2 DEF Sound
        <3>2. Top(fl) = fl[Len(fl)].chan /\ Len(fl) \in DOMAIN fl
            BY <2>2, <3>1 DEF Top, Last
        <3>3. fl[Len(fl)] \in ToSet(fl)
            BY <3>2 DEF ToSet
        <3> QED BY <1>1, <3>2, <3>3
    <2> QED BY <2>1, <2>2
<1>6. S \subseteq Nat /\ \A c \in S : c <= Top(fl)
    BY <1>1, <1>4
<1>7. Max(S) = Top(fl)
    <2> HIDE DEF S
    <2>1. Max(S) \in S /\ Max(S) >= Top(fl)
        BY <1>4, <1>5, <1>6 DEF Max
    <2>2. Max(S) \in Nat /\ Max(S) <= Top(fl) /\ Max(S) >= Top(fl) /\ Top(fl) \in Nat
        BY <1>4, <1>6, <2>1
    <2> DEFINE x == Max(S)
               y == Top(fl)
    <2>3. x \in Nat /\ x <= y /\ x >= y /\ y \in Nat
        BY <2>2
    <2> HIDE DEF x, y
    <2>4. x = y
        BY ONLY <2>3
    <2> QED BY <2>4 DEF x, y
<1>8. \A c \in 1 .. Top(fl) : BlocksOfChannel(ChannelOnL1(c)) = Content(fl, c)
    BY <1>3 DEF Content
<1>9. BlocksOnL1 = FlattenSeq([c \in 1 .. Top(fl) |-> BlocksOfChannel(ChannelOnL1(c))])
    BY <1>7 DEF BlocksOnL1
<1>10. [c \in 1 .. Top(fl) |-> BlocksOfChannel(ChannelOnL1(c))] = [c \in 1 .. Top(fl) |-> Content(fl, c)]
    BY <1>8, Zenon
<1> QED BY <1>9, <1>10 DEF Given, fl

-----------------------------------------------------------------------------
(* The deriver hands on what is complete on L1. *)

\* A call asks L1 for a block when its stages have nothing.
FetchesForMore == \A l \in Derivations : deriverAt[l] = "fetch" => NeedsFrame(l)

\* What the deriver has handed on is known of the frames it has read.
DrainedIn == \E s, t \in Seq(Seq(Frames)), read \in Seq(Frames) : PlacedAt(s, t, read) /\ Drained(read)

\* The inductive invariant of DerivesCompleteChannels.
DerivedIInv ==
    /\ PipeTypeIInv /\ ChainIInv /\ PlacedIInv /\ FetchesForMore
    /\ SomeLastFull \/ DrainedIn

\* A call comes to ask in one way.
LEMMA FetchesStep ==
    ASSUME OneDerivation, DeriverIInv, FetchesForMore, [PipelineNext]_pipelineVars
    PROVE  FetchesForMore'
<1>0. deriverAt \in [Derivations -> DeriverPlaces]
    BY DEF DeriverIInv
<1>1. ASSUME UNCHANGED <<deriverAt, bank, reader>> PROVE FetchesForMore'
    BY <1>1 DEF FetchesForMore, NeedsFrame, ReadyAt
<1>2. ASSUME \A m \in Derivations : deriverAt'[m] # "fetch" PROVE FetchesForMore'
    BY <1>2 DEF FetchesForMore
<1>3. ASSUME NEW l \in Derivations, GoesOn(l) PROVE FetchesForMore'
    BY <1>0, <1>2, <1>3, NobodyFetches
<1>4. CASE UNCHANGED deriverVars
    BY <1>1, <1>4 DEF deriverVars, stages
<1>5. ASSUME NEW k \in 0 .. MaxBlockTxs, MineL1(k) PROVE FetchesForMore'
    BY <1>1, <1>5 DEF MineL1, stages
<1>6. CASE UNCHANGED <<l1, deriverAt, asked, l1Number, stages, delivery>>
    BY <1>1, <1>6 DEF stages
<1>7. ASSUME NEW l \in Derivations, DerivateStart(l) PROVE FetchesForMore'
    <2>1. \E place \in {"starting", "next"} : deriverAt' = [deriverAt EXCEPT ![l] = place]
        BY <1>7 DEF DerivateStart, Goto
    <2>2. deriverAt'[l] # "fetch"
        BY <1>0, <2>1
    <2>3. \A m \in Derivations : m = l
        BY DEF OneDerivation
    <2> QED BY <1>2, <2>2, <2>3
<1>8. CASE DeriverBoot
    BY <1>2, <1>8 DEF DeriverBoot
<1>9. ASSUME NEW l \in Derivations, StartReply(l, 0) PROVE FetchesForMore'
    BY <1>3, <1>9 DEF StartReply, GoesOn
<1>10. ASSUME NEW l \in Derivations, Derive(l) PROVE FetchesForMore'
    <2>1. CASE Fetch(l)
        <3>1. NeedsFrame(l) /\ UNCHANGED <<bank, reader>>
            BY <2>1 DEF Fetch, stages
        <3>2. \A m \in Derivations : NeedsFrame(m)'
            BY <3>1 DEF NeedsFrame, ReadyAt
        <3> QED BY <3>2 DEF FetchesForMore
    <2>2. CASE ~ Fetch(l)
        <3>1. \A data : ReadBatch(l, data) => GoesOn(l)
            BY ContinueGoesOn DEF ReadBatch
        <3>2. \A d : TakeData(l, d) => GoesOn(l)
            BY ContinueGoesOn, ThrowGoesOn DEF TakeData
        <3>3. DecodeBatch(l) => GoesOn(l)
            BY <3>1, ThrowGoesOn DEF DecodeBatch
        <3>4. OpenChannel(l) => GoesOn(l)
            BY <3>1, ThrowGoesOn DEF OpenChannel
        <3>5. IngestQueued(l) \/ DeriverWake(l) => GoesOn(l)
            BY ContinueGoesOn, ThrowGoesOn DEF IngestQueued, DeriverWake
        <3>6. SplitDatas(l) => GoesOn(l)
            BY <3>2 DEF SplitDatas
        <3>7. FetchReply(l) => GoesOn(l)
            <4>1. Goto(l, "sleep") => GoesOn(l)
                BY DEF GoesOn
            <4> QED BY <3>2, <4>1, ContinueGoesOn DEF FetchReply
        <3>8. GoesOn(l)
            BY <1>10, <2>2, <3>3, <3>4, <3>5, <3>6, <3>7 DEF Derive
        <3> QED BY <1>3, <3>8
    <2> QED BY <2>1, <2>2
<1> QED BY <1>4, <1>5, <1>6, <1>7, <1>8, <1>9, <1>10, DeriverPart

\* A step that leaves the bank and what is behind it.
LEMMA DrainedSame ==
    ASSUME NEW read, Drained(read), UNCHANGED <<bank, reader, derived>>
    PROVE  Drained(read)'
BY DEF Drained, HandedOn, ReadyAt

\* With nothing read nothing is handed on.
LEMMA NothingGiven ==
    /\ Top(<<>>) = 0 /\ ToSet(<<>>) = {} /\ <<>> \in Seq(Block)
    /\ <<>> \o <<>> = Given(<<>>, 0)
<1>1. DOMAIN <<>> = {} /\ <<>> \o <<>> = <<>> /\ <<>> \in Seq(Block)
    OBVIOUS
<1> QED BY <1>1, GivenNone DEF Top, ToSet

\* A pass of the loop, with no last frame on L1 full.
LEMMA DrainedStep ==
    ASSUME PipeTypeIInv, ChainIInv, DrainedIn, FetchesForMore, ~ SomeLastFull,
           StagesTyped', NEW l \in Derivations, Derive(l)
    PROVE  DrainedIn'
<1>0. DeriverIInv /\ l1 \in Seq(Seq(Frames)) /\ l1' = l1
      /\ datas \in Seq(Frames) /\ frameQueue \in Seq(Frames)
      /\ datas' \in Seq(Frames) /\ frameQueue' \in Seq(Frames)
    <2>1. l1' = l1
        BY DEF Derive, DecodeBatch, OpenChannel, IngestQueued, SplitDatas, Fetch, FetchReply, DeriverWake
    <2> QED BY <2>1 DEF PipeTypeIInv, DeriverIInv, StagesTyped
<1>1. ASSUME NEW s \in Seq(Seq(Frames)), NEW t \in Seq(Seq(Frames)), NEW fs \in Seq(Frames),
             NEW v \in Seq(Frames), l1 = s \o t, FlattenSeq(s) = fs \o v
      PROVE  Sound(fs)
    <2>1. PICK rest \in Seq(Frames) : FlattenSeq(s \o t) = fs \o rest
        BY <1>1, InFront
    <2>2. FlattenSeq(l1) = fs \o rest
        BY <1>1, <2>1
    <2> QED BY <2>2, SoundPart
<1>2. PICK s \in Seq(Seq(Frames)), t \in Seq(Seq(Frames)), read \in Seq(Frames) :
          PlacedAt(s, t, read) /\ Drained(read)
    BY DEF DrainedIn
<1>3. Sound(read)
    <2>1. l1 = s \o t /\ FlattenSeq(s) = read \o (frameQueue \o datas)
          /\ frameQueue \o datas \in Seq(Frames)
        BY <1>0, <1>2 DEF PlacedAt
    <2> QED BY <1>1, <2>1
<1>4. PICK u \in Seq(Seq(Frames)), w \in Seq(Seq(Frames)), more \in Seq(Frames) :
          PlacedAt(u, w, more)' /\ ReadsOn(l, read, more)
    <2>1. PlacedOn(l, read)
        BY <1>0, <1>2, DerivePlaced
    <2> QED BY <2>1 DEF PlacedOn
<1>5. Sound(more)
    <2>1. l1 = u \o w /\ FlattenSeq(u) = more \o (frameQueue' \o datas')
          /\ frameQueue' \o datas' \in Seq(Frames)
        BY <1>0, <1>4 DEF PlacedAt
    <2> QED BY <1>1, <2>1
<1>6. Drained(more)'
    <2>1. CASE more = read /\ UNCHANGED <<bank, reader, derived>>
        BY <1>2, <2>1, DrainedSame
    <2>2. CASE more = read /\ DecodeBatch(l)
        BY <1>0, <1>2, <2>2, DrainedDecode
    <2>3. CASE more = read /\ OpenChannel(l)
        BY <1>0, <1>2, <1>3, <2>3, DrainedOpen, DrainedSame
    <2>4. CASE /\ NeedsFrame(l) \/ deriverAt[l] = "fetch"
               /\ \E f \in Frames : more = Append(read, f) /\ Ingest(f)
               /\ UNCHANGED <<reader, derived>>
        <3>1. reader = <<>> /\ ReadyAt = {}
            BY <2>4 DEF FetchesForMore, NeedsFrame
        <3>2. PICK f \in Frames : more = Append(read, f) /\ Ingest(f)
            BY <2>4
        <3>3. Sound(Append(read, f))
            BY <1>5, <3>2
        <3>4. Drained(Append(read, f))'
            BY <1>0, <1>2, <1>3, <2>4, <3>1, <3>2, <3>3, DrainedIngest
        <3> QED BY <3>2, <3>4
    <2> QED BY <1>4, <2>1, <2>2, <2>3, <2>4 DEF ReadsOn
<1> QED BY <1>4, <1>6 DEF DrainedIn

\* Every step of the data path hands on what is complete on L1, or nothing.
LEMMA DerivedStep ==
    ASSUME OneDerivation, DerivedIInv, [PipelineNext]_pipelineVars
    PROVE  DerivedIInv'
<1>0. /\ PipeTypeIInv /\ ChainIInv /\ PlacedIInv /\ Starting /\ FetchesForMore /\ DeriverIInv /\ CallIInv
      /\ ~ overlapped
    BY DEF DerivedIInv, PipeTypeIInv, PlacedIInv
<1>1. /\ PipeTypeIInv' /\ ChainIInv' /\ PlacedIInv' /\ FetchesForMore'
    BY <1>0, PipeStep, ChainStep, PlacedStep, FetchesStep
<1>2. CASE SomeLastFull
    BY <1>0, <1>1, <1>2, LastFullStays DEF DerivedIInv
<1>3. CASE ~ SomeLastFull
    <2>0. PICK s \in Seq(Seq(Frames)), t \in Seq(Seq(Frames)), read \in Seq(Frames) :
              PlacedAt(s, t, read) /\ Drained(read)
        BY <1>3 DEF DerivedIInv, DrainedIn
    <2>1. ASSUME UNCHANGED <<l1, l1Number, datas, frameQueue, bank, reader, derived>> PROVE DrainedIn'
        <3>1. PlacedAt(s, t, read)' /\ Drained(read)'
            BY <2>0, <2>1, PlacedSame, DrainedSame
        <3> QED BY <3>1 DEF DrainedIn
    <2>2. ASSUME UNCHANGED deriverVars PROVE DrainedIn'
        BY <2>1, <2>2 DEF deriverVars, stages, delivery
    <2>3. ASSUME NEW k \in 0 .. MaxBlockTxs, MineL1(k) PROVE DrainedIn'
        <3>1. UNCHANGED <<bank, reader, derived, l1Number, datas, frameQueue>>
            BY <2>3 DEF MineL1, stages, delivery
        <3>2. Drained(read)'
            BY <2>0, <3>1, DrainedSame
        <3>3. PICK u \in Seq(Seq(Frames)) : PlacedAt(s, u, read)'
            BY <1>0, <2>0, <2>3, PlacedMine DEF DeriverIInv
        <3> QED BY <3>2, <3>3 DEF DrainedIn
    <2>4. ASSUME UNCHANGED <<l1, deriverAt, asked, l1Number, stages, delivery>> PROVE DrainedIn'
        BY <2>1, <2>4 DEF stages, delivery
    <2>5. ASSUME NEW l \in Derivations, DerivateStart(l) PROVE DrainedIn'
        BY <2>1, <2>5 DEF DerivateStart, stages, delivery
    <2>6. ASSUME DeriverBoot, l1' = l1 PROVE DrainedIn'
        <3>1. /\ datas' = <<>> /\ frameQueue' = <<>> /\ bank' = <<>> /\ l1Number' = 0
              /\ reader' = <<>> /\ derived' = <<>> /\ l1 \in Seq(Seq(Frames))
            BY <1>0, <2>6 DEF DeriverBoot, DeriverIInv
        <3>7. PICK u \in Seq(Seq(Frames)) : l1' = u
            BY <2>6, <3>1
        <3>2. PlacedAt(<<>>, u, <<>>)'
            BY <3>1, <3>7, PlacedBoot
        <3>3. ReadyAt' = {}
            BY <3>1 DEF ReadyAt
        <3>4. HandedOn(<<>>)'
            BY <3>1, <3>3, NothingGiven DEF HandedOn
        <3>5. Drained(<<>>)'
            BY <3>1, <3>3, <3>4, NothingGiven DEF Drained
        <3>6. <<>> \in Seq(Seq(Frames)) /\ <<>> \in Seq(Frames)
            OBVIOUS
        <3> QED BY <3>1, <3>2, <3>5, <3>6 DEF DrainedIn
    <2>7. ASSUME NEW l \in Derivations, StartReply(l, 0) PROVE DrainedIn'
        <3>1. l1Number' = l1Number
            BY <1>0, <2>7 DEF StartReply, Starting
        <3> QED BY <2>1, <2>7, <3>1 DEF StartReply, stages, delivery
    <2>8. ASSUME NEW l \in Derivations, Derive(l) PROVE DrainedIn'
        <3>1. StagesTyped'
            BY <1>1 DEF PipeTypeIInv, DeriverIInv
        <3>2. DrainedIn
            BY <2>0 DEF DrainedIn
        <3> QED BY <1>0, <1>3, <2>8, <3>1, <3>2, DrainedStep
    <2>9. DrainedIn'
        BY <2>2, <2>3, <2>4, <2>5, <2>6, <2>7, <2>8, DeriverPart
    <2> QED BY <1>1, <2>9 DEF DerivedIInv
<1> QED BY <1>2, <1>3

\* The first state does.
LEMMA DerivedInit == PipelineInit => DerivedIInv
<1> SUFFICES ASSUME PipelineInit PROVE DerivedIInv
    OBVIOUS
<1>1. /\ datas = <<>> /\ frameQueue = <<>> /\ bank = <<>> /\ l1Number = 0 /\ l1 = <<>>
      /\ reader = <<>> /\ derived = <<>> /\ deriverAt = [l \in Derivations |-> "idle"]
    BY DEF PipelineInit, DeriverInit
<1>2. PlacedAt(<<>>, <<>>, <<>>) /\ <<>> \in Seq(Seq(Frames)) /\ <<>> \in Seq(Frames)
    <2>1. /\ <<>> \o <<>> = <<>> /\ Len(<<>>) = 0 /\ <<>> \o (<<>> \o <<>>) = <<>>
          /\ <<>> \in Seq(Seq(Frames)) /\ <<>> \in Seq(Frames)
        OBVIOUS
    <2>2. BankFrom(<<>>, <<>>)
        BY DEF BankFrom
    <2>3. Mark = 0
        BY <1>1 DEF Mark
    <2> QED BY <1>1, <2>1, <2>2, <2>3, FlattenEmpty DEF PlacedAt
<1>3. ReadyAt = {}
    BY <1>1 DEF ReadyAt
<1>4. HandedOn(<<>>)
    BY <1>1, <1>3, NothingGiven DEF HandedOn
<1>5. Drained(<<>>)
    BY <1>1, <1>3, <1>4, NothingGiven DEF Drained
<1>6. FetchesForMore
    BY <1>1 DEF FetchesForMore
<1> QED BY <1>2, <1>5, <1>6, PipeInit, ChainInit, PlacedInit DEF DerivedIInv, DrainedIn

\* What is handed on comes first among the blocks on L1.
LEMMA DerivedIsPrefix ==
    ASSUME DerivedIInv, ~ SomeLastFull
    PROVE  DerivesCompleteChannels
<1> DEFINE fl == FlattenSeq(l1)
<1>0. /\ PipeTypeIInv /\ ChainIInv /\ l1 \in Seq(Seq(Frames)) /\ BankTyped(bank)
      /\ datas \in Seq(Frames) /\ frameQueue \in Seq(Frames) /\ derived \in Seq(Block)
    BY DEF DerivedIInv, PipeTypeIInv, DeriverIInv, StagesTyped, DeliveryTyped
<1>1. PICK s \in Seq(Seq(Frames)), t \in Seq(Seq(Frames)), read \in Seq(Frames) :
          PlacedAt(s, t, read) /\ Drained(read)
    BY DEF DerivedIInv, DrainedIn
<1>2. PICK rest \in Seq(Frames) : fl = read \o rest
    <2>1. l1 = s \o t /\ FlattenSeq(s) = read \o (frameQueue \o datas)
          /\ frameQueue \o datas \in Seq(Frames)
        BY <1>0, <1>1 DEF PlacedAt
    <2>2. \E rest \in Seq(Frames) : FlattenSeq(s \o t) = read \o rest
        BY <2>1, InFront
    <2> QED BY <2>1, <2>2
<1>3. Sound(read)
    BY <1>0, <1>2, SoundPart
<1>4. Sound(fl) /\ fl \in Seq(Frames)
    <2>1. fl \in Seq(Frames)
        BY <1>0, FlattenType
    <2> HIDE DEF fl
    <2>2. fl = fl \o <<>> /\ <<>> \in Seq(Frames)
        BY <2>1, ConcatEmptySeq
    <2>3. FlattenSeq(l1) = fl \o <<>>
        BY <2>2 DEF fl
    <2> QED BY <1>0, <2>1, <2>2, <2>3, SoundPart
<1>5. BlocksOnL1 = Given(fl, Top(fl))
    BY <1>0, <1>4, OnL1
<1> HIDE DEF fl
<1> DEFINE n == IF ReadyAt = {} THEN Top(read) ELSE Top(read) - 1
<1>6. PICK left \in Seq(Block) : derived \o left = Given(read, n)
    BY <1>1 DEF Drained, HandedOn
<1>7. n \in Nat /\ n <= Top(read)
    <2>1. Top(read) \in Nat
        BY <1>3, TopIs
    <2>2. ReadyAt # {} => Top(read) # 0
        <3> SUFFICES ASSUME NEW k \in ReadyAt PROVE Top(read) # 0
            OBVIOUS
        <3>1. bank[k].id = Top(read) /\ bank[k] \in Channels
            BY <1>0, <1>1 DEF Drained, ReadyAt, BankTyped
        <3> QED BY <3>1 DEF Channels
    <2> QED BY <2>1, <2>2
<1> HIDE DEF n
<1>8. PICK z \in Seq(Block) : Given(fl, Top(fl)) = Given(read, n) \o z
    <2>1. Sound(read \o rest)
        BY <1>2, <1>4
    <2> QED BY <1>2, <1>3, <1>7, <2>1, GivenFirst
<1>9. BlocksOnL1 = derived \o (left \o z)
    <2>1. (derived \o left) \o z = derived \o (left \o z)
        <3>1. derived \in Seq(Block) /\ left \in Seq(Block) /\ z \in Seq(Block)
            BY <1>0
        <3> QED BY ONLY <3>1, ConcatThree, SMTT(60)
    <2> QED BY <1>5, <1>6, <1>8, <2>1
<1>10. left \o z \in Seq(Block)
    OBVIOUS
<1>11. IsPrefix(derived, derived \o (left \o z))
    BY <1>0, <1>10, PrefixIs
<1> QED BY <1>9, <1>11 DEF DerivesCompleteChannels

\* While one call of derivateStart runs, exactly the blocks of the channels that
\* are complete on L1 come out of the pipeline, each once and in order, whichever
\* frames were lost, wherever crashes cut the channels and however the frames are
\* spread over the L1 blocks (deriver.channel.bank.ts, deriver.channel.reader.ts),
\* unless a last frame on L1 is full: then its channel may go on behind it.
THEOREM DerivesUnlessFull ==
    ASSUME OneDerivation
    PROVE  PipelineSpec =>
               [](\/ DerivesCompleteChannels
                  \/ \E f \in FramesOnL1 : f.isLast /\ Len(f.data) = MaxData)
<1>1. PipelineInit => DerivedIInv
    BY DerivedInit
<1>2. DerivedIInv /\ [PipelineNext]_pipelineVars => DerivedIInv'
    BY DerivedStep
<1>3. DerivedIInv => \/ DerivesCompleteChannels
                     \/ \E f \in FramesOnL1 : f.isLast /\ Len(f.data) = MaxData
    BY DerivedIsPrefix DEF SomeLastFull
<1> QED BY <1>1, <1>2, <1>3, PTL DEF PipelineSpec
=============================================================================
