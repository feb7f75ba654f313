------------------------------- MODULE Batcher -------------------------------
(***************************************************************************)
(* BatcherService (nest/batcher): reads the blocks of L3, packs them into  *)
(* channels, cuts the channels into frames and sends each frame as one     *)
(* transaction to L1.                                                      *)
(*                                                                         *)
(* A call of batchStart is one element of Batchers; one action is what it  *)
(* does between two awaits, and batcherAt names the await:                 *)
(*   "idle"  not running                                                   *)
(*   "init"  reading the latest output root and its block  (initBlock)     *)
(*   "range" asking L3 for its newest block                                *)
(*   "end"   asking for the last block there is room for                   *)
(*   "load"  fetching the blocks of the range, one by one                  *)
(*   "send"  sending a frame                                               *)
(*   "sleep" in the delay                                                  *)
(* The flag that would refuse a second call is cleared by a stop the first *)
(* has not seen, so two can be under way.                                  *)
(***************************************************************************)
EXTENDS BatchCodec

CONSTANTS
    Batchers,                     \* the calls of batchStart
    MaxFrameSize,                 \* bytes of a frame (130900)
    FrameOverHeadSize,            \* of which not data (23)
    MaxEncodingBytesPerChannel,   \* (524288)
    MaxBlocksPerChannelManager,   \* (100)
    MayLose,                      \* whether sending a frame may fail
    MaxRepeats,                   \* bound on the ranges that repeat a block
    MaxOverlapTip                 \* bound on the height of L3 while calls overlap

ASSUME BatcherAssumption ==
    /\ FrameOverHeadSize \in Nat
    /\ MaxFrameSize \in Nat
    /\ MaxFrameSize > FrameOverHeadSize
    /\ MaxEncodingBytesPerChannel \in Nat
    /\ MaxBlocksPerChannelManager \in Nat \ {0}
    /\ MayLose \in BOOLEAN
    /\ MaxRepeats \in Nat
    /\ MaxOverlapTip \in Nat

VARIABLES
    tip,           \* height of L3
    batching,      \* BatcherService.batching
    batcherAt,     \* where each call is
    lastStored,    \* lastStoredBlock.index, 0 when undefined
    loadNext,      \* the block each call fetches next, 0 when it loads none
    loadEnd,       \* end of the range it loads, 0 when it has none
    blocks,        \* ChannelManager.blocks
    channelQueue,  \* ChannelManager.channelQueue; its last is currentChannel
    sending,       \* the frame each call sends
    nextId,        \* channel ids below it have been used
    outbox,        \* frames L1 has accepted and not mined, in nonce order
    loaded,        \* history: blocks fetched, and those under the output root
    overlapped,    \* history: a call began while another was under way
    repeats        \* ranges so far that repeat a block

channelVars == <<blocks, channelQueue, nextId>>
ranges      == <<loadNext, loadEnd>>
batcherHist == <<loaded, overlapped, repeats>>
batcherVars == <<tip, batching, batcherAt, lastStored, ranges, channelVars,
                 sending, outbox, batcherHist>>

MaxData == MaxFrameSize - FrameOverHeadSize
NoFrame == Frame(0, 0, <<>>, FALSE)
BeingSent == {sending[b] : b \in Batchers} \ {NoFrame}

BatcherTypeOK ==
    /\ tip \in Block
    /\ batching \in BOOLEAN
    /\ batcherAt \in [Batchers -> {"idle", "init", "range", "end", "load", "send", "sleep"}]
    /\ lastStored \in 0 .. tip
    /\ loadNext \in [Batchers -> 0 .. tip]
    /\ loadEnd \in [Batchers -> 0 .. tip]
    /\ blocks \in Seq(Block)
    /\ overlapped \/ Len(blocks) <= MaxBlocksPerChannelManager
    /\ \A k \in DOMAIN channelQueue :
          /\ channelQueue[k].id \in 1 .. nextId - 1
          /\ channelQueue[k].encoded <= MaxEncodingBytesPerChannel

-----------------------------------------------------------------------------
(* Channel and ChannelOut *)

NewChannel(id) == [id |-> id, encoded |-> 0, buffer |-> <<>>, closed |-> FALSE,
                   number |-> 0, frames |-> <<>>]

\* The first n blocks of bs, without the lengths in front of them.
SizeOfFirst(bs, n) == MapThenSumSet(LAMBDA i : Size[bs[i]], 1 .. n)

\* ChannelOut.encoded with these blocks added.
EncodedWith(ch, bs, n) == IF n = 0 THEN ch.encoded ELSE ch.encoded + SizeOfFirst(bs, n)

\* processBlocks and addBatch: the blocks of bs that fit are added, and the
\* first that does not fit closes the channel.
ProcessBlocks(ch, bs) ==
    LET fitting == {n \in 0 .. Len(bs) :
                       EncodedWith(ch, bs, n) <= MaxEncodingBytesPerChannel}
        added   == IF ch.closed THEN 0 ELSE Max(fitting)
    IN  [channel |-> [ch EXCEPT !.encoded = EncodedWith(ch, bs, added),
                                !.buffer  = @ \o Packed(SubSeq(bs, 1, added)),
                                !.closed  = @ \/ added < Len(bs)],
         added   |-> added]

\* Faulty: takes the last byte of the frame in front again.
FrameAtOverlaps(ch, i) ==
    LET from == (i - 1) * MaxData
    IN  Frame(ch.id, ch.number + i - 1,
              SubSeq(ch.buffer, Max({1, from}), Min({from + MaxData, Len(ch.buffer)})),
              Len(ch.buffer) - from <= MaxData)

\* Faulty: compares with the size of a frame, not of its data.
FrameAtFrameSize(ch, i) ==
    LET from == (i - 1) * MaxData
    IN  Frame(ch.id, ch.number + i - 1,
              SubSeq(ch.buffer, from + 1, Min({from + MaxData, Len(ch.buffer)})),
              Len(ch.buffer) - from <= MaxFrameSize)

\* outputFrame, the i-th time in a row: a frame is the last one when it takes
\* all there is, whether or not the channel is closed.
FrameAt(ch, i) ==
    LET from == (i - 1) * MaxData
    IN  Frame(ch.id, ch.number + i - 1,
              SubSeq(ch.buffer, from + 1, Min({from + MaxData, Len(ch.buffer)})),
              Len(ch.buffer) - from <= MaxData)

\* outputFrames: a frame for every MaxData bytes, and one more when closed.
OutputFrames(ch) ==
    LET count == Len(ch.buffer) \div MaxData + (IF ch.closed THEN 1 ELSE 0)
    IN  [ch EXCEPT !.frames = @ \o [i \in 1 .. count |-> FrameAt(ch, i)],
                   !.number = @ + count,
                   !.buffer = SubSeq(@, count * MaxData + 1, Len(@))]

-----------------------------------------------------------------------------
(* ChannelManager *)

HasTxData(ch) == ch.frames # <<>>

Waiting == {k \in DOMAIN channelQueue : HasTxData(channelQueue[k])}

\* ensureChannelWithSpace
WithSpace ==
    IF channelQueue = <<>> \/ Last(channelQueue).closed
    THEN Append(channelQueue, NewChannel(nextId))
    ELSE channelQueue

\* nextTxData: the first frame of the k-th channel leaves the queue q.
TakeFrame(b, q, k) ==
    /\ sending' = [sending EXCEPT ![b] = Head(q[k].frames)]
    /\ channelQueue' = [q EXCEPT ![k].frames = Tail(@)]

Await(b, place) == batcherAt' = [batcherAt EXCEPT ![b] = place]

\* while (this.batching)
LoopHead(b) == Await(b, IF batching THEN "range" ELSE "idle")

\* publishTxToL1 once bs holds the loaded blocks: the first frame that waits is
\* sent, or the blocks are packed and the first frame they give, if any.
Publish(b, bs) ==
    \/ /\ \E k \in Waiting : /\ \A j \in Waiting : k <= j
                             /\ TakeFrame(b, channelQueue, k)
       /\ blocks' = bs
       /\ nextId' = nextId
       /\ Await(b, "send")
    \/ /\ Waiting = {}
       /\ \E q \in {WithSpace} : \E r \in {ProcessBlocks(Last(q), bs)} :
          \E full \in {ReplaceAt(q, Len(q), OutputFrames(r.channel))} :
             /\ blocks' = SubSeq(bs, r.added + 1, Len(bs))
             /\ nextId' = nextId + Len(q) - Len(channelQueue)
             /\ IF HasTxData(Last(full))
                THEN TakeFrame(b, full, Len(full)) /\ Await(b, "send")
                ELSE /\ channelQueue' = full
                     /\ sending' = sending
                     /\ LoopHead(b)

-----------------------------------------------------------------------------
(* BatcherService *)

\* A new process.
BatcherBoot ==
    /\ batching' = FALSE
    /\ batcherAt' = [b \in Batchers |-> "idle"]
    /\ lastStored' = 0
    /\ loadNext' = [b \in Batchers |-> 0]
    /\ loadEnd' = [b \in Batchers |-> 0]
    /\ blocks' = <<>>
    /\ channelQueue' = <<>>
    /\ sending' = [b \in Batchers |-> NoFrame]
    /\ loaded' = {}
    /\ overlapped' = FALSE
    /\ repeats' = 0

BatcherInit ==
    /\ tip = 1
    /\ batching = FALSE
    /\ batcherAt = [b \in Batchers |-> "idle"]
    /\ lastStored = 0
    /\ loadNext = [b \in Batchers |-> 0]
    /\ loadEnd = [b \in Batchers |-> 0]
    /\ blocks = <<>>
    /\ channelQueue = <<>>
    /\ sending = [b \in Batchers |-> NoFrame]
    /\ nextId = 1
    /\ outbox = <<>>
    /\ loaded = {}
    /\ overlapped = FALSE
    /\ repeats = 0

\* The sequencer adds a block to L3.
NewL3Block ==
    /\ tip < MaxTip
    /\ overlapped => tip < MaxOverlapTip
    /\ tip' = tip + 1
    /\ UNCHANGED <<batching, batcherAt, lastStored, ranges, channelVars, sending,
                   outbox, batcherHist>>

Running == {b \in Batchers : batcherAt[b] # "idle"}

\* The flag refuses a second call, unless a stop has lowered it.
BatchStart(b) ==
    /\ ~ batching
    /\ b \notin Running
    /\ Running # {} => tip <= MaxOverlapTip
    /\ batching' = TRUE
    /\ Await(b, IF lastStored = 0 THEN "init" ELSE "range")
    /\ overlapped' = (overlapped \/ Running # {})
    /\ UNCHANGED <<tip, lastStored, ranges, channelVars, sending, outbox, loaded,
                   repeats>>

BatchStop ==
    /\ batching' = FALSE
    /\ UNCHANGED <<tip, batcherAt, lastStored, ranges, channelVars, sending, outbox,
                   batcherHist>>

\* Faulty: starts at the newest block.
InitBlockAtTip(b, n) ==
    /\ batcherAt[b] = "init"
    /\ lastStored' = tip
    /\ loaded' = loaded \cup 1 .. n
    /\ Await(b, "range")
    /\ UNCHANGED <<tip, batching, ranges, channelVars, sending, outbox, overlapped,
                   repeats>>

\* initBlock: the block of the latest output root, n, counts as stored.
InitBlock(b, n) ==
    /\ batcherAt[b] = "init"
    /\ lastStored' = n
    /\ loaded' = loaded \cup 1 .. n
    /\ Await(b, "range")
    /\ UNCHANGED <<tip, batching, ranges, channelVars, sending, outbox, overlapped,
                   repeats>>

\* Faulty: does not count the blocks still waiting.
RoomWithoutLimit == MaxBlocksPerChannelManager

\* remainedBlockSpace; two calls at a time can overfill the manager.
Room == MaxBlocksPerChannelManager - Len(blocks)

\* Faulty: does not look at the blocks left over.
NotEnoughNew(end) == end = lastStored

\* A range without blocks, and nothing left over from an earlier one.
NotEnoughData(end) == end = lastStored /\ blocks = <<>>

\* loadBlocksIntoState once the range is known, up to its first await.  It
\* begins behind lastStored as it is now.
LoadUpTo(b, end) ==
    /\ \/ /\ NotEnoughData(end)
          /\ Await(b, "sleep")
          /\ UNCHANGED <<loadNext, repeats>>
          /\ loadEnd' = [loadEnd EXCEPT ![b] = 0]
          /\ UNCHANGED <<channelVars, sending>>
       \/ /\ end <= lastStored
          /\ ~ NotEnoughData(end)
          /\ Publish(b, blocks)
          /\ UNCHANGED <<loadNext, repeats>>
          /\ loadEnd' = [loadEnd EXCEPT ![b] = 0]
       \/ /\ end > lastStored
          /\ repeats' = IF lastStored + 1 \in loaded THEN repeats + 1 ELSE repeats
          /\ repeats' <= MaxRepeats
          /\ Await(b, "load")
          /\ loadNext' = [loadNext EXCEPT ![b] = lastStored + 1]
          /\ loadEnd' = [loadEnd EXCEPT ![b] = end]
          /\ UNCHANGED <<channelVars, sending>>
    /\ UNCHANGED <<tip, batching, lastStored, outbox, loaded, overlapped>>

\* calculateL2BlockRangeToStore: never more blocks than there is room for; the
\* end is asked for when there are as many.
RangeReply(b) ==
    /\ batcherAt[b] = "range"
    /\ \/ /\ tip - lastStored < Room
          /\ LoadUpTo(b, tip)
       \/ /\ tip - lastStored >= Room
          /\ lastStored + Room >= 0
          /\ loadEnd' = [loadEnd EXCEPT ![b] = lastStored + Room]
          /\ Await(b, "end")
          /\ UNCHANGED <<tip, batching, lastStored, loadNext, channelVars, sending,
                         outbox, batcherHist>>

EndReply(b) == batcherAt[b] = "end" /\ LoadUpTo(b, loadEnd[b])

\* Faulty: counts lastStoredBlock up.
StoredCounted(b) == lastStored + 1

\* this.lastStoredBlock = blockId
Stored(b) == loadNext[b]

\* loadBlockIntoState; the last one is published at once.
LoadBlock(b) ==
    /\ batcherAt[b] = "load"
    /\ lastStored' = Stored(b)
    /\ loaded' = loaded \cup {loadNext[b]}
    /\ LET bs == Append(blocks, loadNext[b])
       IN  IF loadNext[b] < loadEnd[b]
           THEN /\ blocks' = bs
                /\ loadNext' = [loadNext EXCEPT ![b] = @ + 1]
                /\ UNCHANGED <<loadEnd, channelQueue, nextId, sending, batcherAt>>
           ELSE /\ Publish(b, bs)
                /\ loadNext' = [loadNext EXCEPT ![b] = 0]
                /\ loadEnd' = [loadEnd EXCEPT ![b] = 0]
    /\ UNCHANGED <<tip, batching, outbox, overlapped, repeats>>

\* Two sends at a time may take the same nonce, and L1 refuses the second.
MayFail(b) == MayLose \/ \E c \in Batchers \ {b} : batcherAt[c] = "send"

\* sendTransactionToL1: an error is caught and printed, and the frame is gone.
FrameSent(b) ==
    /\ batcherAt[b] = "send"
    /\ \/ outbox' = Append(outbox, sending[b])
       \/ MayFail(b) /\ outbox' = outbox
    /\ sending' = [sending EXCEPT ![b] = NoFrame]
    /\ LoopHead(b)
    /\ UNCHANGED <<tip, batching, lastStored, ranges, channelVars, batcherHist>>

\* The delay is over.
BatcherWake(b) ==
    /\ batcherAt[b] = "sleep"
    /\ LoopHead(b)
    /\ UNCHANGED <<tip, batching, lastStored, ranges, channelVars, sending, outbox,
                   batcherHist>>

BatcherStep(b) ==
    \/ RangeReply(b) \/ EndReply(b) \/ LoadBlock(b) \/ FrameSent(b) \/ BatcherWake(b)

BatcherNext ==
    \/ NewL3Block \/ BatchStop
    \/ \E b \in Batchers : BatchStart(b) \/ InitBlock(b, 1) \/ BatcherStep(b)

\* The node answers, timers fire, and the service is not left stopped.
BatcherFairness ==
    /\ \A b \in Batchers : WF_batcherVars(InitBlock(b, 1) \/ BatcherStep(b))
    /\ WF_batcherVars(\E b \in Batchers : BatchStart(b))
    /\ WF_batcherVars(NewL3Block)

BatcherSpec == BatcherInit /\ [][BatcherNext]_batcherVars /\ BatcherFairness

-----------------------------------------------------------------------------
(* What the batcher promises. *)

\* All frames made so far, in the order they were or will be sent.
Waiters == FlattenSeq([k \in DOMAIN channelQueue |-> channelQueue[k].frames])
AllFrames == outbox \o SetToSeq(BeingSent) \o Waiters

\* No byte of any loaded block is lost, doubled or out of order on its way
\* through the channels, the frames and the wire, while every send succeeds
\* and no two calls overlap: frames sent, being sent and waiting, then what the
\* open channel still holds, then the blocks not packed yet, are the blocks
\* from the output root on (batcher.channel.manger.ts, batcher.channel.out.ts).
ByteStream ==
    \/ overlapped
    \/ DataOf(AllFrames)
          \o FlattenSeq([k \in DOMAIN channelQueue |-> channelQueue[k].buffer])
          \o Packed(blocks)
        = Packed([k \in 1 .. Max({lastStored, 1}) - 1 |-> k + 1])

\* Two calls at a time fetch blocks again and send them twice, but they leave
\* none out: lastStored, which each sets and from which each goes on, never
\* passes a block nobody has fetched (loadBlocksIntoState).
NothingSkipped == 1 .. lastStored \subseteq loaded

\* A channel has one last frame, and no frame comes after it.  The deriver
\* reads and forgets a channel at its last frame; addFrame of
\* models/deriver.channel.ts answers a second one with "Channel is closed".
OneLastFrame ==
    LET fs == AllFrames
    IN  overlapped \/ \A j \in DOMAIN fs : \A i \in 1 .. j - 1 :
            fs[i].chan = fs[j].chan => fs[i].num < fs[j].num /\ ~ fs[i].isLast

\* A block of any size fits an empty channel, so a channel is full only when
\* it holds a block.  The web page advises "If you want to propose the output
\* root quickly, you can send bulk transactions" (web.gateway.ts line 135),
\* which takes that bulk blocks go through.
FullChannelHasBlock ==
    \A k \in DOMAIN channelQueue :
        channelQueue[k].closed => channelQueue[k].encoded > 0

\* The blocks whose channel is surely full when L3 has grown to height t: the
\* blocks from b on do not fit one channel.
SureToBeSent(t) ==
    {b \in 2 .. t : MapThenSumSet(LAMBDA i : Size[i], b .. t)
                        > MaxEncodingBytesPerChannel}

FullyOut(b) ==
    LET data == DataOf(outbox)
    IN  Len(SelectSeq(data, LAMBDA x : x = b)) = Len(Bytes(b))

\* Once L3 rests, every block has been packed, and every block whose channel
\* is sure to be full has been sent, whatever stops and starts there were that
\* left one call running.
BlocksGetSent ==
    <>[](\/ overlapped
         \/ /\ tip = MaxTip /\ lastStored = MaxTip /\ blocks = <<>>
            /\ \A b \in SureToBeSent(MaxTip) : FullyOut(b))
=============================================================================
