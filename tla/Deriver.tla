------------------------------- MODULE Deriver -------------------------------
(***************************************************************************)
(* The derivation pipeline (nest/deriver): reads the batch transactions    *)
(* off the L1 blocks one after the other, gathers their frames in          *)
(* channels, and hands the blocks in a complete channel to the block map   *)
(* of DeriverService.                                                      *)
(*                                                                         *)
(* A call of derivateStart is one element of Derivations, and deriverAt    *)
(* says where it is:                                                       *)
(*   "idle"     not running                                                *)
(*   "starting" asking L1 where to start                 (line 46)         *)
(*   "next"     at the head of the loop                  (line 61)         *)
(*   "fetch"    asking L1 for block asked[l]             (nextL1Block)     *)
(*   "sleep"    in the delay                             (line 69)         *)
(*   "thrown"   ended by an exception                                      *)
(* One pass of the loop is one action: DecodeBatch, OpenChannel,           *)
(* IngestQueued, SplitDatas, or Fetch and FetchReply.  They are the stages *)
(* nextBlock of BatchQueue pulls from, last stage first: each acts when    *)
(* the stages behind it have nothing.                                      *)
(*                                                                         *)
(* l1[n] is L1 block n, as openData shows it: the frames in it.  Block 0   *)
(* has none.                                                               *)
(***************************************************************************)
EXTENDS BatchCodec, BlockStore

CONSTANTS Derivations      \* the calls of derivateStart

VARIABLES
    l1,           \* the L1 blocks
    deriving,     \* DeriverService.deriving
    deriverAt,    \* where each call of derivateStart is
    asked,        \* the L1 block a call waits for
    l1Number,     \* L1Retrieval.l1BlockNumber
    datas,        \* L1Retrieval.datas
    frameQueue,   \* FrameQueue.frames
    bank,         \* ChannelBank: its channels in the order of its channelQueue
    reader,       \* ChannelInReader.batchReader: none, or one
    store,        \* the block map of DeriverService
    derived       \* history: the blocks handed to it

stages      == <<datas, frameQueue, bank, reader>>
delivery    == <<store, derived>>
deriverVars == <<l1, deriving, deriverAt, asked, l1Number, stages, delivery>>

DeriverTypeOK ==
    /\ deriving \in BOOLEAN
    /\ deriverAt \in [Derivations -> {"idle", "starting", "next", "fetch", "sleep",
                                      "thrown"}]
    /\ asked \in [Derivations -> 0 .. Len(l1) + 1]
    /\ l1Number \in 0 .. Len(l1) + 1
    /\ Len(frameQueue) <= 1
    /\ Len(reader) <= 1
    /\ \A j, k \in DOMAIN bank : bank[j].id = bank[k].id => j = k
    /\ store \in StoreType(MaxTip)
    /\ derived \in Seq(Block)

-----------------------------------------------------------------------------
(* models/deriver.channel.ts *)

NumbersIn(ch) == {f.num : f \in ch.inputs}
LastFrames(ch) == {f \in ch.inputs : f.isLast}
EndFrameNumber(ch) == (CHOOSE f \in LastFrames(ch) : TRUE).num
FrameNumbered(ch, n) == CHOOSE f \in ch.inputs : f.num = n

\* addFrame throws on a number it has, and on a second last frame.
Accepts(ch, f) ==
    /\ f.num \notin NumbersIn(ch)
    /\ f.isLast => LastFrames(ch) = {}

\* Faulty: ready as soon as the last frame is there.
IsReadyWhenClosed(ch) == LastFrames(ch) # {}

\* The count is enough for the code, whatever the numbers are.
IsReady(ch) ==
    /\ LastFrames(ch) # {}
    /\ \/ Cardinality(ch.inputs) = EndFrameNumber(ch) + 1
       \/ 0 .. EndFrameNumber(ch) \subseteq NumbersIn(ch)

\* reader throws on a missing frame.
Readable(ch) == 0 .. EndFrameNumber(ch) \subseteq NumbersIn(ch)

ChannelData(ch) ==
    DataOf([i \in 1 .. EndFrameNumber(ch) + 1 |-> FrameNumbered(ch, i - 1)])

-----------------------------------------------------------------------------
DeriverInit ==
    /\ l1 = <<>>
    /\ deriving = FALSE
    /\ deriverAt = [l \in Derivations |-> "idle"]
    /\ asked = [l \in Derivations |-> 0]
    /\ l1Number = 0
    /\ datas = <<>>
    /\ frameQueue = <<>>
    /\ bank = <<>>
    /\ reader = <<>>
    /\ store = NoBlocks
    /\ derived = <<>>

\* A new process.
DeriverBoot ==
    /\ deriving' = FALSE
    /\ deriverAt' = [l \in Derivations |-> "idle"]
    /\ asked' = [l \in Derivations |-> 0]
    /\ l1Number' = 0
    /\ datas' = <<>>
    /\ frameQueue' = <<>>
    /\ bank' = <<>>
    /\ reader' = <<>>
    /\ store' = NoBlocks
    /\ derived' = <<>>

-----------------------------------------------------------------------------
(* derivateStart.  derivateStop lowers its flag; so does StopRollup in Pipeline. *)

Goto(l, place) == deriverAt' = [deriverAt EXCEPT ![l] = place]

DerivateStart(l) ==
    /\ ~ deriving
    /\ deriverAt[l] = "idle"
    /\ \/ l1Number = 0 /\ Goto(l, "starting") /\ UNCHANGED deriving
       \/ l1Number # 0 /\ Goto(l, "next") /\ deriving' = TRUE
    /\ UNCHANGED <<l1, asked, l1Number, stages, delivery>>

\* The answer is n.  The flag is set without another look at it.
StartReply(l, n) ==
    /\ deriverAt[l] = "starting"
    /\ l1Number' = n
    /\ deriving' = TRUE
    /\ Goto(l, "next")
    /\ UNCHANGED <<l1, asked, stages, delivery>>

\* while (this.deriving)
Continue(l) == Goto(l, IF deriving THEN "next" ELSE "idle")

\* Nobody catches it, so the process ends; l goes nowhere from here.
Throw(l) == Goto(l, "thrown") /\ UNCHANGED <<l1Number, stages, delivery>>

\* Faulty: the pause at the tip of L1 ends the loop.
DeriverWakeBreaks(l) ==
    /\ deriverAt[l] = "sleep"
    /\ Goto(l, "idle")
    /\ UNCHANGED <<l1, deriving, asked, l1Number, stages, delivery>>

DeriverWake(l) ==
    /\ deriverAt[l] = "sleep"
    /\ Continue(l)
    /\ UNCHANGED <<l1, deriving, asked, l1Number, stages, delivery>>

-----------------------------------------------------------------------------
(* One pass of the loop. *)

\* nextBatch of ChannelInReader and of BatchReader, on the data of the reader;
\* a batch goes through batchToBlock to handleBlock.
ReadBatch(l, data) ==
    \/ /\ AtEnd(data)
       /\ reader' = <<>>
       /\ Continue(l)
       /\ UNCHANGED <<l1Number, datas, frameQueue, delivery>>
    \/ /\ ~ AtEnd(data)
       /\ Whole(data)
       /\ reader' = <<AfterFirst(data)>>
       /\ store' = HandleBlock(store, FirstBatch(data))
       /\ derived' = Append(derived, FirstBatch(data))
       /\ Continue(l)
       /\ UNCHANGED <<l1Number, datas, frameQueue>>

DecodeBatch(l) ==
    /\ deriverAt[l] = "next"
    /\ reader # <<>>
    /\ IF AtEnd(reader[1]) \/ Whole(reader[1])
       THEN ReadBatch(l, reader[1]) /\ bank' = bank
       ELSE Throw(l)
    /\ UNCHANGED <<l1, deriving, asked>>

\* read of ChannelBank: the first channel that is ready leaves the bank.
ReadyAt == {k \in DOMAIN bank : IsReady(bank[k])}

OpenChannel(l) ==
    /\ deriverAt[l] = "next"
    /\ reader = <<>>
    /\ \E k \in ReadyAt :
          /\ \A j \in ReadyAt : k <= j
          /\ IF Readable(bank[k])
             THEN LET data == ChannelData(bank[k])
                  IN  IF AtEnd(data) \/ Whole(data)
                      THEN ReadBatch(l, data) /\ bank' = RemoveAt(bank, k)
                      ELSE Throw(l)
             ELSE Throw(l)
    /\ UNCHANGED <<l1, deriving, asked>>

\* Faulty: opens a channel for every frame.
IngestApart(f) == bank' = Append(bank, [id |-> f.chan, inputs |-> {f}])

\* ingestFrame
Ingest(f) ==
    LET at == {k \in DOMAIN bank : bank[k].id = f.chan}
    IN  IF at = {}
        THEN bank' = Append(bank, [id |-> f.chan, inputs |-> {f}])
        ELSE \E k \in at : bank' = [bank EXCEPT ![k].inputs = @ \cup {f}]

Fits(f) == \A k \in DOMAIN bank : bank[k].id = f.chan => Accepts(bank[k], f)

\* Nothing for the stages behind the frame queue.
NeedsFrame(l) == reader = <<>> /\ ReadyAt = {}

IngestQueued(l) ==
    /\ deriverAt[l] = "next"
    /\ NeedsFrame(l)
    /\ frameQueue # <<>>
    /\ IF Fits(Head(frameQueue))
       THEN /\ Ingest(Head(frameQueue))
            /\ frameQueue' = Tail(frameQueue)
            /\ Continue(l)
            /\ UNCHANGED <<l1Number, datas, reader, delivery>>
       ELSE Throw(l)
    /\ UNCHANGED <<l1, deriving, asked>>

\* nextFrame, d the batch transactions at hand.  The last one of an L1 block
\* stays in the queue, and derivateStart goes on to the next L1 block first.
TakeData(l, d) ==
    LET fs == Append(frameQueue, Head(d))
    IN  \/ /\ Len(d) = 1
           /\ frameQueue' = fs
           /\ datas' = <<>>
           /\ l1Number' = l1Number + 1
           /\ Continue(l)
           /\ UNCHANGED <<bank, reader, delivery>>
        \/ /\ Len(d) > 1
           /\ IF Fits(Head(fs))
              THEN /\ Ingest(Head(fs))
                   /\ frameQueue' = Tail(fs)
                   /\ datas' = Tail(d)
                   /\ Continue(l)
                   /\ UNCHANGED <<l1Number, reader, delivery>>
              ELSE Throw(l)

SplitDatas(l) ==
    /\ deriverAt[l] = "next"
    /\ NeedsFrame(l)
    /\ frameQueue = <<>>
    /\ datas # <<>>
    /\ TakeData(l, datas)
    /\ UNCHANGED <<l1, deriving, asked>>

Fetch(l) ==
    /\ deriverAt[l] = "next"
    /\ NeedsFrame(l)
    /\ frameQueue = <<>>
    /\ datas = <<>>
    /\ Goto(l, "fetch")
    /\ asked' = [asked EXCEPT ![l] = l1Number]
    /\ UNCHANGED <<l1, deriving, l1Number, stages, delivery>>

FramesAt(n) == IF n = 0 THEN <<>> ELSE l1[n]

\* A block that L1 does not have yet: sleep.  A block without our
\* transactions: on to the next one.
FetchReply(l) ==
    /\ deriverAt[l] = "fetch"
    /\ \/ /\ asked[l] > Len(l1)
          /\ Goto(l, "sleep")
          /\ UNCHANGED <<l1Number, stages, delivery>>
       \/ /\ asked[l] <= Len(l1)
          /\ FramesAt(asked[l]) = <<>>
          /\ l1Number' = l1Number + 1
          /\ Continue(l)
          /\ UNCHANGED <<stages, delivery>>
       \/ /\ asked[l] <= Len(l1)
          /\ FramesAt(asked[l]) # <<>>
          /\ TakeData(l, FramesAt(asked[l]))
    /\ UNCHANGED <<l1, deriving, asked>>

Derive(l) == \/ DecodeBatch(l) \/ OpenChannel(l) \/ IngestQueued(l) \/ SplitDatas(l)
             \/ Fetch(l) \/ FetchReply(l) \/ DeriverWake(l)

-----------------------------------------------------------------------------
(* What the deriver promises. *)

\* No frame on L1 makes the deriver throw: addFrame gets no frame twice and no
\* second last frame, reader misses none, nextBatch finds whole batches
\* (models/deriver.channel.ts, models/deriver.batch.reader.ts).  A frame that
\* did would be a poison pill, as the frames are read again after a restart.
\* Two calls of derivateStart at a time do break it.
NeverThrows == \A l \in Derivations : deriverAt[l] # "thrown"

\* Every frame of the channel is there.
IsComplete(ch) == LastFrames(ch) # {} /\ Readable(ch)

FramesOnL1 == UNION {ToSet(l1[n]) : n \in DOMAIN l1}

ChannelOnL1(c) == [id |-> c, inputs |-> {f \in FramesOnL1 : f.chan = c}]

CompleteOnL1 ==
    {ch \in {ChannelOnL1(f.chan) : f \in FramesOnL1} : IsComplete(ch)}

\* The blocks in the data of a channel: those the batcher packs to that data.
BlocksIn(data) ==
    CHOOSE bs \in BoundedSeq(ToSet(data), Len(data)) : Packed(bs) = data

\* The blocks a channel gives: none while it misses a frame.
BlocksOfChannel(ch) == IF IsComplete(ch) THEN BlocksIn(ChannelData(ch)) ELSE <<>>

\* The blocks in the complete channels, channels in the order of their ids.
BlocksOnL1 ==
    FlattenSeq([c \in 1 .. Max({0} \cup {f.chan : f \in FramesOnL1}) |->
                   BlocksOfChannel(ChannelOnL1(c))])

\* Exactly the blocks of the channels that are complete on L1 come out of the
\* pipeline, each once and in the order the batcher packed them: no half
\* channel is read, no block is skipped or repeated, whatever frames are
\* missing and however the frames are spread over the L1 blocks.
DerivesCompleteChannels == LET all == BlocksOnL1 IN IsPrefix(derived, all)
=============================================================================
