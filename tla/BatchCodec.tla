----------------------------- MODULE BatchCodec -----------------------------
(***************************************************************************)
(* What the batcher and the deriver agree on: how a block becomes bytes of *)
(* a channel and comes back, and what a frame is.                          *)
(*                                                                         *)
(* A byte of a channel is the index of the block it encodes.  Block b      *)
(* takes PrefixSize + Size[b] bytes, as a length goes in front of it.  A   *)
(* channel id is a number never used before.                               *)
(***************************************************************************)
EXTENDS Integers, SequencesExt

CONSTANTS
    MaxTip,        \* bound on the height of L3
    Size,          \* bytes of the encoding of each block
    PrefixSize     \* bytes of the length in front of it (4)

Block == 1 .. MaxTip

ASSUME CodecAssumption ==
    /\ MaxTip \in Nat \ {0}
    /\ Size \in [Block -> Nat \ {0}]
    /\ PrefixSize \in Nat \ {0}

\* What the batch transaction carries: a piece of a channel and its place.
Frame(chan, num, data, isLast) ==
    [chan |-> chan, num |-> num, data |-> data, isLast |-> isLast]

\* Compressor.write, for a block and for a sequence of blocks.
Bytes(b) == [i \in 1 .. PrefixSize + Size[b] |-> b]
Packed(bs) == FlattenSeq([k \in DOMAIN bs |-> Bytes(bs[k])])

\* Faulty: drops what follows the batch it has read.
AfterFirstNothing(data) == <<>>

\* BatchReader.nextBatch: what is in front of the data, if not "nothing".
AtEnd(data) == Len(data) < PrefixSize
FirstBatch(data) == data[1]
Whole(data) == Len(data) >= Len(Bytes(FirstBatch(data)))
AfterFirst(data) == SubSeq(data, Len(Bytes(FirstBatch(data))) + 1, Len(data))

\* The bytes of a sequence of frames.
DataOf(fs) == FlattenSeq([k \in DOMAIN fs |-> fs[k].data])
=============================================================================
