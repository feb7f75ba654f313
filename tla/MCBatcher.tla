------------------------------ MODULE MCBatcher ------------------------------
(***************************************************************************)
(* Instances of Batcher for TLC.  The sizes are chosen so that channels    *)
(* hold one to three blocks and give one to three frames, and so that a    *)
(* frame can be cut anywhere in a block.                                   *)
(***************************************************************************)
EXTENDS Batcher

OneCall  == {"c1"}
TwoCalls == {"c1", "c2"}

\* Bytes in a channel after each of its blocks: never a multiple of MaxData.
MixedSize    == [b \in Block |-> IF b % 3 = 0 THEN 4 ELSE 1]

\* The first block fills a frame exactly.
BoundarySize == [b \in Block |-> IF b = 2 THEN 3 ELSE 1]

\* Block 3 is larger than MaxEncodingBytesPerChannel.
BulkSize     == [b \in Block |-> IF b = 3 THEN 6 ELSE 1]
=============================================================================
